----------------------------- MODULE ChainSync -----------------------------
(***************************************************************************)
(* The compressor follows a node: the pull stage asks for headers after a  *)
(* locator and plans rollbacks and blocks; the roll stage applies the plan *)
(* to the store and, near the tip, to the log of Apply, Undo and Mark that *)
(* StreamUpdatesWithContext replays to its readers.  What a block does to  *)
(* the other tables of the store is in Ledger.                             *)
(***************************************************************************)
EXTENDS Naturals, Sequences, Functions

CONSTANTS
  Blocks, Genesis, parent, height,
  Confs,          \* immutable_after_confs, Unset when the key is missing
  Unset,
  PageSize,       \* block_page_size
  LocatorSize,    \* the 50 headers that are reused as a locator
  LinearSteps,    \* the 10 locator entries before the step doubles
  QueueSize,      \* sync_channel_queue
  Strays,         \* heights of branches that the node lists but does not follow
  MaxCrashes,     \* bound: crashes of the process,
  MaxEnds,        \* times that it exits because the roll stage ended,
  MaxReconnects   \* and restarts of the pull stage alone

ASSUME SyncAssumption ==
  /\ Genesis \in Blocks
  /\ parent \in [Blocks \ {Genesis} -> Blocks]
  /\ height \in [Blocks -> Nat] /\ height[Genesis] = 0
  /\ \A b \in Blocks \ {Genesis} : height[b] = height[parent[b]] + 1
  /\ Confs \in Nat \cup {Unset} /\ Unset \notin Nat
  /\ {PageSize, LocatorSize, LinearSteps} \subseteq Nat \ {0}
  /\ Strays \subseteq Nat

VARIABLES
  node,       \* tip of the active chain of the node
  pull,       \* pull worker: its locator, the tip it knows, whether it started
  queue,      \* events that it sent and that the roll worker has not taken
  mutable,    \* roll stage: are we near the tip
  chain,      \* BlockByHeightKV: the block of each height from 1 on
  wal,        \* MutableKV: numbered entries of the log, in order
  next,       \* next_wal_seq
  reader,     \* a reader of the stream: its tip, its place in the log
  crashes, ends, reconnects

store == <<chain, wal, next>>
counters == <<crashes, ends, reconnects>>
vars == <<node, pull, queue, mutable, store, reader, counters>>

ancestors[b \in Blocks] == {b} \cup IF b = Genesis THEN {} ELSE ancestors[parent[b]]

\* The blocks above p up to its descendant b.
Path(p, b) ==
  [i \in 1..height[b] - height[p] |-> CHOOSE c \in ancestors[b] : height[c] = height[p] + i]

\* As in SequencesExt: with all of that module in scope the provers are too slow.
Last(s) == s[Len(s)]
Reverse(s) == [i \in 1..Len(s) |-> s[(Len(s) - i) + 1]]

LastBlock == IF chain = <<>> THEN Genesis ELSE Last(chain)
OnChain(b) == b = Genesis \/ b \in Range(chain)
Above(i) == SubSeq(chain, i + 1, Len(chain))

-----------------------------------------------------------------------------
(* The pull stage *)

\* A locator lists blocks of decreasing height, so it is a set here and the height
\* gives the order.
Newest(locator) == CHOOSE b \in locator : \A c \in locator : height[c] <= height[b]

\* Heights tip, tip - 1, ... and, from the LinearSteps-th on, steps that double: the
\* first k of them take 2 + 4 + ... + 2^k.
IntersectHeights(top) ==
  {h \in 1..top : \/ top - h < LinearSteps
                 \/ \E k \in 1..top : top - h = (LinearSteps - 1) + (2^(k + 1) - 2)}

IntersectOptions == {chain[h] : h \in IntersectHeights(Len(chain))} \cup {Genesis}

\* The highest of the tips that the node reports: a branch that it has only the
\* headers of, or found invalid, may be higher than the active one.
ChainTips == {height[node]} \cup {s \in Strays : s > height[node]}

Bootstrap == [cursor : {IntersectOptions}, tip : ChainTips, init : {FALSE}]

CursorTip == Newest(pull.cursor)

\* The node answers with the headers after the first entry it has in its chain.
Intersect == Newest(pull.cursor \cap ancestors[node])

Take(s, n) == SubSeq(s, 1, IF n < Len(s) THEN n ELSE Len(s))

NextCursor(headers) ==
  LET used == {headers[i] : i \in {j \in DOMAIN headers : j + LocatorSize > Len(headers)}}
      older == {b \in IntersectOptions : \A u \in used : height[b] < height[u]}
  IN  used \cup (IF Len(headers) < LocatorSize THEN older ELSE {}) \cup {Genesis}

RollBackTo(b, tip) == [k |-> "back", b |-> b, tip |-> tip]

Forward(tip, b) == IF height[b] > tip THEN height[b] ELSE tip

\* The events of one schedule: back to our own tip when just started, back to
\* the intersect when it is behind our tip, then the new blocks.
PlanWithoutRollback(headers) ==
  (IF pull.init \/ CursorTip = Genesis THEN <<>>
   ELSE <<RollBackTo(CursorTip, pull.tip)>>)
  \o [i \in DOMAIN headers |->
       [k |-> "forward", b |-> headers[i], tip |-> Forward(pull.tip, headers[i])]]

Plan(headers) ==
  (IF pull.init \/ CursorTip = Genesis THEN <<>>
   ELSE <<RollBackTo(CursorTip, pull.tip)>>)
  \o (IF height[Intersect] = height[CursorTip] THEN <<>>
      ELSE <<RollBackTo(Intersect, pull.tip)>>)
  \o [i \in DOMAIN headers |->
       [k |-> "forward", b |-> headers[i], tip |-> Forward(pull.tip, headers[i])]]

\* The page is cut to PageSize, except when it was awaited.
Schedule ==
  /\ Len(queue) <= QueueSize
  /\ Path(Intersect, node) # <<>>
  /\ \E headers \in {Path(Intersect, node), Take(Path(Intersect, node), PageSize)} :
       /\ queue' = queue \o Plan(headers)
       /\ pull' = [cursor |-> NextCursor(headers),
                   tip |-> Forward(pull.tip, Last(headers)),
                   init |-> TRUE]
  /\ UNCHANGED <<node, mutable, store, reader, counters>>

\* The peer handler ended: the worker is bootstrapped again, the queue stays.
Reconnect ==
  /\ reconnects < MaxReconnects /\ Len(queue) <= QueueSize
  /\ reconnects' = reconnects + 1
  /\ pull' \in Bootstrap
  /\ UNCHANGED <<node, queue, mutable, store, reader, crashes, ends>>

-----------------------------------------------------------------------------
(* The roll stage *)

Entry(n, k, b) == [n |-> n, k |-> k, b |-> b]

Near(e) == height[e.b] + Confs > e.tip

SwitchLate(e) ==
  mutable \/ IF Confs = Unset THEN e.k = "forward" ELSE height[e.b] + Confs > e.tip + 1

Switch(e) == mutable \/ IF Confs = Unset THEN e.k = "forward" ELSE Near(e)

\* Entries are deleted from the start until one is at the given height.
Prune(log, before) ==
  LET kept == {i \in DOMAIN log : height[log[i].b] >= before}
  IN  IF kept = {} THEN <<>>
      ELSE SubSeq(log, CHOOSE i \in kept : \A j \in kept : i <= j, Len(log))

ApplyKeepsSeq(b, m) ==
  LET log == IF m THEN Append(wal, Entry(next, "apply", b)) ELSE wal
  IN  /\ chain' = Append(chain, b)
      /\ wal' = IF m /\ Confs # Unset /\ height[b] >= Confs
                THEN Prune(log, height[b] - Confs) ELSE log
      /\ next' = IF m THEN next + 1 ELSE next

ApplyBlock(b, m) ==
  LET log == IF m THEN Append(wal, Entry(next, "apply", b)) ELSE wal
  IN  /\ chain' = Append(chain, b)
      /\ wal' = IF m /\ Confs # Unset /\ height[b] >= Confs
                THEN Prune(log, height[b] - Confs) ELSE log
      /\ next' = next + 1

Rollback(b, m) ==
  LET undone == Reverse(Above(height[b]))
      log == [i \in DOMAIN undone |-> Entry(next + i - 1, "undo", undone[i])]
  IN  /\ chain' = SubSeq(chain, 1, height[b])
      /\ wal' = IF m THEN wal \o log \o <<Entry(next + Len(log), "mark", b)>> ELSE wal
      /\ next' = IF m THEN next + Len(log) + 1 ELSE next

\* apply_block_with_context checks the previous hash unless the store is empty,
\* rollback that it has the very block (the genesis block it never has).
Fits(e) ==
  IF e.k = "forward" THEN LastBlock \in {Genesis, parent[e.b]}
  ELSE e.b \in Range(chain)

Roll ==
  /\ queue # <<>> /\ Fits(Head(queue))
  /\ LET e == Head(queue)
     IN  /\ mutable' = Switch(e)
         /\ IF e.k = "forward" THEN ApplyBlock(e.b, Switch(e)) ELSE Rollback(e.b, Switch(e))
  /\ queue' = Tail(queue)
  /\ UNCHANGED <<node, pull, reader, counters>>

-----------------------------------------------------------------------------
(* The process: what is in memory is lost, the sequence number is read back *)

Restart ==
  /\ queue' = <<>> /\ mutable' = FALSE
  /\ pull' \in Bootstrap
  /\ next' = IF wal = <<>> THEN 1 ELSE Last(wal).n + 1
  /\ reader' = [reader EXCEPT !.seq = 0]
  /\ UNCHANGED <<node, chain, wal, reconnects>>

Crash ==
  /\ crashes < MaxCrashes /\ crashes' = crashes + 1
  /\ Restart /\ UNCHANGED ends

\* An event that does not fit is retried in vain until the stage ends and the
\* daemon exits.
GiveUp ==
  /\ queue # <<>> /\ ~Fits(Head(queue))
  /\ ends < MaxEnds /\ ends' = ends + 1
  /\ Restart /\ UNCHANGED crashes

-----------------------------------------------------------------------------
(* A reader: it streams from the newest of its blocks that the log has, and *)
(* pages through the chain when the log has none of them.                   *)

First(places) == wal[CHOOSE i \in places : \A j \in places : i <= j]

Found(b) == {i \in DOMAIN wal : wal[i].k # "undo" /\ wal[i].b = b}

Connect ==
  /\ reader.seq = 0
  /\ \E b \in ancestors[reader.at] :
       /\ Found(b) # {}
       /\ \A c \in ancestors[reader.at] : height[c] > height[b] => Found(c) = {}
       /\ reader' = [reader EXCEPT !.at = b, !.seq = First(Found(b)).n]
  /\ UNCHANGED <<node, pull, queue, mutable, store, counters>>

Page ==
  /\ reader.seq = 0 /\ OnChain(reader.at)
  /\ \A b \in ancestors[reader.at] : Found(b) = {}
  /\ \E b \in Range(Above(height[reader.at])) : reader' = [reader EXCEPT !.at = b]
  /\ UNCHANGED <<node, pull, queue, mutable, store, counters>>

\* What stream_mutable finds from its sequence number on, without the first.
Pending ==
  {i \in DOMAIN wal : \E j \in DOMAIN wal : j < i /\ wal[j].n >= reader.seq}

Extends(at, e) == IF e.k = "apply" THEN parent[e.b] = at ELSE e.b = at

Stream ==
  /\ reader.seq # 0 /\ Pending # {}
  /\ LET e == First(Pending)
     IN  reader' =
           IF e.n # reader.seq + 1 THEN [reader EXCEPT !.seq = 0]
           ELSE [at |-> IF e.k = "undo" THEN parent[e.b] ELSE e.b, seq |-> e.n,
                 linked |-> reader.linked /\ Extends(reader.at, e)]
  /\ UNCHANGED <<node, pull, queue, mutable, store, counters>>

-----------------------------------------------------------------------------
(* The node: a chain with more work becomes active *)

NodeAdvances ==
  /\ node' \in {b \in Blocks : height[b] > height[node]}
  /\ UNCHANGED <<pull, queue, mutable, store, reader, counters>>

Init ==
  /\ node \in Blocks
  /\ chain = <<>> /\ wal = <<>> /\ next = 1
  /\ pull \in Bootstrap
  /\ queue = <<>> /\ mutable = FALSE
  /\ reader = [at |-> Genesis, seq |-> 0, linked |-> TRUE]
  /\ crashes = 0 /\ ends = 0 /\ reconnects = 0

Next ==
  \/ NodeAdvances
  \/ Schedule \/ Reconnect \/ Roll
  \/ Crash \/ GiveUp
  \/ Connect \/ Page \/ Stream

Spec == Init /\ [][Next]_vars

\* The workers run whenever they can; a stage that cannot work ends at last.
FairSpec == Spec /\ WF_vars(Schedule) /\ WF_vars(Roll) /\ WF_vars(GiveUp)

-----------------------------------------------------------------------------
(* Properties *)

\* What a reader is streamed continues the chain it has: a block follows its
\* parent, only its own tip is undone, and a mark names its tip.  And a reader
\* that was streamed the whole log has the tip of the store: near the tip the log
\* says everything that happened to the chain.
Followed ==
  /\ reader.linked
  /\ mutable /\ reader.seq # 0 /\ Pending = {}
     /\ (\E i \in DOMAIN wal : wal[i].n = reader.seq)
       => reader.at = LastBlock

\* A reader can follow the stream until the process restarts a second time (the
\* log of apply_block_with_context and rollback, read by stream_mutable, across
\* lost peers and the gaps that blocks applied without a log leave in the
\* sequence numbers; the second restart may close such a gap).
StreamFaithful == crashes + ends <= 1 => Followed

InWindow(b) == \A t \in Strays \cup {height[node]} : height[b] + Confs > t

\* Every block of the chain that is less than Confs deep below the tip of the node,
\* and below every branch that it lists, can be intersected in the log, however
\* often the process restarted, rolled back or pruned (worker of the roll stage,
\* which compares with the highest tip that the node has reported).
WindowKept == \A b \in Range(chain) : InWindow(b) => Found(b) # {}

\* A rollback that the pull stage plans names a block of the chain that the
\* store has by then.
RollbackOnChain ==
  queue # <<>> /\ Head(queue).k = "back" => Fits(Head(queue))

\* The store gets to the chain of the node once that stays the same, through
\* lost peers, restarts and plans that did not fit.
Synced ==
  \A b \in Blocks : <>[](node = b) => <>[](LastBlock = b)

=============================================================================
