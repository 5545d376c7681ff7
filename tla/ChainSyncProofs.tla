-------------------------- MODULE ChainSyncProofs ---------------------------
(***************************************************************************)
(* What the log of the compressor is good for, proved for every tree of    *)
(* blocks, page, locator and queue size: it reaches back as far as         *)
(* immutable_after_confs promises (WindowKept), and what a reader is       *)
(* streamed from it continues the chain the reader has (StreamFaithful),   *)
(* provided that no restart forgets a gap in its numbering.                *)
(***************************************************************************)
EXTENDS ChainSync, SequenceTheorems, WellFoundedInduction, TLAPS

\* Most steps are first-order; those that need arithmetic or functions cite SMT.
USE ZenonT(60)

\* The chain of a reader that was streamed the entry e.
After(e) == IF e.k = "undo" THEN parent[e.b] ELSE e.b

\* The blocks that can be mined, applied or undone.
Mined == Blocks \ {Genesis}

\* What the pull stage sends; a rollback may be to the genesis block.
Event == [k : {"back"}, b : Blocks, tip : Nat] \cup [k : {"forward"}, b : Mined, tip : Nat]

\* The genesis block is never logged.
LogEntry == [n : Nat \ {0}, k : {"apply", "undo", "mark"}, b : Mined]

\* The types of the variables that the proofs are about.
TypeOK ==
  /\ node \in Blocks
  /\ pull \in [cursor : SUBSET Blocks, tip : Nat, init : BOOLEAN]
  /\ queue \in Seq(Event)
  /\ mutable \in BOOLEAN
  /\ chain \in Seq(Mined)
  /\ wal \in Seq(LogEntry)
  /\ next \in Nat \ {0}
  /\ reader \in [at : Blocks, seq : Nat, linked : BOOLEAN]
  /\ crashes \in Nat /\ ends \in Nat

\* BlockByHeightKV holds a chain from the genesis block, block i at height i.
ChainShape ==
  \A i \in DOMAIN chain :
    /\ height[chain[i]] = i
    /\ parent[chain[i]] = IF i = 1 THEN Genesis ELSE chain[i - 1]

\* A locator has the genesis block, a newest block, and one block per height.
CursorShape ==
  /\ Genesis \in pull.cursor
  /\ \A b, c \in pull.cursor : height[b] = height[c] => b = c
  /\ \E b \in pull.cursor : \A c \in pull.cursor : height[c] <= height[b]

\* While the store is empty, the first block to apply is on the genesis block.
EmptyStore ==
  chain = <<>> =>
    IF queue = <<>> THEN CursorTip = Genesis
    ELSE Head(queue).k = "forward" /\ parent[Head(queue).b] = Genesis

\* A tip that is not above every branch of the node.
Listed(t) == \E s \in Strays \cup {height[node]} : t <= s

\* No tip on its way to the roll stage is above every branch of the node, and no block
\* is above its active chain.
Tips ==
  /\ Listed(pull.tip)
  /\ \A i \in DOMAIN queue : Listed(queue[i].tip)
  /\ \A i \in DOMAIN queue : queue[i].k = "forward" => height[queue[i].b] <= height[node]

\* The inductive invariant of WindowTheorem.
WindowInv == TypeOK /\ ChainShape /\ CursorShape /\ EmptyStore /\ Tips /\ WindowKept

\* The queue never announces a lower tip than before.
QueueTips ==
  /\ \A i, j \in DOMAIN queue : i <= j => queue[i].tip <= queue[j].tip
  /\ \A i \in DOMAIN queue : queue[i].tip <= pull.tip

\* Numbers in the log increase, and an entry whose number follows that of the one
\* before it continues the chain of a reader of that one.
LogShape ==
  /\ \A i, j \in DOMAIN wal : i < j => wal[i].n < wal[j].n
  /\ \A i \in DOMAIN wal : wal[i].n < next
  /\ \A i \in DOMAIN wal :
       i > 1 /\ wal[i].n = wal[i - 1].n + 1 => Extends(After(wal[i - 1]), wal[i])

\* The tip of a reader that has read the whole log.
LogTip == After(Last(wal))

\* The next entry is numbered as if it continued the log.
NoGap == next = Last(wal).n + 1

\* Near the tip the log is not empty and ends at the tip of the store.
NearTip == mutable => wal # <<>> /\ NoGap /\ LogTip = LastBlock

\* Every tip announced to the roll stage is Confs above the end of the log.
Deep ==
  /\ height[LogTip] + Confs <= pull.tip
  /\ \A i \in DOMAIN queue : height[LogTip] + Confs <= queue[i].tip

\* While blocks are not logged, the log ends at the tip of the store and what is to
\* be applied first starts there, or the tip is too far above the log for logging.
FarFromTip ==
  ~mutable /\ wal # <<>> /\ NoGap =>
    \/ LastBlock = LogTip
       /\ IF queue = <<>> THEN ~pull.init /\ CursorTip = LastBlock
          ELSE Head(queue).k = "back" => Head(queue).b = LastBlock
    \/ Deep /\ (LastBlock = LogTip \/ height[LastBlock] < height[LogTip])

\* The reader has been streamed a chain, and is where its entry of the log leads.
ReaderShape ==
  /\ reader.linked
  /\ reader.seq < next
  /\ reader.seq # 0 =>
       \A i \in DOMAIN wal : wal[i].n = reader.seq => reader.at = After(wal[i])

\* The inductive invariant of StreamTheorem, together with WindowInv.
StreamInv == QueueTips /\ LogShape /\ NearTip /\ FarFromTip /\ ReaderShape

\* Until the process restarts, a log is still being written.
FirstStart == crashes = 0 /\ ends = 0 => wal = <<>> \/ mutable

\* What StreamTheorem asks of a restart: it does not make the process forget, in
\* computing next_wal_seq anew, a number skipped after the end of the log.
NoGapLost == crashes' # crashes \/ ends' # ends => wal = <<>> \/ NoGap

\* And of the node: it never reports a lower tip than before.
NoLowerTip == pull.tip <= pull'.tip

-----------------------------------------------------------------------------
(* Sequences and numbers. *)

\* The elements of a sequence without its end.
LEMMA PrefixFacts ==
  ASSUME NEW S, NEW s \in Seq(S), NEW n \in 0..Len(s)
  PROVE  /\ SubSeq(s, 1, n) \in Seq(S) /\ Len(SubSeq(s, 1, n)) = n /\ DOMAIN SubSeq(s, 1, n) = 1..n
         /\ \A i \in 1..n : SubSeq(s, 1, n)[i] = s[i]
<1>1. SubSeq(s, 1, n) \in Seq(S)
  BY SMTT(60)
<1>2. Len(SubSeq(s, 1, n)) = n /\ DOMAIN SubSeq(s, 1, n) = 1..n
  BY SMTT(60)
<1>3. \A i \in 1..n : SubSeq(s, 1, n)[i] = s[i]
  BY SMTT(60)
<1> QED
  BY <1>1, <1>2, <1>3

\* The elements of a sequence without its start.
LEMMA SuffixFacts ==
  ASSUME NEW S, NEW s \in Seq(S), NEW k \in 0..Len(s)
  PROVE  /\ SubSeq(s, k + 1, Len(s)) \in Seq(S)
         /\ Len(SubSeq(s, k + 1, Len(s))) = Len(s) - k
         /\ DOMAIN SubSeq(s, k + 1, Len(s)) = 1..Len(s) - k
         /\ \A i \in 1..Len(s) - k : SubSeq(s, k + 1, Len(s))[i] = s[k + i]
<1>1. SubSeq(s, k + 1, Len(s)) \in Seq(S)
  BY SMTT(60)
<1>2. Len(SubSeq(s, k + 1, Len(s))) = Len(s) - k /\ DOMAIN SubSeq(s, k + 1, Len(s)) = 1..Len(s) - k
  BY SMTT(60)
<1>3. \A i \in 1..Len(s) - k : SubSeq(s, k + 1, Len(s))[i] = s[k + i]
  BY SMTT(60)
<1> QED
  BY <1>1, <1>2, <1>3

\* What the concatenation of two sequences consists of.
Joined(s, r, q) ==
  /\ Len(q) = Len(s) + Len(r) /\ Len(s) \in Nat /\ Len(r) \in Nat
  /\ DOMAIN q = 1..Len(s) + Len(r) /\ DOMAIN s = 1..Len(s) /\ DOMAIN r = 1..Len(r)
  /\ \A i \in 1..Len(s) : q[i] = s[i]
  /\ \A i \in 1..Len(r) : q[Len(s) + i] = r[i]
  /\ \A i \in 1..Len(s) + Len(r) :
       i \in 1..Len(s) \/ \E j \in 1..Len(r) : i = Len(s) + j /\ q[i] = r[j]

\* The elements of two sequences one after the other.
LEMMA ConcatFacts ==
  ASSUME NEW S, NEW s \in Seq(S), NEW r \in Seq(S)
  PROVE  s \o r \in Seq(S) /\ Joined(s, r, s \o r)
<1>1. s \o r \in Seq(S) /\ Len(s \o r) = Len(s) + Len(r) /\ Len(s) \in Nat /\ Len(r) \in Nat
  BY SMTT(60)
<1>2. DOMAIN (s \o r) = 1..Len(s) + Len(r) /\ DOMAIN s = 1..Len(s) /\ DOMAIN r = 1..Len(r)
  BY SMTT(60)
<1>3. \A i \in 1..Len(s) : (s \o r)[i] = s[i]
  BY SMTT(60)
<1>4. \A i \in 1..Len(r) : (s \o r)[Len(s) + i] = r[i]
  BY SMTT(60)
<1>5. ASSUME NEW i \in 1..Len(s) + Len(r), i \notin 1..Len(s)
      PROVE  i - Len(s) \in 1..Len(r) /\ i = Len(s) + (i - Len(s))
  BY <1>1, <1>5, SMTT(60)
<1> QED
  BY <1>1, <1>2, <1>3, <1>4, <1>5 DEF Joined

\* The empty sequence has length zero.
LEMMA EmptyLen == Len(<<>>) = 0
  BY SMTT(60)

\* A set of natural numbers has a least one.
LEMMA LeastNat ==
  ASSUME NEW T \in SUBSET Nat, T # {}
  PROVE  \E x \in T : \A y \in T : x <= y
<1> DEFINE R == {z \in Nat \X Nat : z[1] < z[2]}
<1>1. IsWellFoundedOn(R, Nat)
  BY NatLessThanWellFounded DEF OpToRel
<1>2. PICK x \in T : \A y \in T : ~ (<<y, x>> \in R)
  <2> HIDE DEF R
  <2> QED
    BY <1>1, WFMin
<1>3. \A y \in T : ~ (y < x)
  BY <1>2
<1> QED
  BY <1>3, SMTT(60)

-----------------------------------------------------------------------------
(* The tree of blocks. *)

\* The function ancestors is what its recursive definition says.
LEMMA AncestorsDef ==
  ASSUME NEW b \in Blocks
  PROVE  ancestors[b] = {b} \cup IF b = Genesis THEN {} ELSE ancestors[parent[b]]
<1> DEFINE Closed(S) == \A d \in S : d # Genesis => parent[d] \in S
           g == [x \in Blocks |-> {c \in Blocks : \A S \in SUBSET Blocks : x \in S /\ Closed(S) => c \in S}]
           Unfold(f, x) == {x} \cup IF x = Genesis THEN {} ELSE f[parent[x]]
<1>1. ASSUME NEW x \in Blocks PROVE g[x] = Unfold(g, x)
  <2>1. ASSUME x = Genesis PROVE g[x] = {x}
    <3>1. Closed({x}) /\ {x} \in SUBSET Blocks
      BY <2>1
    <3> QED
      BY <3>1
  <2>2. ASSUME x # Genesis PROVE g[x] = {x} \cup g[parent[x]]
    <3>1. parent[x] \in Blocks
      BY <2>2, SyncAssumption, SMTT(60)
    <3>2. ASSUME NEW c \in g[parent[x]] PROVE c \in g[x]
      BY <2>2, <3>1, <3>2
    <3>3. ASSUME NEW c \in g[x], c # x PROVE c \in g[parent[x]]
      <4>1. SUFFICES ASSUME NEW S \in SUBSET Blocks, parent[x] \in S, Closed(S) PROVE c \in S
        BY <3>1, <3>3
      <4>2. Closed(S \cup {x}) /\ S \cup {x} \in SUBSET Blocks
        BY <4>1
      <4> QED
        BY <3>3, <4>2
    <3>4. x \in g[x]
      OBVIOUS
    <3> QED
      BY <3>2, <3>3, <3>4
  <2> QED
    BY <2>1, <2>2
<1>2. \E f : f = [x \in Blocks |-> {x} \cup IF x = Genesis THEN {} ELSE f[parent[x]]]
  <2>1. g = [x \in Blocks |-> Unfold(g, x)]
    BY <1>1
  <2> HIDE DEF g
  <2> QED
    BY <2>1
<1>3. ancestors = [x \in Blocks |-> {x} \cup IF x = Genesis THEN {} ELSE ancestors[parent[x]]]
  <2> HIDE DEF g
  <2> QED
    BY <1>2 DEF ancestors
<1> QED
  BY <1>3

\* Heights are natural numbers, and only the genesis block has height 0.
LEMMA HeightFacts ==
  /\ Genesis \in Blocks /\ height[Genesis] = 0
  /\ \A b \in Blocks : height[b] \in Nat
  /\ \A b \in Mined : parent[b] \in Blocks /\ height[b] = height[parent[b]] + 1
  /\ \A b \in Blocks : height[b] = 0 <=> b = Genesis
  BY SyncAssumption, SMTT(60) DEF Mined

\* The ancestors of a block lead down to the genesis block, one for each height.
AncestorsShape(b) ==
  /\ ancestors[b] \subseteq Blocks
  /\ b \in ancestors[b] /\ Genesis \in ancestors[b]
  /\ \A c \in ancestors[b] : c # Genesis => parent[c] \in ancestors[b]
  /\ \A c \in ancestors[b] : height[c] <= height[b]
  /\ \A c, d \in ancestors[b] : height[c] = height[d] => c = d
  /\ \A h \in 0..height[b] : \E c \in ancestors[b] : height[c] = h

\* The ancestors of every block have the shape above.
LEMMA AncestorFacts == \A b \in Blocks : AncestorsShape(b)
<1> DEFINE Bad == {b \in Blocks : ~ AncestorsShape(b)}
           T == {height[b] : b \in Bad}
<1> SUFFICES ASSUME Bad # {} PROVE FALSE
  OBVIOUS
<1>1. T \in SUBSET Nat /\ T # {}
  BY HeightFacts
<1>2. PICK x \in T : \A y \in T : x <= y
  <2> HIDE DEF T
  <2> QED
    BY <1>1, LeastNat
<1>3. PICK b \in Bad : x = height[b]
  OBVIOUS
<1>4. CASE b = Genesis
  <2>1. ancestors[b] = {b}
    BY <1>4, AncestorsDef
  <2>2. \A h \in 0..height[b] : h = height[b]
    BY <1>4, HeightFacts, SMTT(60)
  <2>3. \A c \in {b} : height[c] <= height[b]
    BY HeightFacts, SMTT(60)
  <2> QED
    BY <1>4, <2>1, <2>2, <2>3 DEF AncestorsShape
<1>5. CASE b # Genesis
  <2>1. b \in Blocks /\ b \in Mined /\ parent[b] \in Blocks /\ height[b] = height[parent[b]] + 1
    BY <1>5, HeightFacts DEF Mined
  <2>2. height[b] \in Nat /\ height[parent[b]] \in Nat
    BY <2>1, HeightFacts
  <2>3. AncestorsShape(parent[b])
    <3>1. ~ (height[b] <= height[parent[b]])
      BY <2>1, <2>2, SMTT(60)
    <3> QED
      BY <1>2, <1>3, <2>1, <3>1
  <2>4. ancestors[b] = {b} \cup ancestors[parent[b]]
    BY <1>5, <2>1, AncestorsDef
  <2>5. \A c \in ancestors[parent[b]] : c \in Blocks /\ height[c] \in Nat /\ height[c] <= height[parent[b]]
    BY <2>3, HeightFacts DEF AncestorsShape
  <2>6. \A c \in ancestors[parent[b]] : height[c] <= height[b] /\ height[c] # height[b]
    BY <2>1, <2>2, <2>5, SMTT(60)
  <2>7. \A h \in 0..height[b] : h = height[b] \/ h \in 0..height[parent[b]]
    BY <2>1, <2>2, SMTT(60)
  <2>8. height[b] <= height[b]
    BY <2>2, SMTT(60)
  <2>9. \A c \in ancestors[b] : c # Genesis => parent[c] \in ancestors[b]
    BY <2>3, <2>4 DEF AncestorsShape
  <2>10. \A c, d \in ancestors[b] : height[c] = height[d] => c = d
    BY <2>3, <2>4, <2>6 DEF AncestorsShape
  <2>11. \A h \in 0..height[b] : \E c \in ancestors[b] : height[c] = h
    BY <2>3, <2>4, <2>7 DEF AncestorsShape
  <2>12. \A c \in ancestors[b] : height[c] <= height[b]
    BY <2>4, <2>6, <2>8
  <2>13. ancestors[b] \subseteq Blocks /\ b \in ancestors[b] /\ Genesis \in ancestors[b]
    BY <2>1, <2>3, <2>4 DEF AncestorsShape
  <2> QED
    BY <2>9, <2>10, <2>11, <2>12, <2>13 DEF AncestorsShape
<1> QED
  BY <1>4, <1>5

\* A block has at most one ancestor of a height.
LEMMA SameHeight ==
  ASSUME NEW b \in Blocks, NEW c \in ancestors[b], NEW d \in ancestors[b], height[c] = height[d]
  PROVE  c = d
  BY AncestorFacts DEF AncestorsShape

\* Path(p, b) leads from a child of p to b, each block on its parent.
LEMMA PathFacts ==
  ASSUME NEW b \in Blocks, NEW p \in ancestors[b]
  PROVE  /\ height[b] - height[p] \in Nat
         /\ Path(p, b) \in Seq(Mined) /\ Len(Path(p, b)) = height[b] - height[p]
         /\ \A i \in 1..height[b] - height[p] :
              /\ Path(p, b)[i] \in Mined /\ height[Path(p, b)[i]] = height[p] + i
              /\ parent[Path(p, b)[i]] = IF i = 1 THEN p ELSE Path(p, b)[i - 1]
<1> DEFINE n == height[b] - height[p]
           f == Path(p, b)
<1>1. AncestorsShape(b) /\ p \in Blocks /\ height[p] \in Nat /\ height[b] \in Nat /\ height[p] <= height[b]
  BY AncestorFacts, HeightFacts DEF AncestorsShape
<1>2. n \in Nat
  BY <1>1, SMTT(60)
<1>3. f = [i \in 1..n |-> CHOOSE c \in ancestors[b] : height[c] = height[p] + i]
  BY DEF Path
<1>4. ASSUME NEW i \in 1..n
      PROVE  f[i] \in ancestors[b] /\ height[f[i]] = height[p] + i /\ f[i] \in Mined
  <2>1. height[p] + i \in 0..height[b] /\ height[p] + i # 0
    BY <1>1, SMTT(60)
  <2>2. \E c \in ancestors[b] : height[c] = height[p] + i
    BY <1>1, <2>1 DEF AncestorsShape
  <2>3. f[i] = CHOOSE c \in ancestors[b] : height[c] = height[p] + i
    BY <1>3
  <2>4. f[i] \in ancestors[b] /\ height[f[i]] = height[p] + i
    BY <2>2, <2>3
  <2> QED
    BY <1>1, <2>1, <2>4, HeightFacts DEF AncestorsShape, Mined
<1> HIDE DEF f
<1>5. f \in Seq(Mined) /\ Len(f) = n
  <2>1. f \in [1..n -> Mined]
    BY <1>3, <1>4
  <2> HIDE DEF n
  <2> QED
    BY <1>2, <2>1, SMTT(60)
<1>6. ASSUME NEW i \in 1..n PROVE parent[f[i]] = IF i = 1 THEN p ELSE f[i - 1]
  <2>1. /\ parent[f[i]] \in ancestors[b] /\ parent[f[i]] \in Blocks
        /\ height[f[i]] = height[parent[f[i]]] + 1
    BY <1>1, <1>4, HeightFacts DEF AncestorsShape, Mined
  <2>2. height[parent[f[i]]] \in Nat
    BY <2>1, HeightFacts
  <2>3. height[f[i]] = height[p] + i
    BY <1>4
  <2>4. CASE i = 1
    <3>1. height[parent[f[i]]] = height[p]
      BY <1>1, <2>1, <2>2, <2>3, <2>4, SMTT(60)
    <3> QED
      BY <2>1, <2>4, <3>1, SameHeight
  <2>5. CASE i # 1
    <3>1. i - 1 \in 1..n /\ i \in Nat
      BY <1>2, <2>5, SMTT(60)
    <3>2. height[f[i - 1]] = height[p] + (i - 1) /\ f[i - 1] \in ancestors[b]
      BY <1>4, <3>1
    <3>3. height[parent[f[i]]] = height[f[i - 1]]
      BY <1>1, <2>1, <2>2, <2>3, <3>1, <3>2, SMTT(60)
    <3>4. parent[f[i]] = f[i - 1]
      BY <2>1, <3>2, <3>3, SameHeight
    <3> QED
      BY <2>5, <3>4
  <2> QED
    BY <2>4, <2>5
<1> QED
  BY <1>2, <1>4, <1>5, <1>6 DEF f

\* A set of blocks of bounded height that is not empty has a newest one.
LEMMA NewestFacts ==
  ASSUME NEW S \in SUBSET Blocks, S # {}, NEW n \in Nat, \A b \in S : height[b] <= n
  PROVE  Newest(S) \in S /\ \A c \in S : height[c] <= height[Newest(S)]
<1> DEFINE T == {n - height[b] : b \in S}
<1>1. T \in SUBSET Nat /\ T # {}
  BY HeightFacts, SMTT(60)
<1>2. PICK x \in T : \A y \in T : x <= y
  <2> HIDE DEF T
  <2> QED
    BY <1>1, LeastNat
<1>3. PICK b \in S : x = n - height[b]
  OBVIOUS
<1>4. ASSUME NEW c \in S PROVE height[c] <= height[b]
  <2>1. n - height[b] <= n - height[c]
    BY <1>2, <1>3
  <2> QED
    BY <2>1, HeightFacts, SMTT(60)
<1> QED
  BY <1>4 DEF Newest

\* The newest block of a set in which the heights differ.
LEMMA NewestIs ==
  ASSUME NEW S \in SUBSET Blocks, NEW b \in S,
         \A c \in S : c # b => height[c] < height[b]
  PROVE  Newest(S) = b
<1>1. \A c \in S : height[c] <= height[b]
  BY HeightFacts, SMTT(60)
<1>2. ASSUME NEW d \in S, \A c \in S : height[c] <= height[d] PROVE d = b
  <2>1. height[b] <= height[d]
    BY <1>2
  <2>2. ~ (height[d] < height[b])
    BY <2>1, HeightFacts, SMTT(60)
  <2> QED
    BY <2>2
<1> QED
  BY <1>1, <1>2 DEF Newest

\* The intersection with the node is an entry of the locator and an ancestor of
\* the tip of the node; it is as high as the first entry only if it is that.
LEMMA IntersectFacts ==
  ASSUME TypeOK, CursorShape
  PROVE  /\ Intersect \in pull.cursor /\ Intersect \in ancestors[node] /\ Intersect \in Blocks
         /\ CursorTip \in pull.cursor /\ CursorTip \in Blocks
         /\ \A c \in pull.cursor : height[c] <= height[CursorTip]
         /\ height[Intersect] = height[CursorTip] => Intersect = CursorTip
<1> DEFINE S == pull.cursor \cap ancestors[node]
<1>1. node \in Blocks /\ pull.cursor \in SUBSET Blocks /\ AncestorsShape(node) /\ height[node] \in Nat
  BY AncestorFacts, HeightFacts DEF TypeOK
<1>2. S \in SUBSET Blocks /\ S # {} /\ \A c \in S : height[c] <= height[node]
  BY <1>1 DEF CursorShape, AncestorsShape
<1>3. Intersect \in S
  <2>1. Newest(S) \in S
    <3> HIDE DEF S
    <3> QED
      BY <1>1, <1>2, NewestFacts
  <2> QED
    BY <2>1 DEF Intersect
<1>4. CursorTip \in pull.cursor /\ \A c \in pull.cursor : height[c] <= height[CursorTip]
  BY DEF CursorShape, CursorTip, Newest
<1> QED
  BY <1>1, <1>3, <1>4 DEF CursorShape

\* The events in the queue.
LEMMA QueueFacts ==
  ASSUME TypeOK
  PROVE  /\ Len(queue) \in Nat /\ DOMAIN queue = 1..Len(queue)
         /\ \A i \in DOMAIN queue :
              /\ queue[i] \in Event /\ queue[i].tip \in Nat /\ queue[i].b \in Blocks
              /\ height[queue[i].b] \in Nat
              /\ queue[i].k = "back" \/ (queue[i].k = "forward" /\ queue[i].b \in Mined)
<1>1. queue \in Seq(Event)
  BY DEF TypeOK
<1>2. Len(queue) \in Nat /\ DOMAIN queue = 1..Len(queue) /\ \A i \in DOMAIN queue : queue[i] \in Event
  BY <1>1, SMTT(60)
<1>3. \A e \in Event : /\ e.tip \in Nat /\ e.b \in Blocks
                       /\ e.k = "back" \/ (e.k = "forward" /\ e.b \in Mined)
  BY SMTT(60) DEF Event, Mined
<1> QED
  BY <1>2, <1>3, HeightFacts

\* The entries of the log.
LEMMA LogFacts ==
  ASSUME TypeOK
  PROVE  /\ Len(wal) \in Nat /\ DOMAIN wal = 1..Len(wal)
         /\ \A i \in DOMAIN wal :
              /\ wal[i] \in LogEntry /\ wal[i].n \in Nat /\ wal[i].n # 0
              /\ wal[i].k \in {"apply", "undo", "mark"}
              /\ wal[i].b \in Mined /\ wal[i].b \in Blocks /\ height[wal[i].b] \in Nat
              /\ After(wal[i]) \in Blocks
<1>1. wal \in Seq(LogEntry)
  BY DEF TypeOK
<1>2. Len(wal) \in Nat /\ DOMAIN wal = 1..Len(wal) /\ \A i \in DOMAIN wal : wal[i] \in LogEntry
  BY <1>1, SMTT(60)
<1>3. \A e \in LogEntry : /\ e.n \in Nat /\ e.n # 0 /\ e.b \in Mined /\ e.b \in Blocks
                          /\ e.k \in {"apply", "undo", "mark"}
  BY SMTT(60) DEF LogEntry, Mined
<1>4. \A e \in LogEntry : After(e) \in Blocks
  BY <1>3, HeightFacts DEF After
<1> QED
  BY <1>2, <1>3, <1>4, HeightFacts

\* The blocks of the store have their height as index, so no two are equally high.
LEMMA ChainFacts ==
  ASSUME TypeOK, ChainShape
  PROVE  /\ Len(chain) \in Nat /\ DOMAIN chain = 1..Len(chain)
         /\ \A i \in 1..Len(chain) : chain[i] \in Mined /\ chain[i] \in Blocks /\ height[chain[i]] = i
         /\ LastBlock \in Blocks /\ height[LastBlock] = Len(chain)
         /\ LastBlock = Genesis <=> chain = <<>>
         /\ chain # <<>> => LastBlock = chain[Len(chain)]
         /\ Range(chain) = {chain[i] : i \in 1..Len(chain)}
         /\ \A b \in Range(chain) : b \in Mined /\ height[b] \in 1..Len(chain) /\ chain[height[b]] = b
<1>1. Len(chain) \in Nat /\ DOMAIN chain = 1..Len(chain) /\ \A i \in 1..Len(chain) : chain[i] \in Mined
  BY SMTT(60) DEF TypeOK
<1>2. \A i \in 1..Len(chain) : chain[i] \in Blocks /\ height[chain[i]] = i
  BY <1>1 DEF ChainShape, Mined
<1>3. Range(chain) = {chain[i] : i \in 1..Len(chain)}
  BY <1>1 DEF Range
<1>4. \A b \in Range(chain) : b \in Mined /\ height[b] \in 1..Len(chain) /\ chain[height[b]] = b
  BY <1>1, <1>2, <1>3
<1>5. CASE chain = <<>>
  <2>1. Len(chain) = 0
    BY <1>5, SMTT(60)
  <2>2. LastBlock = Genesis
    BY <1>5 DEF LastBlock
  <2> QED
    BY <1>1, <1>2, <1>3, <1>4, <1>5, <2>1, <2>2, HeightFacts
<1>6. CASE chain # <<>>
  <2>1. Len(chain) \in 1..Len(chain)
    BY <1>6, SMTT(60) DEF TypeOK
  <2>2. LastBlock = chain[Len(chain)]
    BY <1>6 DEF LastBlock, Last
  <2>3. LastBlock \in Blocks /\ height[LastBlock] = Len(chain) /\ LastBlock # Genesis
    BY <1>1, <1>2, <2>1, <2>2 DEF Mined
  <2> QED
    BY <1>1, <1>2, <1>3, <1>4, <1>6, <2>2, <2>3
<1> QED
  BY <1>5, <1>6

-----------------------------------------------------------------------------
(* Locators. *)

\* A locator whose first entry is t.
Locator(C, t) ==
  /\ C \in SUBSET Blocks /\ Genesis \in C /\ t \in C
  /\ \A c \in C : c # t => height[c] < height[t]
  /\ \A b, c \in C : height[b] = height[c] => b = c

\* A locator has one newest block.
LEMMA LocatorFacts ==
  ASSUME NEW C, NEW t, Locator(C, t)
  PROVE  /\ Newest(C) = t
         /\ \E b \in C : \A c \in C : height[c] <= height[b]
<1>1. C \in SUBSET Blocks /\ t \in C /\ \A c \in C : c # t => height[c] < height[t]
  BY DEF Locator
<1>2. \A c \in C : height[c] <= height[t]
  BY <1>1, HeightFacts, SMTT(60)
<1> QED
  BY <1>1, <1>2, NewestIs

\* The pull stage after a step that gives it a locator with the first entry t.
LEMMA LocatorShape ==
  ASSUME NEW t, Locator(pull'.cursor, t)
  PROVE  CursorShape' /\ CursorTip' = t
<1>1. Newest(pull'.cursor) = t /\ \E b \in pull'.cursor : \A c \in pull'.cursor : height[c] <= height[b]
  BY LocatorFacts
<1>2. Genesis \in pull'.cursor /\ \A b, c \in pull'.cursor : height[b] = height[c] => b = c
  BY DEF Locator
<1> QED
  BY <1>1, <1>2 DEF CursorShape, CursorTip

\* intersect_options lists blocks of the store, from its tip down, and the genesis block.
LEMMA OptionsFacts ==
  ASSUME TypeOK, ChainShape
  PROVE  Locator(IntersectOptions, LastBlock)
<1> DEFINE H == IntersectHeights(Len(chain))
           S == IntersectOptions
<1>1. /\ Len(chain) \in Nat
      /\ \A i \in 1..Len(chain) : chain[i] \in Mined /\ chain[i] \in Blocks /\ height[chain[i]] = i
      /\ LastBlock \in Blocks /\ height[LastBlock] = Len(chain)
      /\ LastBlock = Genesis <=> chain = <<>>
      /\ chain # <<>> => LastBlock = chain[Len(chain)]
  BY ChainFacts
<1>2. H \subseteq 1..Len(chain)
  BY DEF IntersectHeights
<1>3. S = {chain[h] : h \in H} \cup {Genesis}
  BY DEF IntersectOptions
<1>4. ASSUME chain # <<>> PROVE Len(chain) \in H
  <2>1. Len(chain) \in 1..Len(chain)
    BY <1>4, SMTT(60) DEF TypeOK
  <2>2. Len(chain) - Len(chain) < LinearSteps
    BY <1>1, SyncAssumption, SMTT(60)
  <2> QED
    BY <2>1, <2>2 DEF IntersectHeights
<1> HIDE DEF H, S
<1>5. S \in SUBSET Blocks /\ Genesis \in S /\ LastBlock \in S
  <2>1. S \subseteq Blocks /\ Genesis \in S
    <3>1. \A h \in H : chain[h] \in Blocks
      BY <1>1, <1>2
    <3>2. Genesis \in Blocks
      BY SyncAssumption
    <3>3. ASSUME NEW c \in S PROVE c \in Blocks
      BY <1>3, <3>1, <3>2, <3>3
    <3> QED
      BY <1>3, <3>3
  <2>2. LastBlock \in S
    BY <1>1, <1>3, <1>4, <2>1
  <2> QED
    BY <2>1, <2>2
<1>6. ASSUME NEW c \in S, c # LastBlock PROVE height[c] < height[LastBlock]
  <2>1. CASE c = Genesis
    <3>1. height[LastBlock] # 0 /\ height[LastBlock] \in Nat /\ height[c] = 0
      BY <1>1, <1>6, <2>1, HeightFacts
    <3> QED
      BY <3>1, SMTT(60)
  <2>2. CASE c # Genesis
    <3>1. PICK h \in H : c = chain[h]
      BY <1>3, <2>2
    <3>2. h \in 1..Len(chain) /\ height[c] = h
      BY <1>1, <1>2, <3>1
    <3>3. chain # <<>>
      BY <3>2, SMTT(60)
    <3>4. h # Len(chain)
      BY <1>1, <1>6, <3>1, <3>3
    <3> QED
      BY <1>1, <3>2, <3>4, SMTT(60)
  <2> QED
    BY <2>1, <2>2
<1>7. ASSUME NEW b \in S, NEW c \in S, height[b] = height[c] PROVE b = c
  <2>1. ASSUME NEW d \in S, d # Genesis PROVE d = chain[height[d]]
    <3>1. PICK h \in H : d = chain[h]
      BY <1>3, <2>1
    <3> QED
      BY <1>1, <1>2, <3>1
  <2>2. \A d \in S : height[d] = 0 <=> d = Genesis
    BY <1>5, HeightFacts
  <2> QED
    BY <1>7, <2>1, <2>2
<1> QED
  BY <1>5, <1>6, <1>7 DEF Locator, S

\* The locator after a page of headers starts with the last of them.
LEMMA NextCursorFacts ==
  ASSUME TypeOK, ChainShape, NEW headers \in Seq(Mined), headers # <<>>, NEW h0 \in Nat,
         \A i \in 1..Len(headers) : height[headers[i]] = h0 + i
  PROVE  Locator(NextCursor(headers), Last(headers))
<1> DEFINE n == Len(headers)
           used == {headers[i] : i \in {j \in DOMAIN headers : j + LocatorSize > n}}
           older == {b \in IntersectOptions : \A u \in used : height[b] < height[u]}
           C == NextCursor(headers)
           t == Last(headers)
<1>1. n \in Nat /\ n \in 1..n /\ DOMAIN headers = 1..n /\ \A i \in 1..n : headers[i] \in Mined
  BY SMTT(60)
<1>2. t = headers[n]
  BY DEF Last
<1>3. C \subseteq used \cup older \cup {Genesis} /\ used \subseteq C /\ Genesis \in C
  BY DEF NextCursor
<1>4. t \in used
  <2>1. n + LocatorSize > n
    BY <1>1, SyncAssumption, SMTT(60)
  <2> QED
    BY <1>1, <1>2, <2>1
<1>5. \A c \in used : \E i \in 1..n : c = headers[i] /\ height[c] = h0 + i /\ c \in Mined
  BY <1>1
<1>6. Locator(IntersectOptions, LastBlock)
  BY OptionsFacts
<1>7. used \subseteq Blocks /\ older \subseteq Blocks
  BY <1>5, <1>6 DEF Locator, Mined
<1>8. ASSUME NEW c \in older, NEW u \in used PROVE height[c] < height[u]
  OBVIOUS
<1> HIDE DEF used, older, C, n, t
<1>9. ASSUME NEW b \in used, NEW c \in used, height[b] = height[c] PROVE b = c
  <2>1. PICK i \in 1..n : b = headers[i] /\ height[b] = h0 + i
    BY <1>5
  <2>2. PICK j \in 1..n : c = headers[j] /\ height[c] = h0 + j
    BY <1>5
  <2>3. i = j
    BY <1>1, <1>9, <2>1, <2>2, SMTT(60)
  <2> QED
    BY <2>1, <2>2, <2>3
<1>10. height[t] = h0 + n /\ height[t] \in Nat
  BY <1>1, <1>2, SMTT(60) DEF n
<1>11. ASSUME NEW c \in used, c # t PROVE height[c] < height[t]
  <2>1. PICK i \in 1..n : c = headers[i] /\ height[c] = h0 + i
    BY <1>5
  <2>2. i # n
    BY <1>2, <1>11, <2>1
  <2> QED
    BY <1>1, <1>10, <2>1, <2>2, SMTT(60)
<1>12. ASSUME NEW u \in used PROVE height[Genesis] < height[u] /\ Genesis # u
  <2>1. PICK i \in 1..n : u = headers[i] /\ height[u] = h0 + i
    BY <1>5
  <2>2. height[Genesis] < height[u]
    BY <1>1, <2>1, HeightFacts, SMTT(60)
  <2>3. u \in Mined
    BY <1>1, <2>1
  <2> QED
    BY <2>2, <2>3 DEF Mined
<1>13. ASSUME NEW b \in C, NEW c \in C, height[b] = height[c] PROVE b = c
  <2>1. ASSUME NEW x \in Blocks, NEW y \in Blocks, height[x] < height[y] PROVE height[x] # height[y]
    BY <2>1, HeightFacts, SMTT(60)
  <2>2. (b \in used \/ b \in older \/ b = Genesis) /\ (c \in used \/ c \in older \/ c = Genesis)
    BY <1>3
  <2>3. ASSUME NEW x \in older, NEW y \in used PROVE height[x] # height[y]
    BY <1>7, <1>8, <2>1
  <2>4. ASSUME NEW y \in used PROVE height[Genesis] # height[y]
    BY <1>7, <1>12, <2>1, HeightFacts
  <2>5. ASSUME NEW x \in Blocks, height[x] = height[Genesis] PROVE x = Genesis
    BY <2>5, HeightFacts
  <2>6. ASSUME NEW x \in older, NEW y \in older, height[x] = height[y] PROVE x = y
    BY <1>6, <2>6 DEF Locator, older
  <2>7. CASE b \in used
    BY <1>9, <1>13, <2>2, <2>3, <2>4, <2>7
  <2>8. CASE b \in older
    BY <1>7, <1>13, <2>2, <2>3, <2>5, <2>6, <2>8
  <2>9. CASE b = Genesis
    BY <1>7, <1>13, <2>2, <2>4, <2>5, <2>9
  <2> QED
    BY <2>2, <2>7, <2>8, <2>9
<1> QED
  BY <1>3, <1>4, <1>7, <1>8, <1>11, <1>12, <1>13, HeightFacts DEF Locator, C, t

-----------------------------------------------------------------------------
(* The store. *)

\* The chain after a block on its tip.
LEMMA AppliedChain ==
  ASSUME TypeOK, ChainShape, NEW b \in Mined, parent[b] = LastBlock, chain' = Append(chain, b)
  PROVE  /\ chain' \in Seq(Mined) /\ chain' # <<>> /\ ChainShape' /\ LastBlock' = b
         /\ height[b] = Len(chain) + 1
         /\ Range(chain)' = Range(chain) \cup {b}
<1> DEFINE n == Len(chain)
<1>1. /\ n \in Nat /\ DOMAIN chain = 1..n
      /\ LastBlock \in Blocks /\ height[LastBlock] = n
      /\ LastBlock = Genesis <=> chain = <<>>
      /\ chain # <<>> => LastBlock = chain[n]
      /\ Range(chain) = {chain[i] : i \in 1..n}
  BY ChainFacts
<1>2. /\ chain' \in Seq(Mined) /\ chain' # <<>> /\ Len(chain') = n + 1 /\ DOMAIN chain' = 1..n + 1
      /\ chain'[n + 1] = b /\ \A i \in 1..n : chain'[i] = chain[i]
  <2>1. chain \in Seq(Mined)
    BY DEF TypeOK
  <2> QED
    BY <2>1, SMTT(60)
<1>3. height[b] = n + 1
  BY <1>1, HeightFacts
<1>4. LastBlock' = b
  BY <1>2 DEF LastBlock, Last
<1>5. ASSUME NEW i \in 1..n + 1
      PROVE  height[chain'[i]] = i /\ parent[chain'[i]] = IF i = 1 THEN Genesis ELSE chain'[i - 1]
  <2>1. CASE i \in 1..n
    <3>1. /\ height[chain[i]] = i
          /\ parent[chain[i]] = IF i = 1 THEN Genesis ELSE chain[i - 1]
      BY <1>1, <2>1 DEF ChainShape
    <3>2. i # 1 => i - 1 \in 1..n
      BY <1>1, <2>1, SMTT(60)
    <3>3. i # 1 => chain'[i - 1] = chain[i - 1]
      BY <1>2, <3>2
    <3>4. chain'[i] = chain[i]
      BY <1>2, <2>1
    <3> QED
      BY <3>1, <3>3, <3>4
  <2>2. CASE i \notin 1..n
    <3>1. i = n + 1
      BY <1>1, <2>2, SMTT(60)
    <3>2. CASE i = 1
      <4>1. chain = <<>>
        BY <1>1, <3>1, <3>2, SMTT(60) DEF TypeOK
      <4> QED
        BY <1>1, <1>2, <1>3, <3>1, <3>2, <4>1
    <3>3. CASE i # 1
      <4>1. n \in 1..n /\ i - 1 = n /\ chain # <<>>
        BY <1>1, <3>1, <3>3, SMTT(60) DEF TypeOK
      <4>2. chain'[i - 1] = LastBlock
        BY <1>1, <1>2, <4>1
      <4> QED
        BY <1>2, <1>3, <3>1, <3>3, <4>2
    <3> QED
      BY <3>2, <3>3
  <2> QED
    BY <2>1, <2>2
<1>6. ChainShape'
  BY <1>2, <1>5 DEF ChainShape
<1>7. Range(chain)' = Range(chain) \cup {b}
  <2>1. Range(chain)' = {chain'[i] : i \in 1..n + 1}
    BY <1>2 DEF Range
  <2>2. \A i \in 1..n + 1 : i \in 1..n \/ i = n + 1
    BY <1>1, SMTT(60)
  <2>3. n + 1 \in 1..n + 1 /\ \A i \in 1..n : i \in 1..n + 1
    BY <1>1, SMTT(60)
  <2>4. ASSUME NEW c \in Range(chain) PROVE c \in Range(chain)'
    BY <1>1, <1>2, <2>1, <2>3
  <2>5. ASSUME NEW c \in Range(chain)', c # b PROVE c \in Range(chain)
    <3>1. PICK i \in 1..n + 1 : c = chain'[i]
      BY <2>1, <2>5
    <3>2. i \in 1..n
      BY <1>2, <2>2, <2>5, <3>1
    <3> QED
      BY <1>1, <1>2, <3>1, <3>2
  <2>6. b \in Range(chain)'
    BY <1>2, <2>1, <2>3
  <2> QED
    BY <2>4, <2>5, <2>6
<1> QED
  BY <1>2, <1>3, <1>4, <1>6, <1>7

\* The chain after a rollback to one of its blocks.
LEMMA RolledChain ==
  ASSUME TypeOK, ChainShape, NEW b \in Range(chain), chain' = SubSeq(chain, 1, height[b])
  PROVE  /\ chain' \in Seq(Mined) /\ chain' # <<>> /\ ChainShape' /\ LastBlock' = b
         /\ Range(chain)' \subseteq Range(chain)
<1> DEFINE h == height[b]
<1>1. /\ Len(chain) \in Nat /\ DOMAIN chain = 1..Len(chain)
      /\ b \in Mined /\ h \in 1..Len(chain) /\ chain[h] = b
      /\ Range(chain) = {chain[i] : i \in 1..Len(chain)}
  BY ChainFacts
<1> HIDE DEF h
<1>2. /\ chain' \in Seq(Mined) /\ chain' # <<>> /\ Len(chain') = h /\ DOMAIN chain' = 1..h
      /\ \A i \in 1..h : chain'[i] = chain[i]
  <2>1. chain' = SubSeq(chain, 1, h)
    BY DEF h
  <2>2. chain \in Seq(Mined)
    BY DEF TypeOK
  <2>3. h \in 0..Len(chain)
    BY <1>1, SMTT(60)
  <2>4. /\ chain' \in Seq(Mined) /\ Len(chain') = h /\ DOMAIN chain' = 1..h
        /\ \A i \in 1..h : chain'[i] = chain[i]
    <3>1. /\ SubSeq(chain, 1, h) \in Seq(Mined) /\ Len(SubSeq(chain, 1, h)) = h
          /\ DOMAIN SubSeq(chain, 1, h) = 1..h /\ \A i \in 1..h : SubSeq(chain, 1, h)[i] = chain[i]
      BY <2>2, <2>3, PrefixFacts
    <3> QED
      BY <2>1, <3>1
  <2>5. chain' # <<>>
    BY <1>1, <2>4, SMTT(60)
  <2> QED
    BY <2>4, <2>5
<1>3. h \in 1..h /\ \A i \in 1..h : i \in 1..Len(chain) /\ (i # 1 => i - 1 \in 1..h)
  BY <1>1, SMTT(60)
<1>4. LastBlock' = b
  BY <1>1, <1>2, <1>3 DEF LastBlock, Last
<1>5. ChainShape'
  <2>1. ASSUME NEW i \in 1..h
        PROVE  height[chain'[i]] = i /\ parent[chain'[i]] = IF i = 1 THEN Genesis ELSE chain'[i - 1]
    <3>1. /\ height[chain[i]] = i
          /\ parent[chain[i]] = IF i = 1 THEN Genesis ELSE chain[i - 1]
      BY <1>1, <1>3 DEF ChainShape
    <3>2. i # 1 => chain'[i - 1] = chain[i - 1]
      BY <1>2, <1>3
    <3>3. chain'[i] = chain[i]
      BY <1>2
    <3> QED
      BY <3>1, <3>2, <3>3
  <2> QED
    BY <1>2, <2>1 DEF ChainShape
<1>6. Range(chain)' \subseteq Range(chain)
  <2>1. Range(chain)' = {chain'[i] : i \in 1..h}
    BY <1>2 DEF Range
  <2> QED
    BY <1>1, <1>2, <1>3, <2>1
<1> QED
  BY <1>2, <1>4, <1>5, <1>6

\* Pruning cuts off a first part of the log, of entries below the given height.
LEMMA PruneFacts ==
  ASSUME NEW log \in Seq(LogEntry), NEW before \in Nat
  PROVE  \E k \in 0..Len(log) :
           /\ Prune(log, before) = SubSeq(log, k + 1, Len(log))
           /\ \A i \in 1..k : height[log[i].b] < before
           /\ k # Len(log) => height[log[k + 1].b] >= before
<1> DEFINE kept == {i \in DOMAIN log : height[log[i].b] >= before}
           n == Len(log)
<1>1. n \in Nat /\ DOMAIN log = 1..n
  BY SMTT(60)
<1>2. \A i \in 1..n : log[i] \in LogEntry
  BY <1>1, SMTT(60)
<1>3. \A i \in 1..n : height[log[i].b] \in Nat
  <2>1. \A e \in LogEntry : e.b \in Mined
    BY SMTT(60) DEF LogEntry
  <2> QED
    BY <1>2, <2>1, HeightFacts DEF Mined
<1>4. \A i \in 1..n : i \in kept <=> ~ (height[log[i].b] < before)
  <2>1. \A x \in Nat : x >= before <=> ~ (x < before)
    BY SMTT(60)
  <2> QED
    BY <1>1, <1>3, <2>1
<1>5. CASE kept = {}
  <2>1. Prune(log, before) = <<>>
    BY <1>5 DEF Prune
  <2>2. n \in 0..n /\ SubSeq(log, n + 1, n) = <<>>
    BY <1>1, SMTT(60)
  <2>3. \A i \in 1..n : height[log[i].b] < before
    BY <1>4, <1>5
  <2> QED
    BY <2>1, <2>2, <2>3
<1>6. CASE kept # {}
  <2> DEFINE m == CHOOSE i \in kept : \A j \in kept : i <= j
  <2>1. kept \in SUBSET Nat
    BY <1>1, SMTT(60)
  <2>2. \E i \in kept : \A j \in kept : i <= j
    <3> HIDE DEF kept
    <3> QED
      BY <1>6, <2>1, LeastNat
  <2>3. m \in kept /\ \A j \in kept : m <= j
    BY <2>2
  <2>4. Prune(log, before) = SubSeq(log, m, n)
    BY <1>6 DEF Prune
  <2> HIDE DEF m
  <2>5. m - 1 \in 0..n /\ (m - 1) + 1 = m /\ m \in 1..n
    BY <1>1, <2>3, SMTT(60)
  <2>6. \A i \in 1..m - 1 : i \in 1..n /\ ~ (m <= i)
    BY <1>1, <2>5, SMTT(60)
  <2>7. \A i \in 1..m - 1 : height[log[i].b] < before
    BY <1>4, <2>3, <2>6
  <2>8. height[log[m].b] >= before
    BY <2>3
  <2> QED
    BY <2>4, <2>5, <2>7, <2>8
<1> QED
  BY <1>5, <1>6

-----------------------------------------------------------------------------
(* The pull stage. *)

\* The headers of a page lead from the intersection towards the tip of the node.
HeadersShape(headers) ==
  /\ headers \in Seq(Mined) /\ headers # <<>>
  /\ Len(headers) \in Nat /\ Len(headers) \in 1..Len(headers) /\ DOMAIN headers = 1..Len(headers)
  /\ \A i \in 1..Len(headers) :
       /\ headers[i] \in Mined /\ headers[i] \in Blocks
       /\ height[headers[i]] = height[Intersect] + i /\ height[headers[i]] <= height[node]
       /\ parent[headers[i]] = IF i = 1 THEN Intersect ELSE headers[i - 1]

\* The node answers a locator with headers of this shape.
LEMMA HeadersFacts ==
  ASSUME TypeOK, CursorShape, Path(Intersect, node) # <<>>,
         NEW headers \in {Path(Intersect, node), Take(Path(Intersect, node), PageSize)}
  PROVE  HeadersShape(headers)
<1> DEFINE path == Path(Intersect, node)
           n == height[node] - height[Intersect]
           m == IF PageSize < Len(path) THEN PageSize ELSE Len(path)
<1>1. node \in Blocks /\ Intersect \in ancestors[node] /\ Intersect \in Blocks
  BY IntersectFacts DEF TypeOK
<1>2. height[node] \in Nat /\ height[Intersect] \in Nat
  BY <1>1, HeightFacts
<1>3. /\ n \in Nat /\ path \in Seq(Mined) /\ Len(path) = n
      /\ \A i \in 1..n :
           /\ path[i] \in Mined /\ height[path[i]] = height[Intersect] + i
           /\ parent[path[i]] = IF i = 1 THEN Intersect ELSE path[i - 1]
  BY <1>1, PathFacts
<1>4. \A i \in 1..n : height[Intersect] + i <= height[node]
  BY <1>2, SMTT(60)
<1> HIDE DEF path, n
<1>5. n \in 0..n /\ n # 0
  BY <1>3, SMTT(60) DEF path
<1>6. m \in 0..n /\ m # 0
  BY <1>3, <1>5, SyncAssumption, SMTT(60)
<1>7. PICK k \in 0..n : k # 0 /\ headers = SubSeq(path, 1, k)
  <2>1. CASE headers = path
    <3>1. path = SubSeq(path, 1, n)
      BY <1>3, SMTT(60)
    <3> QED
      BY <1>5, <2>1, <3>1
  <2>2. CASE headers = Take(path, PageSize)
    <3>1. headers = SubSeq(path, 1, m)
      BY <2>2 DEF Take
    <3> HIDE DEF m
    <3> QED
      BY <1>6, <3>1
  <2> QED
    BY <2>1, <2>2 DEF path
<1>8. /\ SubSeq(path, 1, k) \in Seq(Mined) /\ Len(SubSeq(path, 1, k)) = k
      /\ DOMAIN SubSeq(path, 1, k) = 1..k /\ \A i \in 1..k : SubSeq(path, 1, k)[i] = path[i]
  BY <1>3, PrefixFacts
<1>9. /\ headers \in Seq(Mined) /\ Len(headers) = k
      /\ DOMAIN headers = 1..k /\ \A i \in 1..k : headers[i] = path[i]
  BY <1>7, <1>8
<1>10. k \in Nat /\ k \in 1..k /\ \A i \in 1..k : i \in 1..n /\ (i # 1 => i - 1 \in 1..k)
  BY <1>3, <1>7, SMTT(60)
<1>11. headers # <<>>
  BY <1>7, <1>9, EmptyLen
<1>12. ASSUME NEW i \in 1..k
       PROVE  /\ headers[i] \in Mined /\ headers[i] \in Blocks
              /\ height[headers[i]] = height[Intersect] + i /\ height[headers[i]] <= height[node]
              /\ parent[headers[i]] = IF i = 1 THEN Intersect ELSE headers[i - 1]
  <2>1. headers[i] \in Mined /\ height[headers[i]] = height[Intersect] + i
    BY <1>3, <1>9, <1>10
  <2>2. height[headers[i]] <= height[node]
    BY <1>4, <1>10, <2>1
  <2>3. i # 1 => headers[i - 1] = path[i - 1]
    BY <1>9, <1>10
  <2>4. parent[headers[i]] = IF i = 1 THEN Intersect ELSE path[i - 1]
    BY <1>3, <1>9, <1>10
  <2> QED
    BY <2>1, <2>2, <2>3, <2>4 DEF Mined
<1> QED
  BY <1>9, <1>10, <1>11, <1>12 DEF HeadersShape

\* The plan for a page: up to two rollbacks, the last to the intersection, then the
\* blocks.  The first is to our own tip when the worker just started.
PlanShape(headers, m) ==
  /\ m \in 0..2 /\ Len(Plan(headers)) = m + Len(headers)
  /\ Plan(headers) \in Seq(Event)
  /\ DOMAIN Plan(headers) = 1..m + Len(headers)
  /\ \A i \in 1..m : Plan(headers)[i].k = "back" /\ Plan(headers)[i].tip = pull.tip
  /\ \A i \in 1..Len(headers) :
       /\ Plan(headers)[m + i].k = "forward" /\ Plan(headers)[m + i].b = headers[i]
       /\ Plan(headers)[m + i].tip = Forward(pull.tip, headers[i])
  /\ IF m = 0 THEN Intersect = CursorTip ELSE Plan(headers)[m].b = Intersect
  /\ m # 0 => CursorTip # Genesis /\ (pull.init \/ Plan(headers)[1].b = CursorTip)

\* A plan starts with at most two rollbacks.
LEMMA PlanFacts ==
  ASSUME TypeOK, CursorShape, NEW headers, HeadersShape(headers)
  PROVE  \E m \in 0..2 : PlanShape(headers, m)
<1> DEFINE own == RollBackTo(CursorTip, pull.tip)
           back == RollBackTo(Intersect, pull.tip)
           F == [i \in DOMAIN headers |->
                  [k |-> "forward", b |-> headers[i], tip |-> Forward(pull.tip, headers[i])]]
           n == Len(headers)
<1>1. /\ Intersect \in Blocks /\ CursorTip \in Blocks /\ pull.tip \in Nat /\ pull.init \in BOOLEAN
      /\ height[Intersect] = height[CursorTip] => Intersect = CursorTip
      /\ height[Intersect] <= height[CursorTip]
  BY IntersectFacts DEF TypeOK
<1>2. n \in Nat /\ DOMAIN headers = 1..n /\ \A i \in 1..n : headers[i] \in Mined /\ height[headers[i]] \in Nat
  BY HeightFacts DEF HeadersShape, Mined
<1>3. /\ own \in Event /\ own.k = "back" /\ own.tip = pull.tip /\ own.b = CursorTip
      /\ back \in Event /\ back.k = "back" /\ back.tip = pull.tip /\ back.b = Intersect
  BY <1>1 DEF RollBackTo, Event
<1>4. \A i \in 1..n : /\ F[i] \in Event /\ F[i].k = "forward" /\ F[i].b = headers[i]
                      /\ F[i].tip = Forward(pull.tip, headers[i])
  <2>1. \A i \in 1..n : Forward(pull.tip, headers[i]) \in Nat
    BY <1>1, <1>2 DEF Forward
  <2> QED
    BY <1>2, <2>1 DEF Event
<1>5. F \in Seq(Event) /\ Len(F) = n
  <2>1. F \in [1..n -> Event]
    BY <1>2, <1>4
  <2> HIDE DEF F, n
  <2> QED
    BY <1>2, <2>1, SMTT(60)
<1>6. CursorTip = Genesis => Intersect = CursorTip
  <2>1. CursorTip = Genesis => height[Intersect] = height[CursorTip]
    <3>1. height[Intersect] \in Nat /\ height[Genesis] = 0
      BY <1>1, HeightFacts
    <3> QED
      BY <1>1, <3>1, SMTT(60)
  <2> QED
    BY <1>1, <2>1
<1>7. Plan(headers) = (IF pull.init \/ CursorTip = Genesis THEN <<>> ELSE <<own>>)
                      \o (IF height[Intersect] = height[CursorTip] THEN <<>> ELSE <<back>>) \o F
  BY DEF Plan
<1> HIDE DEF own, back, F
<1>8. CASE (pull.init \/ CursorTip = Genesis) /\ height[Intersect] = height[CursorTip]
  <2>1. Plan(headers) = <<>> \o <<>> \o F
    BY <1>7, <1>8
  <2>2. Plan(headers) = F
    BY <1>5, <2>1, SMTT(60)
  <2>3. 0 \in 0..2 /\ 0 + n = n /\ \A i \in 1..n : 0 + i = i
    BY <1>2, SMTT(60)
  <2>4. \A i \in 1..0 : FALSE
    BY SMTT(60)
  <2>5. DOMAIN F = 1..n
    BY <1>2 DEF F
  <2>6. PlanShape(headers, 0)
    BY <1>1, <1>4, <1>5, <1>8, <2>2, <2>3, <2>4, <2>5 DEF PlanShape
  <2> QED
    BY <2>3, <2>6
<1>9. ASSUME NEW e \in Event, e.k = "back", e.tip = pull.tip, e.b = Intersect,
             Plan(headers) = <<e>> \o F, CursorTip # Genesis, pull.init \/ e.b = CursorTip
      PROVE  PlanShape(headers, 1)
  <2>1. /\ <<e>> \o F \in Seq(Event) /\ Len(<<e>> \o F) = 1 + n /\ DOMAIN (<<e>> \o F) = 1..1 + n
        /\ (<<e>> \o F)[1] = e /\ \A i \in 1..n : (<<e>> \o F)[1 + i] = F[i]
    BY <1>2, <1>5, SMTT(60)
  <2>2. 1 \in 0..2 /\ 1 # 0 /\ \A i \in 1..1 : i = 1
    BY SMTT(60)
  <2> QED
    BY <1>4, <1>9, <2>1, <2>2 DEF PlanShape
<1>10. 1 \in 0..2 /\ 2 \in 0..2 /\ 2 # 0 /\ \A i \in 1..2 : i = 1 \/ i = 2
  BY SMTT(60)
<1>11. CASE (pull.init \/ CursorTip = Genesis) /\ height[Intersect] # height[CursorTip]
  <2>1. Plan(headers) = <<>> \o <<back>> \o F
    BY <1>7, <1>11
  <2>2. <<>> \o <<back>> = <<back>>
    BY SMTT(60)
  <2>3. CursorTip # Genesis
    BY <1>6, <1>11
  <2> QED
    BY <1>3, <1>9, <1>10, <1>11, <2>1, <2>2, <2>3
<1>12. CASE ~ (pull.init \/ CursorTip = Genesis) /\ height[Intersect] = height[CursorTip]
  <2>1. Plan(headers) = <<own>> \o <<>> \o F
    BY <1>7, <1>12
  <2>2. <<own>> \o <<>> = <<own>>
    BY SMTT(60)
  <2>3. own.b = Intersect /\ own.b = CursorTip /\ CursorTip # Genesis
    BY <1>1, <1>3, <1>12
  <2> QED
    BY <1>3, <1>9, <1>10, <2>1, <2>2, <2>3
<1>13. CASE ~ (pull.init \/ CursorTip = Genesis) /\ height[Intersect] # height[CursorTip]
  <2> DEFINE P == <<own>> \o <<back>> \o F
  <2>1. Plan(headers) = P
    BY <1>7, <1>13
  <2>2. /\ P \in Seq(Event) /\ Len(P) = 2 + n /\ DOMAIN P = 1..2 + n
        /\ P[1] = own /\ P[2] = back /\ \A i \in 1..n : P[2 + i] = F[i]
    BY <1>2, <1>3, <1>5, SMTT(60)
  <2> HIDE DEF P
  <2>3. \A i \in 1..2 : P[i].k = "back" /\ P[i].tip = pull.tip
    BY <1>3, <1>10, <2>2
  <2>4. \A i \in 1..n : P[2 + i].k = "forward" /\ P[2 + i].b = headers[i]
                        /\ P[2 + i].tip = Forward(pull.tip, headers[i])
    BY <1>4, <2>2
  <2>5. P[2].b = Intersect /\ P[1].b = CursorTip
    BY <1>3, <2>2
  <2>6. PlanShape(headers, 2)
    BY <1>10, <1>13, <2>1, <2>2, <2>3, <2>4, <2>5 DEF PlanShape
  <2> QED
    BY <1>10, <2>6
<1> QED
  BY <1>8, <1>11, <1>12, <1>13

\* The tips in a plan are between the tip the worker knew and the one it knows then.
LEMMA PlanTips ==
  ASSUME TypeOK, CursorShape, Tips, NEW headers, HeadersShape(headers)
  PROVE  LET P == Plan(headers)
             t == Forward(pull.tip, Last(headers))
         IN  /\ t \in Nat /\ pull.tip <= t /\ Listed(t)
             /\ \A i \in DOMAIN P : pull.tip <= P[i].tip /\ P[i].tip <= t /\ Listed(P[i].tip)
             /\ \A i, j \in DOMAIN P : i <= j => P[i].tip <= P[j].tip
             /\ \A i \in DOMAIN P : P[i].k = "forward" => height[P[i].b] <= height[node]
<1> DEFINE P == Plan(headers)
           n == Len(headers)
           Up(i) == Forward(pull.tip, headers[i])
           t == Forward(pull.tip, Last(headers))
<1>1. PICK m \in 0..2 : PlanShape(headers, m)
  BY PlanFacts
<1>2. /\ pull.tip \in Nat /\ height[node] \in Nat /\ Listed(pull.tip)
      /\ height[Intersect] \in Nat
  BY IntersectFacts, HeightFacts DEF TypeOK, Tips
<1>3. /\ n \in Nat /\ n \in 1..n
      /\ \A i \in 1..n : /\ height[headers[i]] \in Nat /\ height[headers[i]] <= height[node]
                         /\ height[headers[i]] = height[Intersect] + i
  BY HeightFacts DEF HeadersShape
<1>4. \A i \in 1..n : Up(i) \in Nat /\ pull.tip <= Up(i) /\ Listed(Up(i))
  <2> SUFFICES ASSUME NEW i \in 1..n PROVE Up(i) \in Nat /\ pull.tip <= Up(i) /\ Listed(Up(i))
    OBVIOUS
  <2>1. Up(i) \in Nat /\ pull.tip <= Up(i) /\ (Up(i) = pull.tip \/ Up(i) <= height[node])
    BY <1>2, <1>3, SMTT(60) DEF Forward
  <2> HIDE DEF Up
  <2>2. Up(i) <= height[node] => Listed(Up(i))
    BY DEF Listed
  <2> QED
    BY <1>2, <2>1, <2>2
<1>5. \A i, j \in 1..n : i <= j => Up(i) <= Up(j)
  BY <1>2, <1>3, SMTT(60) DEF Forward
<1>6. t = Up(n)
  BY DEF Last
<1>7. \A i \in 1..n : Up(i) <= Up(n)
  <2>1. \A i \in 1..n : i <= n
    BY <1>3, SMTT(60)
  <2> QED
    BY <1>3, <1>5, <2>1
<1>8. DOMAIN P = 1..m + n
  BY <1>1 DEF PlanShape
<1>9. \A i \in 1..m + n : i \in 1..m \/ (i - m \in 1..n /\ m + (i - m) = i)
  BY <1>1, <1>3, SMTT(60)
<1>10. \A i \in 1..m : P[i].tip = pull.tip /\ P[i].k # "forward"
  BY <1>1 DEF PlanShape
<1>11. \A i \in 1..n : P[m + i].tip = Up(i) /\ P[m + i].b = headers[i]
  BY <1>1 DEF PlanShape
<1> HIDE DEF P, n, t, Up
<1>12. \A i \in 1..m + n : i \notin 1..m => P[i].tip = Up(i - m) /\ P[i].b = headers[i - m]
  BY <1>9, <1>11
<1>13. pull.tip <= pull.tip /\ pull.tip <= t
  BY <1>2, <1>3, <1>4, <1>6, SMTT(60)
<1>14. \A i \in 1..m + n : pull.tip <= P[i].tip /\ P[i].tip <= t /\ Listed(P[i].tip)
  <2> SUFFICES ASSUME NEW i \in 1..m + n
               PROVE  pull.tip <= P[i].tip /\ P[i].tip <= t /\ Listed(P[i].tip)
    OBVIOUS
  <2>1. CASE i \in 1..m
    BY <1>2, <1>10, <1>13, <2>1
  <2>2. CASE i \notin 1..m
    <3>1. i - m \in 1..n /\ P[i].tip = Up(i - m)
      BY <1>9, <1>12, <2>2
    <3> QED
      BY <1>4, <1>6, <1>7, <3>1
  <2> QED
    BY <2>1, <2>2
<1>15. ASSUME NEW i \in 1..m + n, NEW j \in 1..m + n, i <= j PROVE P[i].tip <= P[j].tip
  <2>1. CASE i \in 1..m
    BY <1>10, <1>14, <2>1
  <2>2. CASE i \notin 1..m
    <3>1. j \notin 1..m /\ i - m <= j - m
      BY <1>1, <1>3, <1>15, <2>2, SMTT(60)
    <3>2. i - m \in 1..n /\ j - m \in 1..n /\ P[i].tip = Up(i - m) /\ P[j].tip = Up(j - m)
      BY <1>9, <1>12, <2>2, <3>1
    <3> QED
      BY <1>5, <3>1, <3>2
  <2> QED
    BY <2>1, <2>2
<1>16. ASSUME NEW i \in 1..m + n, P[i].k = "forward" PROVE height[P[i].b] <= height[node]
  <2>1. i \notin 1..m
    BY <1>10, <1>16
  <2>2. i - m \in 1..n /\ P[i].b = headers[i - m]
    BY <1>9, <1>12, <2>1
  <2> QED
    BY <1>3, <2>2
<1>17. t \in Nat /\ Listed(t)
  BY <1>3, <1>4, <1>6
<1> QED
  BY <1>8, <1>13, <1>14, <1>15, <1>16, <1>17 DEF P, t

\* A plan continues at the first entry of the locator: every block in it is on the one
\* before it, it ends with the last header, and rolls back first to our own tip if the
\* worker just started.
LEMMA PlanLinks ==
  ASSUME TypeOK, CursorShape, NEW headers, HeadersShape(headers)
  PROVE  LET P == Plan(headers)
         IN  /\ P \in Seq(Event) /\ P # <<>> /\ Len(P) \in Nat /\ Len(P) \in 1..Len(P)
             /\ DOMAIN P = 1..Len(P)
             /\ P[Len(P)].k = "forward" /\ P[Len(P)].b = Last(headers)
             /\ \A i \in 1..Len(P) :
                  P[i].k = "forward" => parent[P[i].b] = IF i = 1 THEN CursorTip ELSE P[i - 1].b
             /\ P[1].k = "back" => CursorTip # Genesis /\ (pull.init \/ P[1].b = CursorTip)
             /\ P[1].k = "back" \/ P[1].k = "forward"
<1> DEFINE P == Plan(headers)
           n == Len(headers)
<1>1. PICK m \in 0..2 : PlanShape(headers, m)
  BY PlanFacts
<1>2. /\ n \in Nat /\ n \in 1..n
      /\ \A i \in 1..n : parent[headers[i]] = IF i = 1 THEN Intersect ELSE headers[i - 1]
  BY DEF HeadersShape
<1>3. /\ Len(P) = m + n /\ P \in Seq(Event) /\ DOMAIN P = 1..m + n
      /\ \A i \in 1..m : P[i].k = "back"
      /\ \A i \in 1..n : P[m + i].k = "forward" /\ P[m + i].b = headers[i]
      /\ IF m = 0 THEN Intersect = CursorTip ELSE P[m].b = Intersect
      /\ m # 0 => CursorTip # Genesis /\ (pull.init \/ P[1].b = CursorTip)
  BY <1>1 DEF PlanShape
<1> HIDE DEF P, n
<1>4. /\ m + n \in Nat /\ m + n \in 1..m + n /\ m + n # 0
      /\ \A i \in 1..m + n : i \in 1..m \/ (i - m \in 1..n /\ m + (i - m) = i)
      /\ \A i \in 1..n : m + i = 1 => m = 0 /\ i = 1
      /\ \A i \in 1..n : i # 1 => i - 1 \in 1..n /\ (m + i) - 1 = m + (i - 1)
      /\ (m + 1) - 1 = m /\ (m # 0 => 1 \in 1..m) /\ 1 \in 1..n /\ 0 + 1 = 1
  BY <1>1, <1>2, SMTT(60)
<1>5. P # <<>>
  BY <1>3, <1>4, EmptyLen
<1>6. P[Len(P)].k = "forward" /\ P[Len(P)].b = Last(headers)
  <2>1. Last(headers) = headers[n]
    BY DEF Last, n
  <2> QED
    <3>1. P[m + n].k = "forward" /\ P[m + n].b = headers[n]
      BY <1>2, <1>3
    <3> QED
      BY <1>3, <2>1, <3>1
<1>7. ASSUME NEW i \in 1..m + n, P[i].k = "forward"
      PROVE  parent[P[i].b] = IF i = 1 THEN CursorTip ELSE P[i - 1].b
  <2>1. i \notin 1..m
    BY <1>3, <1>7
  <2>2. PICK j \in 1..n : i = m + j
    BY <1>4, <2>1
  <2>3. P[i].b = headers[j]
    BY <1>3, <2>2
  <2>4. CASE j = 1
    <3>1. parent[P[i].b] = Intersect
      BY <1>2, <2>3, <2>4
    <3>2. CASE m = 0
      BY <1>3, <1>4, <2>2, <2>4, <3>1, <3>2
    <3>3. CASE m # 0
      <4>1. i # 1 /\ P[i - 1].b = Intersect
        BY <1>3, <1>4, <2>2, <2>4, <3>3
      <4> QED
        BY <3>1, <4>1
    <3> QED
      BY <3>2, <3>3
  <2>5. CASE j # 1
    <3>1. i # 1 /\ i - 1 = m + (j - 1) /\ j - 1 \in 1..n
      BY <1>4, <2>2, <2>5
    <3>2. P[i - 1].b = headers[j - 1]
      BY <1>3, <3>1
    <3> QED
      BY <1>2, <2>3, <2>5, <3>1, <3>2
  <2> QED
    BY <2>4, <2>5
<1>8. CASE m = 0
  <2>1. P[0 + 1].k = "forward"
    BY <1>3, <1>4, <1>8
  <2>2. P[1].k = "forward"
    BY <1>4, <2>1
  <2> QED
    BY <1>3, <1>4, <1>5, <1>6, <1>7, <2>2 DEF P
<1>9. CASE m # 0
  <2>1. P[1].k = "back"
    BY <1>3, <1>4, <1>9
  <2> QED
    BY <1>3, <1>4, <1>5, <1>6, <1>7, <1>9, <2>1 DEF P
<1> QED
  BY <1>8, <1>9

-----------------------------------------------------------------------------
(* The log reaches back Confs blocks.  What the proof needs of the state besides: the *)
(* chain of the store is a chain, a locator is one, the queue of an empty store       *)
(* starts with a block on the genesis block, and no tip is above all of the node's.   *)

\* Scheduling headers of the node keeps the invariant.
LEMMA WindowSchedule ==
  ASSUME WindowInv, Schedule
  PROVE  WindowInv'
<1> USE DEF WindowInv
<1>1. PICK headers \in {Path(Intersect, node), Take(Path(Intersect, node), PageSize)} :
         /\ queue' = queue \o Plan(headers)
         /\ pull' = [cursor |-> NextCursor(headers), tip |-> Forward(pull.tip, Last(headers)), init |-> TRUE]
  BY DEF Schedule
<1>2. /\ node' = node /\ mutable' = mutable /\ chain' = chain /\ wal' = wal /\ next' = next
      /\ reader' = reader /\ crashes' = crashes /\ ends' = ends
  BY DEF Schedule, store, counters
<1>3. HeadersShape(headers)
  <2>1. Path(Intersect, node) # <<>>
    BY DEF Schedule
  <2> QED
    BY <2>1, HeadersFacts
<1> DEFINE P == Plan(headers)
           t == Forward(pull.tip, Last(headers))
<1>4. /\ P \in Seq(Event) /\ P # <<>> /\ Len(P) \in Nat /\ Len(P) \in 1..Len(P) /\ DOMAIN P = 1..Len(P)
      /\ \A i \in 1..Len(P) :
           P[i].k = "forward" => parent[P[i].b] = IF i = 1 THEN CursorTip ELSE P[i - 1].b
      /\ P[1].k = "back" => CursorTip # Genesis
      /\ P[1].k = "back" \/ P[1].k = "forward"
  BY <1>3, PlanLinks
<1>5. /\ t \in Nat /\ Listed(t)
      /\ \A i \in DOMAIN P : P[i].tip <= t /\ Listed(P[i].tip)
      /\ \A i \in DOMAIN P : P[i].k = "forward" => height[P[i].b] <= height[node]
  BY <1>3, PlanTips
<1>6. Locator(NextCursor(headers), Last(headers))
  <2>1. height[Intersect] \in Nat
    BY IntersectFacts, HeightFacts
  <2> QED
    BY <1>3, <2>1, NextCursorFacts DEF HeadersShape
<1>7. pull'.cursor = NextCursor(headers) /\ pull'.tip = t /\ pull'.init = TRUE
  BY <1>1
<1> HIDE DEF P, t
<1>8. queue' \in Seq(Event) /\ Joined(queue, P, queue')
  <2>1. queue \in Seq(Event) /\ P \in Seq(Event) /\ queue' = queue \o P
    BY <1>1, <1>4 DEF TypeOK, P
  <2> QED
    BY <2>1, ConcatFacts
<1>9. /\ queue' = queue \o P
      /\ \A i \in DOMAIN queue' : (i \in DOMAIN queue /\ queue'[i] = queue[i]) \/ \E j \in DOMAIN P : queue'[i] = P[j]
  BY <1>1, <1>8 DEF P, Joined
<1>10. TypeOK'
  <2>1. pull' \in [cursor : SUBSET Blocks, tip : Nat, init : BOOLEAN]
    BY <1>1, <1>5, <1>6 DEF Locator, t
  <2> QED
    BY <1>2, <1>8, <1>9, <2>1 DEF TypeOK
<1>11. CursorShape'
  BY <1>6, <1>7, LocatorShape
<1>12. EmptyStore'
  <2> SUFFICES ASSUME chain = <<>>
               PROVE  queue' # <<>> /\ Head(queue').k = "forward" /\ parent[Head(queue').b] = Genesis
    BY <1>2 DEF EmptyStore
  <2>1. CASE queue # <<>>
    <3>1. queue' # <<>> /\ Head(queue') = Head(queue)
      BY <1>4, <1>9, <2>1, SMTT(60) DEF TypeOK
    <3> QED
      BY <2>1, <3>1 DEF EmptyStore
  <2>2. CASE queue = <<>>
    <3>1. queue' # <<>> /\ Head(queue') = P[1]
      BY <1>4, <1>9, <2>2, SMTT(60)
    <3>2. CursorTip = Genesis
      BY <2>2 DEF EmptyStore
    <3>3. 1 \in 1..Len(P)
      BY <1>4, SMTT(60)
    <3> QED
      BY <1>4, <3>1, <3>2, <3>3
  <2> QED
    BY <2>1, <2>2
<1>13. Tips'
  <2>1. ASSUME NEW i \in DOMAIN queue'
        PROVE  Listed(queue'[i].tip) /\ (queue'[i].k = "forward" => height[queue'[i].b] <= height[node])
    BY <1>5, <1>9, <2>1 DEF Tips
  <2> QED
    BY <1>2, <1>5, <1>7, <2>1 DEF Tips, Listed
<1>14. ChainShape' /\ WindowKept'
  BY <1>2 DEF ChainShape, WindowKept, InWindow, Found
<1> QED
  BY <1>10, <1>11, <1>12, <1>13, <1>14

\* The tip that the node reports is the active one or a stray one above it.
LEMMA ChainTipsFacts ==
  ASSUME node \in Blocks
  PROVE  \A t \in ChainTips :
           /\ t \in Nat /\ height[node] <= t /\ t <= t
           /\ t \in Strays \cup {height[node]} /\ (Strays = {} => t = height[node])
<1> SUFFICES ASSUME NEW t \in ChainTips
             PROVE  /\ t \in Nat /\ height[node] <= t /\ t <= t
                    /\ t \in Strays \cup {height[node]} /\ (Strays = {} => t = height[node])
  OBVIOUS
<1>1. height[node] \in Nat /\ Strays \subseteq Nat
  BY HeightFacts, SyncAssumption
<1>2. t = height[node] \/ (t \in Strays /\ t > height[node])
  BY DEF ChainTips
<1>3. t \in Nat
  BY <1>1, <1>2
<1>4. \A x, y \in Nat : (x = y \/ x > y) => y <= x /\ x <= x
  BY SMTT(60)
<1> QED
  BY <1>1, <1>2, <1>3, <1>4

\* The worker that was started again has the locator of the store.
LEMMA BootstrapFacts ==
  ASSUME TypeOK, ChainShape, pull' \in Bootstrap
  PROVE  /\ pull' \in [cursor : SUBSET Blocks, tip : Nat, init : BOOLEAN]
         /\ CursorShape' /\ CursorTip' = LastBlock
         /\ Listed(pull'.tip) /\ height[node] <= pull'.tip /\ pull'.init = FALSE
         /\ Strays = {} => pull'.tip = height[node]
<1>1. pull'.cursor = IntersectOptions /\ pull'.tip \in ChainTips /\ pull'.init = FALSE
  BY DEF Bootstrap
<1>2. Locator(IntersectOptions, LastBlock)
  BY OptionsFacts
<1>3. /\ pull'.tip \in Nat /\ height[node] <= pull'.tip /\ pull'.tip <= pull'.tip
      /\ pull'.tip \in Strays \cup {height[node]} /\ (Strays = {} => pull'.tip = height[node])
  BY <1>1, ChainTipsFacts DEF TypeOK
<1>4. pull' \in [cursor : SUBSET Blocks, tip : Nat, init : BOOLEAN]
  <2>1. pull' = [cursor |-> pull'.cursor, tip |-> pull'.tip, init |-> pull'.init]
    BY DEF Bootstrap
  <2>2. IntersectOptions \in SUBSET Blocks
    BY <1>2 DEF Locator
  <2> QED
    BY <1>1, <1>3, <2>1, <2>2
<1>5. CursorShape' /\ CursorTip' = LastBlock
  <2>1. Locator(pull'.cursor, LastBlock)
    BY <1>1, <1>2
  <2> QED
    BY <2>1, LocatorShape
<1>6. Listed(pull'.tip)
  BY <1>3 DEF Listed
<1> QED
  BY <1>1, <1>3, <1>4, <1>5, <1>6

\* The node mining or reorganising keeps the invariant.
LEMMA WindowNode ==
  ASSUME WindowInv, NodeAdvances, Confs \in Nat
  PROVE  WindowInv'
<1> USE DEF WindowInv
<1>1. /\ pull' = pull /\ queue' = queue /\ mutable' = mutable /\ chain' = chain /\ wal' = wal /\ next' = next
      /\ reader' = reader /\ crashes' = crashes /\ ends' = ends /\ node' \in Blocks /\ height[node'] > height[node]
  BY DEF NodeAdvances, store, counters
<1>2. TypeOK' /\ ChainShape' /\ CursorShape' /\ EmptyStore'
  BY <1>1 DEF TypeOK, ChainShape, CursorShape, EmptyStore, CursorTip
<1>3. node \in Blocks /\ height[node] \in Nat /\ height[node'] \in Nat
  BY <1>1, HeightFacts DEF TypeOK
<1>4. /\ \A x \in Nat : x <= height[node] => x <= height[node']
      /\ \A x \in Nat : Listed(x) => Listed(x)'
  <2>1. \A x \in Nat : x <= height[node] => x <= height[node']
    BY <1>1, <1>3, SMTT(60)
  <2> QED
    BY <2>1 DEF Listed
<1>5. Tips'
  <2>1. pull.tip \in Nat
    BY DEF TypeOK
  <2>2. ASSUME NEW i \in DOMAIN queue PROVE queue[i].tip \in Nat /\ queue[i].b \in Blocks /\ height[queue[i].b] \in Nat
    BY QueueFacts
  <2> QED
    BY <1>1, <1>4, <2>1, <2>2 DEF Tips
<1>6. WindowKept'
  <2>1. \A b \in Range(chain) : b \in Mined
    BY ChainFacts
  <2>2. \A b \in Range(chain) : InWindow(b)' => InWindow(b)
    <3>1. \A b \in Range(chain) : height[b] \in Nat
      BY <2>1, HeightFacts DEF Mined
    <3> QED
      <4>1. \A h \in Nat : h + Confs > height[node'] => h + Confs > height[node]
        BY <1>1, <1>3, SMTT(60)
      <4> QED
        BY <3>1, <4>1 DEF InWindow
  <2> QED
    BY <1>1, <2>2 DEF WindowKept, Found
<1> QED
  BY <1>2, <1>5, <1>6

\* A restart of the pull stage alone keeps the invariant.
LEMMA WindowReconnect ==
  ASSUME WindowInv, Reconnect
  PROVE  WindowInv'
<1> USE DEF WindowInv
<1>1. /\ node' = node /\ queue' = queue /\ mutable' = mutable /\ chain' = chain /\ wal' = wal /\ next' = next
      /\ reader' = reader /\ crashes' = crashes /\ ends' = ends /\ pull' \in Bootstrap
  BY DEF Reconnect, store
<1>2. /\ pull' \in [cursor : SUBSET Blocks, tip : Nat, init : BOOLEAN]
      /\ CursorShape' /\ CursorTip' = LastBlock /\ Listed(pull'.tip)
  BY <1>1, BootstrapFacts
<1>3. TypeOK' /\ ChainShape' /\ WindowKept'
  <2>1. TypeOK'
    BY <1>1, <1>2 DEF TypeOK
  <2>2. ChainShape' /\ WindowKept'
    BY <1>1 DEF ChainShape, WindowKept, InWindow, Found
  <2> QED
    BY <2>1, <2>2
<1>4. EmptyStore'
  BY <1>1, <1>2, ChainFacts DEF EmptyStore
<1>5. Tips'
  BY <1>1, <1>2 DEF Tips, Listed
<1> QED
  BY <1>2, <1>3, <1>4, <1>5

\* The number after the last one in the log is a number.
LEMMA LastEntry ==
  ASSUME wal \in Seq(LogEntry), wal # <<>>
  PROVE  /\ Len(wal) \in Nat /\ Len(wal) \in DOMAIN wal /\ DOMAIN wal = 1..Len(wal)
         /\ Last(wal) = wal[Len(wal)] /\ Last(wal) \in LogEntry
         /\ Last(wal).n \in Nat \ {0} /\ Last(wal).b \in Mined
<1>1. Len(wal) \in Nat /\ Len(wal) \in DOMAIN wal /\ DOMAIN wal = 1..Len(wal)
  BY SMTT(60)
<1>2. Last(wal) = wal[Len(wal)]
  BY DEF Last
<1>3. Last(wal) \in LogEntry
  BY <1>1, <1>2, ElementOfSeq
<1>4. \A e \in LogEntry : e.n \in Nat \ {0} /\ e.b \in Mined
  BY SMTT(60) DEF LogEntry
<1> QED
  BY <1>1, <1>2, <1>3, <1>4

\* A restart of the process keeps the invariant: it loses no entry of the log.
LEMMA WindowRestart ==
  ASSUME WindowInv, Restart, crashes' \in Nat, ends' \in Nat
  PROVE  WindowInv'
<1> USE DEF WindowInv
<1>1. /\ node' = node /\ queue' = <<>> /\ mutable' = FALSE /\ chain' = chain /\ wal' = wal
      /\ next' = (IF wal = <<>> THEN 1 ELSE Last(wal).n + 1)
      /\ reader' = [reader EXCEPT !.seq = 0] /\ pull' \in Bootstrap
  BY DEF Restart
<1>2. /\ pull' \in [cursor : SUBSET Blocks, tip : Nat, init : BOOLEAN]
      /\ CursorShape' /\ CursorTip' = LastBlock /\ Listed(pull'.tip)
  BY <1>1, BootstrapFacts
<1>3. TypeOK'
  <2>1. next' \in Nat \ {0}
    <3>1. CASE wal = <<>>
      BY <1>1, <3>1, SMTT(60)
    <3>2. CASE wal # <<>>
      <4>1. Last(wal).n \in Nat \ {0}
        BY <3>2, LastEntry DEF TypeOK
      <4> QED
        BY <1>1, <3>2, <4>1, SMTT(60)
    <3> QED
      BY <3>1, <3>2
  <2>2. reader' \in [at : Blocks, seq : Nat, linked : BOOLEAN]
    BY <1>1, SMTT(60) DEF TypeOK
  <2>3. <<>> \in Seq(Event)
    BY SMTT(60)
  <2> QED
    BY <1>1, <1>2, <2>1, <2>2, <2>3 DEF TypeOK
<1>4. ChainShape' /\ WindowKept'
  BY <1>1 DEF ChainShape, WindowKept, InWindow, Found
<1>5. EmptyStore'
  BY <1>1, <1>2, ChainFacts DEF EmptyStore
<1>6. Tips'
  <2>1. DOMAIN <<>> = {}
    BY SMTT(60)
  <2> QED
    BY <1>1, <1>2, <2>1 DEF Tips, Listed
<1> QED
  BY <1>2, <1>3, <1>4, <1>5, <1>6

\* The entry that the server takes first.
LEMMA FirstFacts ==
  ASSUME TypeOK, NEW places \in SUBSET DOMAIN wal, places # {}
  PROVE  \E i \in places : First(places) = wal[i] /\ \A j \in places : i <= j
<1>1. places \in SUBSET Nat
  BY LogFacts, SMTT(60)
<1>2. \E i \in places : \A j \in places : i <= j
  BY <1>1, LeastNat
<1> QED
  BY <1>2 DEF First

\* Readers do not change what the invariant is about.
LEMMA WindowReader ==
  ASSUME WindowInv, Connect \/ Page \/ Stream
  PROVE  WindowInv'
<1> USE DEF WindowInv
<1>1. /\ node' = node /\ pull' = pull /\ queue' = queue /\ mutable' = mutable /\ chain' = chain
      /\ wal' = wal /\ next' = next /\ crashes' = crashes /\ ends' = ends
  BY DEF Connect, Page, Stream, store, counters
<1> DEFINE Readers == [at : Blocks, seq : Nat, linked : BOOLEAN]
<1>2. reader \in Readers /\ reader.at \in Blocks
  BY DEF TypeOK
<1>3. ASSUME Connect PROVE reader' \in Readers
  <2>1. PICK b \in ancestors[reader.at] :
          Found(b) # {} /\ reader' = [reader EXCEPT !.at = b, !.seq = First(Found(b)).n]
    BY <1>3 DEF Connect
  <2>2. b \in Blocks
    BY <1>2, AncestorFacts DEF AncestorsShape
  <2>3. First(Found(b)).n \in Nat
    <3>1. Found(b) \in SUBSET DOMAIN wal
      BY DEF Found
    <3>2. PICK i \in Found(b) : First(Found(b)) = wal[i]
      BY <2>1, <3>1, FirstFacts
    <3> QED
      BY <3>1, <3>2, LogFacts
  <2>4. \A r \in Readers, c \in Blocks : [r EXCEPT !.at = c] \in Readers
    BY SMTT(60)
  <2>5. \A r \in Readers, s \in Nat : [r EXCEPT !.seq = s] \in Readers
    BY SMTT(60)
  <2> HIDE DEF Readers
  <2> QED
    BY <1>2, <2>1, <2>2, <2>3, <2>4, <2>5
<1>4. ASSUME Page PROVE reader' \in Readers
  <2>1. PICK b \in Range(Above(height[reader.at])) : reader' = [reader EXCEPT !.at = b]
    BY <1>4 DEF Page
  <2> DEFINE h == height[reader.at]
  <2>2. h \in 0..Len(chain) /\ chain \in Seq(Mined)
    <3>1. OnChain(reader.at)
      BY <1>4 DEF Page
    <3>2. CASE reader.at = Genesis
      <4>1. h = 0 /\ Len(chain) \in Nat
        BY <3>2, HeightFacts, ChainFacts
      <4> QED
        BY <4>1, SMTT(60) DEF TypeOK
    <3>3. CASE reader.at \in Range(chain)
      <4>1. h \in 1..Len(chain) /\ Len(chain) \in Nat
        BY <3>3, ChainFacts
      <4>2. h \in 0..Len(chain)
        BY <4>1, SMTT(60)
      <4> QED
        BY <4>2 DEF TypeOK
    <3> QED
      BY <3>1, <3>2, <3>3 DEF OnChain
  <2> HIDE DEF h
  <2>3. SubSeq(chain, h + 1, Len(chain)) \in Seq(Mined)
    BY <2>2, SuffixFacts
  <2>4. b \in Mined
    <3>1. \A s \in Seq(Mined) : Range(s) \subseteq Mined
      BY SMTT(60) DEF Range
    <3> QED
      BY <2>1, <2>3, <3>1 DEF Above, h
  <2> QED
    BY <1>2, <2>1, <2>4, SMTT(60) DEF Mined
<1>5. ASSUME Stream PROVE reader' \in Readers
  <2> DEFINE e == First(Pending)
  <2>1. reader' = IF e.n # reader.seq + 1 THEN [reader EXCEPT !.seq = 0]
                  ELSE [at |-> IF e.k = "undo" THEN parent[e.b] ELSE e.b, seq |-> e.n,
                        linked |-> reader.linked /\ Extends(reader.at, e)]
    BY <1>5 DEF Stream
  <2>2. e.n \in Nat /\ After(e) \in Blocks
    <3>1. Pending \in SUBSET DOMAIN wal /\ Pending # {}
      BY <1>5 DEF Pending, Stream
    <3>2. PICK i \in Pending : e = wal[i]
      BY <3>1, FirstFacts
    <3> QED
      BY <3>1, <3>2, LogFacts
  <2>3. (reader.linked /\ Extends(reader.at, e)) \in BOOLEAN
    BY DEF Extends
  <2> HIDE DEF e
  <2>4. CASE e.n # reader.seq + 1
    BY <1>2, <2>1, <2>4, SMTT(60)
  <2>5. CASE e.n = reader.seq + 1
    <3>1. reader' = [at |-> After(e), seq |-> e.n,
                     linked |-> reader.linked /\ Extends(reader.at, e)]
      BY <2>1, <2>5 DEF After
    <3> QED
      BY <2>2, <2>3, <3>1
  <2> QED
    BY <2>4, <2>5
<1>6. TypeOK'
  BY <1>1, <1>3, <1>4, <1>5 DEF TypeOK
<1>7. ChainShape' /\ CursorShape'
  BY <1>1 DEF ChainShape, CursorShape
<1>8. EmptyStore' /\ Tips'
  BY <1>1 DEF EmptyStore, Tips, Listed, CursorTip
<1>9. WindowKept'
  BY <1>1 DEF WindowKept, InWindow, Found
<1> QED
  BY <1>6, <1>7, <1>8, <1>9

\* What a block that is logged does to the log: an entry at its end, and a first part
\* of k entries, all more than Confs below the block, is deleted.
AppliedShape(b, k) ==
  LET n == Len(wal)
  IN  /\ k \in 0..n /\ wal' \in Seq(LogEntry) /\ wal' # <<>>
      /\ Len(wal') = (n - k) + 1 /\ DOMAIN wal' = 1..(n - k) + 1
      /\ \A i \in 1..n - k : wal'[i] = wal[k + i]
      /\ wal'[(n - k) + 1] = Entry(next, "apply", b)
      /\ \A i \in 1..k : height[wal[i].b] + Confs < height[b]

\* ApplyBlock near the tip has this effect.
LEMMA AppliedLog ==
  ASSUME TypeOK, Confs \in Nat, NEW b \in Mined, ApplyBlock(b, TRUE)
  PROVE  \E k \in 0..Len(wal) : AppliedShape(b, k)
<1> DEFINE n == Len(wal)
           e == Entry(next, "apply", b)
           log == Append(wal, e)
<1>1. wal \in Seq(LogEntry) /\ n \in Nat /\ height[b] \in Nat /\ e \in LogEntry /\ e.b = b
  BY LogFacts, HeightFacts DEF TypeOK, Entry, LogEntry, Mined
<1>2. wal' = IF height[b] >= Confs THEN Prune(log, height[b] - Confs) ELSE log
  BY SyncAssumption DEF ApplyBlock
<1> HIDE DEF e
<1>3. /\ log \in Seq(LogEntry) /\ Len(log) = n + 1 /\ log[n + 1] = e
      /\ \A i \in 1..n : log[i] = wal[i]
  BY <1>1, SMTT(60)
<1> HIDE DEF log, n
<1>4. PICK k \in 0..n + 1 : /\ wal' = SubSeq(log, k + 1, n + 1)
                            /\ \A i \in 1..k : height[log[i].b] + Confs < height[b]
  <2>1. CASE height[b] >= Confs
    <3>1. height[b] - Confs \in Nat
      BY <1>1, <2>1, SMTT(60)
    <3>2. PICK k \in 0..Len(log) : /\ Prune(log, height[b] - Confs) = SubSeq(log, k + 1, Len(log))
                                   /\ \A i \in 1..k : height[log[i].b] < height[b] - Confs
      BY <1>3, <3>1, PruneFacts
    <3>3. \A i \in 1..k : height[log[i].b] \in Nat
      <4>1. \A i \in 1..k : log[i] \in LogEntry
        BY <1>3, SMTT(60)
      <4>2. \A x \in LogEntry : x.b \in Blocks
        BY SMTT(60) DEF LogEntry, Mined
      <4> QED
        BY <4>1, <4>2, HeightFacts
    <3>4. \A i \in 1..k : height[log[i].b] + Confs < height[b]
      BY <1>1, <3>2, <3>3, SMTT(60)
    <3> QED
      BY <1>2, <1>3, <2>1, <3>2, <3>4
  <2>2. CASE ~ (height[b] >= Confs)
    <3>1. 0 \in 0..n + 1 /\ \A i \in 1..0 : FALSE
      BY <1>1, SMTT(60)
    <3>2. log = SubSeq(log, 0 + 1, n + 1)
      BY <1>1, <1>3, SMTT(60)
    <3> QED
      BY <1>2, <2>2, <3>1, <3>2
  <2> QED
    BY <2>1, <2>2
<1>5. k # n + 1
  <2>1. ~ (height[b] + Confs < height[b])
    BY <1>1, SMTT(60)
  <2>2. n + 1 \in 1..n + 1
    BY <1>1, SMTT(60)
  <2> QED
    BY <1>1, <1>3, <1>4, <2>1, <2>2
<1>6. /\ k \in 0..n /\ (n + 1) - k = (n - k) + 1 /\ k + ((n - k) + 1) = n + 1 /\ (n - k) + 1 # 0
      /\ (n - k) + 1 \in 1..(n - k) + 1
      /\ \A i \in 1..n - k : i \in 1..(n - k) + 1 /\ k + i \in 1..n
      /\ \A i \in 1..k : i \in 1..n
  BY <1>1, <1>4, <1>5, SMTT(60)
<1>7. /\ SubSeq(log, k + 1, n + 1) \in Seq(LogEntry) /\ Len(SubSeq(log, k + 1, n + 1)) = (n + 1) - k
      /\ DOMAIN SubSeq(log, k + 1, n + 1) = 1..(n + 1) - k
      /\ \A i \in 1..(n + 1) - k : SubSeq(log, k + 1, n + 1)[i] = log[k + i]
  <2>1. k \in 0..Len(log)
    BY <1>3
  <2>2. /\ SubSeq(log, k + 1, Len(log)) \in Seq(LogEntry) /\ Len(SubSeq(log, k + 1, Len(log))) = Len(log) - k
        /\ DOMAIN SubSeq(log, k + 1, Len(log)) = 1..Len(log) - k
        /\ \A i \in 1..Len(log) - k : SubSeq(log, k + 1, Len(log))[i] = log[k + i]
    BY <1>3, <2>1, SuffixFacts
  <2> QED
    BY <1>3, <2>2
<1>8. /\ wal' \in Seq(LogEntry) /\ Len(wal') = (n - k) + 1 /\ DOMAIN wal' = 1..(n - k) + 1
      /\ \A i \in 1..(n - k) + 1 : wal'[i] = log[k + i]
  BY <1>4, <1>6, <1>7
<1>9. wal' # <<>>
  BY <1>6, <1>8, EmptyLen
<1>10. ASSUME NEW i \in 1..n - k PROVE wal'[i] = wal[k + i]
  <2>1. wal'[i] = log[k + i]
    BY <1>6, <1>8
  <2>2. log[k + i] = wal[k + i]
    BY <1>3, <1>6
  <2> QED
    BY <2>1, <2>2
<1>11. wal'[(n - k) + 1] = e
  <2>1. wal'[(n - k) + 1] = log[k + ((n - k) + 1)]
    BY <1>6, <1>8
  <2> QED
    BY <1>3, <1>6, <2>1
<1>12. \A i \in 1..k : height[wal[i].b] + Confs < height[b]
  BY <1>3, <1>4, <1>6
<1>13. AppliedShape(b, k)
  BY <1>6, <1>8, <1>9, <1>10, <1>11, <1>12 DEF AppliedShape, n, e
<1> QED
  BY <1>6, <1>13 DEF n

\* What a rollback that is logged does to the log: the blocks above the target are
\* undone from the tip down, then the target is marked.
RolledShape(b, u) ==
  LET n == Len(wal)
  IN  /\ u = Len(chain) - height[b] /\ u \in Nat
      /\ wal' \in Seq(LogEntry) /\ wal' # <<>>
      /\ Len(wal') = n + u + 1 /\ DOMAIN wal' = 1..n + u + 1
      /\ \A i \in 1..n : wal'[i] = wal[i]
      /\ \A i \in 1..u : wal'[n + i] = Entry(next + i - 1, "undo", chain[Len(chain) - i + 1])
      /\ wal'[n + u + 1] = Entry(next + u, "mark", b)
      /\ next' = next + u + 1

\* Rollback near the tip has this effect.
LEMMA RolledLog ==
  ASSUME TypeOK, ChainShape, NEW b \in Range(chain), Rollback(b, TRUE)
  PROVE  RolledShape(b, Len(chain) - height[b])
<1> DEFINE n == Len(wal)
           h == height[b]
           len == Len(chain)
           u == len - h
           above == SubSeq(chain, h + 1, len)
           undone == Reverse(above)
           log == [i \in DOMAIN undone |-> Entry(next + i - 1, "undo", undone[i])]
           mark == Entry(next + u, "mark", b)
<1>1. /\ wal \in Seq(LogEntry) /\ n \in Nat /\ chain \in Seq(Mined) /\ len \in Nat
      /\ h \in 1..len /\ b \in Mined /\ next \in Nat \ {0}
      /\ \A i \in 1..len : chain[i] \in Mined
  BY LogFacts, ChainFacts DEF TypeOK
<1>2. wal' = wal \o log \o <<Entry(next + Len(log), "mark", b)>> /\ next' = next + Len(log) + 1
  BY DEF Rollback, Above
<1> HIDE DEF n, h, len
<1>3. h \in 0..len /\ u \in Nat /\ next + u \in Nat \ {0}
  BY <1>1, SMTT(60)
<1>4. Len(above) = u /\ \A i \in 1..u : above[i] = chain[h + i]
  BY <1>1, <1>3, SuffixFacts DEF len
<1>5. DOMAIN undone = 1..u /\ \A i \in 1..u : undone[i] = above[(u - i) + 1]
  BY <1>4 DEF Reverse
<1>6. \A i \in 1..u : /\ (u - i) + 1 \in 1..u /\ h + ((u - i) + 1) = len - i + 1 /\ len - i + 1 \in 1..len
                      /\ next + i - 1 \in Nat \ {0}
  BY <1>1, <1>3, SMTT(60)
<1>7. \A i \in 1..u : undone[i] = chain[len - i + 1] /\ undone[i] \in Mined
  BY <1>1, <1>4, <1>5, <1>6
<1> HIDE DEF undone, u
<1>8. log = [i \in 1..u |-> Entry(next + i - 1, "undo", undone[i])]
  BY <1>5
<1>9. \A i \in 1..u : log[i] = Entry(next + i - 1, "undo", chain[len - i + 1]) /\ log[i] \in LogEntry
  BY <1>6, <1>7, <1>8 DEF Entry, LogEntry
<1>10. log \in Seq(LogEntry) /\ Len(log) = u
  <2>1. log \in [1..u -> LogEntry]
    BY <1>8, <1>9
  <2> HIDE DEF log
  <2> QED
    BY <1>3, <2>1, SMTT(60)
<1>11. mark \in LogEntry
  BY <1>1, <1>3 DEF Entry, LogEntry
<1>12. wal' = wal \o log \o <<mark>> /\ next' = next + u + 1
  BY <1>2, <1>10
<1> HIDE DEF log, mark
<1>13. /\ wal' \in Seq(LogEntry) /\ Len(wal') = n + u + 1 /\ DOMAIN wal' = 1..n + u + 1
       /\ wal'[n + u + 1] = mark
  BY <1>1, <1>3, <1>10, <1>11, <1>12, SMTT(60) DEF n
<1>14. (\A i \in 1..n : wal'[i] = wal[i]) /\ \A i \in 1..u : wal'[n + i] = log[i]
  BY <1>1, <1>3, <1>10, <1>11, <1>12, SMTT(60) DEF n
<1>15. wal' # <<>>
  <2>1. n + u + 1 # 0
    BY <1>1, <1>3, SMTT(60)
  <2> QED
    BY <1>13, <2>1, EmptyLen
<1>16. RolledShape(b, u)
  BY <1>3, <1>9, <1>12, <1>13, <1>14, <1>15 DEF RolledShape, n, u, len, h, mark
<1> QED
  BY <1>16 DEF u, len, h

\* The event that the roll stage takes fits the store: a block is on its tip, a rollback
\* is to one of its blocks.
Taken(e) ==
  /\ e \in Event /\ e.tip \in Nat /\ e.b \in Blocks /\ height[e.b] \in Nat
  /\ queue # <<>> /\ Head(queue) = e /\ queue[1] = e /\ 1 \in DOMAIN queue
  /\ queue' \in Seq(Event) /\ DOMAIN queue' = 1..Len(queue) - 1
  /\ \A i \in DOMAIN queue' : i + 1 \in DOMAIN queue /\ queue'[i] = queue[i + 1]
  /\ \/ /\ e.k = "forward" /\ e.b \in Mined /\ parent[e.b] = LastBlock
        /\ ApplyBlock(e.b, Switch(e))
     \/ e.k = "back" /\ e.b \in Range(chain) /\ Rollback(e.b, Switch(e))
  /\ mutable' = Switch(e)

\* The roll stage takes the first event of the queue.
LEMMA RollFacts ==
  ASSUME TypeOK, ChainShape, EmptyStore, Roll
  PROVE  Taken(Head(queue))
<1> DEFINE e == Head(queue)
<1>1. /\ queue \in Seq(Event) /\ queue # <<>> /\ queue' = Tail(queue) /\ Fits(e) /\ mutable' = Switch(e)
      /\ IF e.k = "forward" THEN ApplyBlock(e.b, Switch(e)) ELSE Rollback(e.b, Switch(e))
  BY DEF TypeOK, Roll
<1>2. queue[1] = e /\ 1 \in DOMAIN queue /\ queue' \in Seq(Event)
  BY <1>1, SMTT(60)
<1>3. DOMAIN queue' = 1..Len(queue) - 1 /\ \A i \in DOMAIN queue' : i + 1 \in DOMAIN queue /\ queue'[i] = queue[i + 1]
  BY <1>1, SMTT(60)
<1>4. /\ e \in Event /\ e.tip \in Nat /\ e.b \in Blocks /\ height[e.b] \in Nat
      /\ e.k = "back" \/ (e.k = "forward" /\ e.b \in Mined)
  BY <1>2, QueueFacts
<1>5. ASSUME e.k = "forward" PROVE parent[e.b] = LastBlock
  <2>1. LastBlock = Genesis => chain = <<>>
    BY ChainFacts
  <2>2. chain = <<>> => parent[e.b] = Genesis
    BY <1>1 DEF EmptyStore
  <2>3. LastBlock = Genesis \/ LastBlock = parent[e.b]
    BY <1>1, <1>5 DEF Fits
  <2> QED
    BY <2>1, <2>2, <2>3
<1>6. e.k = "back" => e.b \in Range(chain)
  BY <1>1 DEF Fits
<1> HIDE DEF e
<1> QED
  BY <1>1, <1>2, <1>3, <1>4, <1>5, <1>6 DEF Taken, e

\* The roll stage switches to logging within Confs of the announced tip.
LEMMA SwitchFacts ==
  ASSUME Confs \in Nat, mutable \in BOOLEAN, NEW e \in Event
  PROVE  Switch(e) \in BOOLEAN /\ (Switch(e) <=> mutable \/ height[e.b] + Confs > e.tip)
<1>1. Switch(e) <=> mutable \/ height[e.b] + Confs > e.tip
  BY SyncAssumption DEF Switch, Near
<1> QED
  BY <1>1 DEF Switch, Near

\* The roll stage keeps the invariant, in each of the four cases of apply, roll back,
\* logged or not.
LEMMA WindowRoll ==
  ASSUME WindowInv, Roll, Confs \in Nat
  PROVE  WindowInv'
<1> USE DEF WindowInv
<1> DEFINE e == Head(queue)
<1>1. /\ node' = node /\ pull' = pull /\ reader' = reader /\ crashes' = crashes /\ ends' = ends
  BY DEF Roll, counters
<1>2. Taken(e)
  BY RollFacts
<1>3. Switch(e) \in BOOLEAN /\ (Switch(e) <=> mutable \/ height[e.b] + Confs > e.tip)
  BY <1>2, SwitchFacts DEF Taken, TypeOK
<1>4. /\ e \in Event /\ e.tip \in Nat /\ e.b \in Blocks /\ height[e.b] \in Nat
      /\ queue[1] = e /\ 1 \in DOMAIN queue /\ queue' \in Seq(Event)
      /\ \A i \in DOMAIN queue' : i + 1 \in DOMAIN queue /\ queue'[i] = queue[i + 1]
      /\ mutable' = Switch(e)
  BY <1>2 DEF Taken
<1>5. node \in Blocks /\ height[node] \in Nat /\ Listed(e.tip)
  BY <1>4, HeightFacts DEF TypeOK, Tips
<1>6. Tips'
  <2>1. \A i \in DOMAIN queue' : Listed(queue'[i].tip)
    BY <1>4 DEF Tips
  <2>2. \A i \in DOMAIN queue' : queue'[i].k = "forward" => height[queue'[i].b] <= height[node]
    BY <1>4 DEF Tips
  <2> QED
    BY <1>1, <2>1, <2>2 DEF Tips, Listed
<1>7. CursorShape'
  BY <1>1 DEF CursorShape
<1> HIDE DEF e
<1>8. ASSUME chain' \in Seq(Mined), chain' # <<>>, wal' \in Seq(LogEntry), next' \in Nat \ {0}
      PROVE  TypeOK' /\ EmptyStore'
  BY <1>1, <1>3, <1>4, <1>8 DEF TypeOK, EmptyStore
<1>9. wal \in Seq(LogEntry) /\ next \in Nat \ {0} /\ Len(wal) \in Nat /\ DOMAIN wal = 1..Len(wal)
  BY LogFacts DEF TypeOK
<1>10. \A c \in Range(chain) : c \in Blocks /\ height[c] \in Nat
  BY ChainFacts, HeightFacts DEF Mined
<1>11. CASE e.k = "forward"
  <2>1. /\ e.b \in Mined /\ parent[e.b] = LastBlock /\ ApplyBlock(e.b, Switch(e))
        /\ height[e.b] <= height[node]
    BY <1>2, <1>4, <1>11 DEF Taken, Tips
  <2>2. chain' = Append(chain, e.b) /\ next' = next + 1
    BY <2>1 DEF ApplyBlock
  <2>3. /\ chain' \in Seq(Mined) /\ chain' # <<>> /\ ChainShape'
        /\ Range(chain)' = Range(chain) \cup {e.b}
    BY <2>1, <2>2, AppliedChain
  <2>4. next' \in Nat \ {0}
    BY <1>9, <2>2, SMTT(60)
  <2>5. CASE ~ Switch(e)
    <3>1. wal' = wal
      BY <2>1, <2>5 DEF ApplyBlock
    <3>2. ~ InWindow(e.b)
      <4>1. ~ (height[e.b] + Confs > e.tip)
        BY <1>3, <2>5
      <4>2. PICK s \in Strays \cup {height[node]} : e.tip <= s
        BY <1>5 DEF Listed
      <4>3. s \in Nat
        BY <1>5, SyncAssumption
      <4>4. ~ (height[e.b] + Confs > s)
        BY <1>4, <4>1, <4>2, <4>3, SMTT(60)
      <4> QED
        BY <4>4 DEF InWindow
    <3>3. WindowKept'
      BY <1>1, <2>3, <3>1, <3>2 DEF WindowKept, InWindow, Found
    <3> QED
      BY <1>6, <1>7, <1>8, <1>9, <2>3, <2>4, <3>1, <3>3
  <2>6. CASE Switch(e)
    <3>1. ApplyBlock(e.b, TRUE)
      BY <2>1, <2>6 DEF ApplyBlock
    <3>2. PICK k \in 0..Len(wal) : AppliedShape(e.b, k)
      BY <2>1, <3>1, AppliedLog
    <3> DEFINE n == Len(wal)
    <3>3. /\ wal' \in Seq(LogEntry) /\ DOMAIN wal' = 1..(n - k) + 1
          /\ \A i \in 1..n - k : wal'[i] = wal[k + i]
          /\ wal'[(n - k) + 1] = Entry(next, "apply", e.b)
          /\ \A i \in 1..k : height[wal[i].b] + Confs < height[e.b]
      BY <3>2 DEF AppliedShape
    <3> HIDE DEF n
    <3>4. /\ (n - k) + 1 \in 1..(n - k) + 1
          /\ \A i \in 1..n - k : i \in 1..(n - k) + 1
          /\ \A i \in 1..n : i \in 1..k \/ (i - k \in 1..n - k /\ k + (i - k) = i)
      BY <1>9, <3>2, SMTT(60) DEF n
    <3>5. ASSUME NEW c \in Range(chain)', InWindow(c)
          PROVE  Found(c)' # {}
      <4>1. CASE c = e.b
        <5>1. wal'[(n - k) + 1].k = "apply" /\ wal'[(n - k) + 1].b = c
          <6>1. wal'[(n - k) + 1] = Entry(next, "apply", c)
            BY <3>3, <4>1
          <6> QED
            BY <6>1, SMTT(60) DEF Entry
        <5>2. (n - k) + 1 \in Found(c)'
          BY <3>3, <3>4, <5>1 DEF Found
        <5> QED
          BY <5>2
      <4>2. CASE c # e.b
        <5>1. PICK i \in DOMAIN wal : wal[i].k # "undo" /\ wal[i].b = c
          BY <2>3, <3>5, <4>2 DEF WindowKept, Found
        <5>2. ~ (height[c] + Confs < height[e.b])
          <6>1. height[c] \in Nat /\ height[c] + Confs > height[node]
            BY <1>10, <2>3, <3>5, <4>2 DEF InWindow
          <6> QED
            BY <1>4, <1>5, <2>1, <6>1, SMTT(60)
        <5>3. i \notin 1..k
          BY <3>3, <5>1, <5>2
        <5>4. i - k \in 1..n - k /\ k + (i - k) = i
          BY <1>9, <3>4, <5>3 DEF n
        <5>5. wal'[i - k] = wal[i] /\ i - k \in DOMAIN wal'
          BY <3>3, <3>4, <5>4
        <5>6. wal'[i - k].k # "undo" /\ wal'[i - k].b = c
          BY <5>1, <5>5, SMTT(60)
        <5>7. i - k \in Found(c)'
          BY <5>5, <5>6 DEF Found
        <5> QED
          BY <5>7
      <4> QED
        BY <4>1, <4>2
    <3>6. WindowKept'
      BY <1>1, <3>5 DEF WindowKept, InWindow
    <3> QED
      BY <1>6, <1>7, <1>8, <2>3, <2>4, <3>3, <3>6
  <2> QED
    BY <2>5, <2>6
<1>12. CASE e.k = "back"
  <2>1. e.b \in Range(chain) /\ Rollback(e.b, Switch(e))
    BY <1>2, <1>12 DEF Taken
  <2>2. chain' = SubSeq(chain, 1, height[e.b])
    BY <2>1 DEF Rollback
  <2>3. /\ chain' \in Seq(Mined) /\ chain' # <<>> /\ ChainShape' /\ Range(chain)' \subseteq Range(chain)
    BY <2>1, <2>2, RolledChain
  <2>4. CASE ~ Switch(e)
    <3>1. wal' = wal /\ next' = next
      BY <2>1, <2>4 DEF Rollback
    <3>2. WindowKept'
      BY <1>1, <2>3, <3>1 DEF WindowKept, InWindow, Found
    <3> QED
      BY <1>6, <1>7, <1>8, <1>9, <2>3, <3>1, <3>2
  <2>5. CASE Switch(e)
    <3>1. Rollback(e.b, TRUE)
      BY <2>1, <2>5 DEF Rollback
    <3> DEFINE u == Len(chain) - height[e.b]
               n == Len(wal)
    <3>2. RolledShape(e.b, u)
      BY <2>1, <3>1, RolledLog
    <3>3. /\ u \in Nat /\ wal' \in Seq(LogEntry) /\ DOMAIN wal' = 1..n + u + 1
          /\ \A i \in 1..n : wal'[i] = wal[i]
          /\ next' = next + u + 1
      BY <3>2 DEF RolledShape
    <3> HIDE DEF u, n
    <3>4. next' \in Nat \ {0} /\ \A i \in 1..n : i \in 1..n + u + 1
      BY <1>9, <3>3, SMTT(60) DEF n
    <3>5. ASSUME NEW c \in Range(chain)', InWindow(c)
          PROVE  Found(c)' # {}
      <4>1. PICK i \in DOMAIN wal : wal[i].k # "undo" /\ wal[i].b = c
        BY <2>3, <3>5 DEF WindowKept, Found
      <4>2. i \in DOMAIN wal' /\ wal'[i] = wal[i]
        BY <1>9, <3>3, <3>4 DEF n
      <4>3. wal'[i].k # "undo" /\ wal'[i].b = c
        BY <4>1, <4>2, SMTT(60)
      <4>4. i \in Found(c)'
        BY <4>2, <4>3 DEF Found
      <4> QED
        BY <4>4
    <3>6. WindowKept'
      BY <1>1, <3>5 DEF WindowKept, InWindow
    <3> QED
      BY <1>6, <1>7, <1>8, <2>3, <3>3, <3>4, <3>6
  <2> QED
    BY <2>4, <2>5
<1> QED
  BY <1>2, <1>11, <1>12 DEF Taken

\* The invariant holds of an empty store.
LEMMA WindowInit ==
  ASSUME Init, Confs \in Nat
  PROVE  WindowInv
<1>1. node \in Blocks /\ height[node] \in Nat /\ Genesis \in Blocks /\ Strays \subseteq Nat
  BY HeightFacts, SyncAssumption DEF Init
<1>2. <<>> \in Seq(Event) /\ <<>> \in Seq(Mined) /\ <<>> \in Seq(LogEntry) /\ 1 \in Nat \ {0} /\ 0 \in Nat
  BY SMTT(60)
<1>3. pull.cursor = {Genesis} /\ pull.tip \in ChainTips /\ pull.init = FALSE
  <2>1. IntersectOptions = {Genesis}
    <3>1. Len(chain) = 0
      BY EmptyLen DEF Init
    <3>2. IntersectHeights(0) = {}
      BY SMTT(60) DEF IntersectHeights
    <3> QED
      BY <3>1, <3>2 DEF IntersectOptions
  <2> QED
    BY <2>1 DEF Init, Bootstrap
<1>4. /\ pull.tip \in Nat /\ pull.tip <= pull.tip /\ pull.tip \in Strays \cup {height[node]}
      /\ height[Genesis] <= height[Genesis]
  <2>1. height[Genesis] <= height[Genesis]
    BY HeightFacts, SMTT(60)
  <2> QED
    BY <1>1, <1>3, <2>1, ChainTipsFacts
<1>5. TypeOK
  <2>1. pull \in [cursor : SUBSET Blocks, tip : Nat, init : BOOLEAN]
    <3>1. pull \in [cursor : {IntersectOptions}, tip : ChainTips, init : {FALSE}]
      BY DEF Init, Bootstrap
    <3>2. pull = [cursor |-> pull.cursor, tip |-> pull.tip, init |-> pull.init]
      BY <3>1
    <3> QED
      BY <1>1, <1>3, <1>4, <3>2
  <2>2. reader \in [at : Blocks, seq : Nat, linked : BOOLEAN]
    BY <1>1, <1>2 DEF Init
  <2> QED
    BY <1>1, <1>2, <2>1, <2>2 DEF Init, TypeOK
<1>6. DOMAIN chain = {} /\ DOMAIN queue = {} /\ Range(chain) = {}
  BY SMTT(60) DEF Init, Range
<1>7. ChainShape /\ Tips /\ WindowKept
  BY <1>4, <1>6 DEF ChainShape, Tips, Listed, WindowKept
<1>8. CursorShape
  BY <1>3, <1>4 DEF CursorShape
<1>9. EmptyStore
  <2>1. CursorTip \in {Genesis}
    BY <1>3, <1>4 DEF CursorTip, Newest
  <2> QED
    BY <2>1 DEF EmptyStore, Init
<1> QED
  BY <1>5, <1>7, <1>8, <1>9 DEF WindowInv

\* Every step keeps the invariant.
LEMMA WindowNext ==
  ASSUME WindowInv, [Next]_vars, Confs \in Nat
  PROVE  WindowInv'
<1>1. CASE NodeAdvances
  BY <1>1, WindowNode
<1>2. CASE Schedule
  BY <1>2, WindowSchedule
<1>3. CASE Reconnect
  BY <1>3, WindowReconnect
<1>4. CASE Roll
  BY <1>4, WindowRoll
<1>5. CASE Crash
  <2>1. Restart /\ crashes' = crashes + 1 /\ crashes \in Nat /\ ends' \in Nat
    BY <1>5 DEF Crash, WindowInv, TypeOK
  <2>2. crashes' \in Nat
    BY <2>1, SMTT(60)
  <2> QED
    BY <2>1, <2>2, WindowRestart
<1>6. CASE GiveUp
  <2>1. Restart /\ crashes' \in Nat /\ ends' = ends + 1 /\ ends \in Nat
    BY <1>6 DEF GiveUp, WindowInv, TypeOK
  <2>2. ends' \in Nat
    BY <2>1, SMTT(60)
  <2> QED
    BY <2>1, <2>2, WindowRestart
<1>7. CASE Connect \/ Page \/ Stream
  BY <1>7, WindowReader
<1>8. CASE UNCHANGED vars
  <2>1. /\ node' = node /\ pull' = pull /\ queue' = queue /\ mutable' = mutable /\ chain' = chain
        /\ wal' = wal /\ next' = next /\ reader' = reader /\ crashes' = crashes /\ ends' = ends
    BY <1>8 DEF vars, store, counters
  <2>2. TypeOK' /\ ChainShape' /\ CursorShape'
    BY <2>1 DEF WindowInv, TypeOK, ChainShape, CursorShape
  <2>3. EmptyStore' /\ Tips' /\ WindowKept'
    BY <2>1 DEF WindowInv, EmptyStore, Tips, Listed, WindowKept, InWindow, CursorTip, Found
  <2> QED
    BY <2>2, <2>3 DEF WindowInv
<1> QED
  BY <1>1, <1>2, <1>3, <1>4, <1>5, <1>6, <1>7, <1>8 DEF Next

\* Every block of the store that is less than immutable_after_confs below the tip of the
\* node, and below every branch that it lists, can be intersected in the log: what the
\* roll stage leaves unlogged or prunes is deeper than that, because no tip that the pull
\* stage sent is above all of them and the node only moves to higher chains.
THEOREM WindowTheorem ==
  ASSUME Confs \in Nat
  PROVE  Spec => []WindowKept
<1>1. Init => WindowInv
  BY WindowInit
<1>2. WindowInv /\ [Next]_vars => WindowInv'
  BY WindowNext
<1>3. WindowInv => WindowKept
  BY DEF WindowInv
<1> QED
  BY <1>1, <1>2, <1>3, PTL DEF Spec

-----------------------------------------------------------------------------
(* What is streamed continues the chain of the reader.  The entries of the log that  *)
(* are numbered without a gap follow each other (LogShape); near the tip its last    *)
(* one is the tip of the store (NearTip), and when the stage is not near the tip but *)
(* the numbers have no gap, the next event that is logged meets the block that the   *)
(* log ends with (FarFromTip).                                                       *)

\* The variables that the invariant depends on.
LEMMA StreamFrame ==
  ASSUME StreamInv, pull' = pull, queue' = queue, mutable' = mutable, chain' = chain, wal' = wal,
         next' = next, reader' = reader
  PROVE  StreamInv'
<1>1. QueueTips => QueueTips'
  BY DEF QueueTips
<1>2. LogShape => LogShape'
  BY DEF LogShape
<1>3. NearTip => NearTip'
  BY DEF NearTip, NoGap, LogTip, LastBlock
<1>4. FarFromTip => FarFromTip'
  BY DEF FarFromTip, Deep, NoGap, LogTip, LastBlock, CursorTip
<1>5. ReaderShape => ReaderShape'
  BY DEF ReaderShape
<1> QED
  BY <1>1, <1>2, <1>3, <1>4, <1>5 DEF StreamInv

\* Scheduling headers of the node keeps the invariant.
LEMMA StreamSchedule ==
  ASSUME WindowInv, StreamInv, Schedule, Confs \in Nat
  PROVE  StreamInv'
<1>1. PICK headers \in {Path(Intersect, node), Take(Path(Intersect, node), PageSize)} :
         /\ queue' = queue \o Plan(headers)
         /\ pull' = [cursor |-> NextCursor(headers), tip |-> Forward(pull.tip, Last(headers)), init |-> TRUE]
  BY DEF Schedule
<1>2. mutable' = mutable /\ chain' = chain /\ wal' = wal /\ next' = next /\ reader' = reader
  BY DEF Schedule, store, counters
<1>5. TypeOK /\ ChainShape /\ CursorShape /\ Tips
  BY DEF WindowInv
<1>6. QueueTips /\ LogShape /\ NearTip /\ FarFromTip /\ ReaderShape
  BY DEF StreamInv
<1>7. HeadersShape(headers)
  <2>1. Path(Intersect, node) # <<>>
    BY DEF Schedule
  <2> QED
    BY <1>5, <2>1, HeadersFacts
<1> DEFINE P == Plan(headers)
           t == Forward(pull.tip, Last(headers))
           q == Len(queue)
<1>8. /\ P \in Seq(Event) /\ P # <<>> /\ Len(P) \in Nat /\ Len(P) \in 1..Len(P) /\ DOMAIN P = 1..Len(P)
      /\ P[1].k = "back" => CursorTip # Genesis /\ (pull.init \/ P[1].b = CursorTip)
  BY <1>5, <1>7, PlanLinks
<1>9. /\ t \in Nat /\ pull.tip <= t
      /\ \A i \in DOMAIN P : pull.tip <= P[i].tip /\ P[i].tip <= t
      /\ \A i, j \in DOMAIN P : i <= j => P[i].tip <= P[j].tip
  BY <1>5, <1>7, PlanTips
<1>10. pull'.tip = t
  BY <1>1
<1> HIDE DEF P, t
<1>12. queue \in Seq(Event) /\ queue' \in Seq(Event) /\ Joined(queue, P, queue')
  <2>1. queue \in Seq(Event) /\ P \in Seq(Event) /\ queue' = queue \o P
    BY <1>1, <1>5, <1>8 DEF TypeOK, P
  <2> QED
    BY <2>1, ConcatFacts
<1>13. /\ q \in Nat /\ DOMAIN queue = 1..q /\ Len(queue') = q + Len(P) /\ DOMAIN queue' = 1..q + Len(P)
       /\ \A i \in 1..q : queue'[i] = queue[i]
       /\ \A i \in 1..Len(P) : queue'[q + i] = P[i]
       /\ \A i \in 1..q + Len(P) : i \in 1..q \/ \E j \in 1..Len(P) : i = q + j /\ queue'[i] = P[j]
  BY <1>12 DEF Joined
<1>14. /\ queue' # <<>>
       /\ (queue # <<>> => Head(queue') = Head(queue))
       /\ (queue = <<>> => Head(queue') = P[1])
  <2>1. q + Len(P) # 0
    BY <1>8, <1>13, SMTT(60)
  <2>2. queue' # <<>>
    BY <1>13, <2>1, EmptyLen
  <2>3. Head(queue') = queue'[1]
    BY <1>12, <2>2, SMTT(60)
  <2>4. ASSUME queue # <<>> PROVE Head(queue') = Head(queue)
    <3>1. Head(queue) = queue[1]
      BY <1>12, <2>4, SMTT(60)
    <3>2. 1 \in 1..q
      BY <1>12, <2>4, SMTT(60)
    <3> QED
      BY <1>13, <2>3, <3>1, <3>2
  <2>5. ASSUME queue = <<>> PROVE Head(queue') = P[1]
    <3>1. q = 0
      BY <2>5, EmptyLen
    <3>2. 1 \in 1..Len(P) /\ 0 + 1 = 1
      BY <1>8, SMTT(60)
    <3>3. queue'[0 + 1] = P[1]
      BY <1>13, <3>1, <3>2
    <3> QED
      BY <2>3, <3>2, <3>3
  <2> HIDE DEF q
  <2> QED
    BY <2>2, <2>4, <2>5
<1> HIDE DEF q
<1>15. QueueTips'
  <2>3. /\ pull.tip \in Nat /\ \A i \in DOMAIN queue : queue[i].tip \in Nat /\ queue[i].tip <= pull.tip
        /\ \A i \in DOMAIN P : P[i].tip \in Nat
    <3>1. pull.tip \in Nat /\ \A i \in DOMAIN queue : queue[i].tip \in Nat /\ queue[i].tip <= pull.tip
      BY <1>5, <1>6, QueueFacts DEF TypeOK, QueueTips
    <3>2. \A i \in DOMAIN P : P[i] \in Event
      BY <1>8, SMTT(60)
    <3>3. \A e \in Event : e.tip \in Nat
      BY SMTT(60) DEF Event
    <3> QED
      BY <3>1, <3>2, <3>3
  <2>4. ASSUME NEW i \in DOMAIN queue', NEW j \in DOMAIN queue', i <= j
        PROVE  queue'[i].tip <= queue'[j].tip
    <3>1. CASE j \in 1..q
      <4>1. i \in 1..q
        BY <1>8, <1>13, <2>4, <3>1, SMTT(60)
      <4> QED
        BY <1>6, <1>13, <2>4, <3>1, <4>1 DEF QueueTips
    <3>2. CASE i \in 1..q /\ j \notin 1..q
      <4>1. PICK y \in 1..Len(P) : queue'[j] = P[y]
        BY <1>13, <3>2
      <4>2. queue[i].tip <= pull.tip /\ queue[i].tip \in Nat /\ pull.tip <= P[y].tip /\ P[y].tip \in Nat
        BY <1>8, <1>9, <1>13, <2>3, <3>2
      <4>3. queue'[i] = queue[i]
        BY <1>13, <3>2
      <4>4. queue[i].tip <= P[y].tip
        BY <2>3, <4>2, SMTT(60)
      <4> QED
        BY <4>1, <4>3, <4>4
    <3>3. CASE i \notin 1..q /\ j \notin 1..q
      <4>1. PICK x \in 1..Len(P) : i = q + x /\ queue'[i] = P[x]
        BY <1>13, <3>3
      <4>2. PICK y \in 1..Len(P) : j = q + y /\ queue'[j] = P[y]
        BY <1>13, <3>3
      <4>3. x <= y
        BY <1>8, <1>13, <2>4, <4>1, <4>2, SMTT(60)
      <4> QED
        BY <1>8, <1>9, <4>1, <4>2, <4>3
    <3> QED
      BY <3>1, <3>2, <3>3
  <2>5. ASSUME NEW i \in DOMAIN queue' PROVE queue'[i].tip <= pull'.tip
    <3>1. CASE i \in 1..q
      <4>1. queue'[i] = queue[i] /\ queue[i].tip <= pull.tip /\ queue[i].tip \in Nat
        BY <1>13, <2>3, <3>1
      <4>2. queue[i].tip <= t
        BY <1>9, <2>3, <4>1, SMTT(60)
      <4> QED
        BY <1>10, <4>1, <4>2
    <3>2. CASE i \notin 1..q
      <4>1. PICK y \in 1..Len(P) : queue'[i] = P[y]
        BY <1>13, <2>5, <3>2
      <4> QED
        BY <1>8, <1>9, <1>10, <4>1
    <3> QED
      BY <3>1, <3>2
  <2> QED
    BY <2>4, <2>5 DEF QueueTips
<1>16. FarFromTip'
  <2> SUFFICES ASSUME ~ mutable, wal # <<>>, NoGap
               PROVE  \/ LastBlock = LogTip /\ (Head(queue').k = "back" => Head(queue').b = LastBlock)
                      \/ /\ height[LogTip] + Confs <= t
                         /\ \A i \in DOMAIN queue' : height[LogTip] + Confs <= queue'[i].tip
                         /\ LastBlock = LogTip \/ height[LastBlock] < height[LogTip]
    BY <1>2, <1>10, <1>14 DEF FarFromTip, Deep, NoGap, LogTip, LastBlock, CursorTip
  <2>1. CASE LastBlock = LogTip /\ IF queue = <<>> THEN ~pull.init /\ CursorTip = LastBlock
                                   ELSE Head(queue).k = "back" => Head(queue).b = LastBlock
    <3>1. CASE queue # <<>>
      BY <1>14, <2>1, <3>1
    <3>2. CASE queue = <<>>
      <4>1. ~ pull.init /\ CursorTip = LastBlock /\ Head(queue') = P[1]
        BY <1>6, <1>14, <2>1, <3>2 DEF QueueTips
      <4> QED
        BY <1>8, <2>1, <4>1
    <3> QED
      BY <3>1, <3>2
  <2>2. CASE Deep /\ (LastBlock = LogTip \/ height[LastBlock] < height[LogTip])
    <3>1. ASSUME NEW x \in Nat, pull.tip <= x PROVE height[LogTip] + Confs <= x
      <4>1. height[LogTip] + Confs <= pull.tip /\ pull.tip \in Nat
        BY <1>5, <2>2 DEF Deep, TypeOK
      <4>2. height[LogTip] + Confs \in Nat
        <5>1. LogTip \in Blocks
          BY <1>5, LastEntry, LogFacts DEF LogTip, TypeOK
        <5>2. height[LogTip] \in Nat
          BY <5>1, HeightFacts
        <5> QED
          BY <5>2, SMTT(60)
      <4> QED
        BY <3>1, <4>1, <4>2, SMTT(60)
    <3>2. height[LogTip] + Confs <= t
      BY <1>9, <3>1
    <3>3. ASSUME NEW i \in DOMAIN queue' PROVE height[LogTip] + Confs <= queue'[i].tip
      <4>1. CASE i \in 1..q
        BY <1>13, <2>2, <4>1 DEF Deep
      <4>2. CASE i \notin 1..q
        <5>1. PICK j \in 1..Len(P) : queue'[i] = P[j]
          BY <1>13, <4>2
        <5>2. P[j].tip \in Nat
          <6>1. P[j] \in Event
            BY <1>8, SMTT(60)
          <6> QED
            BY <6>1, SMTT(60) DEF Event
        <5>3. pull.tip <= P[j].tip
          BY <1>8, <1>9
        <5> QED
          BY <3>1, <5>1, <5>2, <5>3
      <4> QED
        BY <4>1, <4>2
    <3> QED
      BY <2>2, <3>2, <3>3
  <2> QED
    BY <1>6, <2>1, <2>2 DEF FarFromTip
<1>17. LogShape'
  BY <1>2, <1>6 DEF LogShape
<1>18. NearTip'
  BY <1>2, <1>6 DEF NearTip, NoGap, LogTip, LastBlock
<1>19. ReaderShape'
  BY <1>2, <1>6 DEF ReaderShape
<1> QED
  BY <1>2, <1>15, <1>16, <1>17, <1>18, <1>19 DEF StreamInv

\* The numbers in the log are those of its entries: each occurs once, and the last is
\* the greatest.
LEMMA NumberFacts ==
  ASSUME TypeOK, LogShape
  PROVE  /\ \A i, j \in DOMAIN wal : wal[i].n = wal[j].n => i = j
         /\ wal # <<>> => \A i \in DOMAIN wal : wal[i].n <= Last(wal).n
<1>1. /\ Len(wal) \in Nat /\ DOMAIN wal = 1..Len(wal)
      /\ \A i \in DOMAIN wal : wal[i].n \in Nat
  BY LogFacts
<1>2. \A i, j \in DOMAIN wal : i < j => wal[i].n < wal[j].n
  BY DEF LogShape
<1>3. ASSUME NEW i \in DOMAIN wal, NEW j \in DOMAIN wal, wal[i].n = wal[j].n PROVE i = j
  <2>1. ~ (wal[i].n < wal[j].n) /\ ~ (wal[j].n < wal[i].n)
    BY <1>1, <1>3, SMTT(60)
  <2>2. ~ (i < j) /\ ~ (j < i)
    BY <1>2, <2>1
  <2>3. i \in Nat /\ j \in Nat
    BY <1>1, SMTT(60)
  <2> QED
    BY <2>2, <2>3, SMTT(60)
<1>4. ASSUME wal # <<>>, NEW i \in DOMAIN wal PROVE wal[i].n <= Last(wal).n
  <2>1. Last(wal) = wal[Len(wal)] /\ Len(wal) \in DOMAIN wal
    BY <1>4, LastEntry DEF TypeOK
  <2>2. CASE i = Len(wal)
    <3>1. wal[i].n <= wal[i].n
      BY <1>1, SMTT(60)
    <3> QED
      BY <2>1, <2>2, <3>1
  <2>3. CASE i # Len(wal)
    <3>1. i < Len(wal)
      BY <1>1, <2>3, SMTT(60)
    <3>2. wal[i].n < wal[Len(wal)].n
      BY <1>2, <2>1, <3>1
    <3>3. wal[i].n <= wal[Len(wal)].n
      BY <1>1, <2>1, <3>2, SMTT(60)
    <3> QED
      BY <2>1, <3>3
  <2> QED
    BY <2>2, <2>3
<1> QED
  BY <1>3, <1>4

\* A restart of the process that loses no gap keeps the invariant.
LEMMA StreamCrash ==
  ASSUME WindowInv, StreamInv, Restart, Confs \in Nat, wal = <<>> \/ NoGap, NoLowerTip
  PROVE  StreamInv'
<1>1. /\ queue' = <<>> /\ mutable' = FALSE /\ chain' = chain /\ wal' = wal
      /\ next' = (IF wal = <<>> THEN 1 ELSE Last(wal).n + 1)
      /\ reader' = [reader EXCEPT !.seq = 0] /\ pull' \in Bootstrap
  BY DEF Restart
<1>2. TypeOK /\ ChainShape /\ Tips
  BY DEF WindowInv
<1>3. reader'.seq = 0 /\ reader'.linked = reader.linked
  BY <1>1, <1>2 DEF TypeOK
<1>6. QueueTips /\ LogShape /\ NearTip /\ FarFromTip /\ ReaderShape
  BY DEF StreamInv
<1>7. CursorTip' = LastBlock /\ pull'.tip \in Nat /\ pull'.init = FALSE
  BY <1>1, <1>2, BootstrapFacts
<1>8. LastBlock' = LastBlock
  BY <1>1 DEF LastBlock
<1>9. DOMAIN <<>> = {}
  BY SMTT(60)
<1>10. QueueTips'
  BY <1>1, <1>9 DEF QueueTips
<1>11. LogShape'
  <2>1. ASSUME NEW i \in DOMAIN wal PROVE wal[i].n < next'
    <3>1. wal # <<>>
      BY <1>9
    <3>2. wal[i].n <= Last(wal).n /\ next' = Last(wal).n + 1
      BY <1>1, <1>2, <1>6, <3>1, NumberFacts
    <3>3. wal[i].n \in Nat /\ Last(wal).n \in Nat
      BY <1>2, <3>1, LogFacts, LastEntry DEF TypeOK
    <3> QED
      BY <3>2, <3>3, SMTT(60)
  <2> QED
    BY <1>1, <1>6, <2>1 DEF LogShape
<1>12. NearTip'
  BY <1>1 DEF NearTip
<1>13. FarFromTip'
  <2> SUFFICES ASSUME wal # <<>>
               PROVE  \/ LastBlock = LogTip
                      \/ /\ height[LogTip] + Confs <= pull'.tip
                         /\ LastBlock = LogTip \/ height[LastBlock] < height[LogTip]
    BY <1>1, <1>7, <1>8, <1>9 DEF FarFromTip, Deep, LogTip
  <2>1. NoGap
    OBVIOUS
  <2>2. CASE mutable
    BY <1>6, <2>2 DEF NearTip
  <2>3. CASE ~ mutable
    <3>1. CASE LastBlock = LogTip
      BY <3>1
    <3>2. CASE Deep /\ (LastBlock = LogTip \/ height[LastBlock] < height[LogTip])
      <4>1. height[LogTip] + Confs <= pull.tip /\ pull.tip \in Nat /\ pull.tip <= pull'.tip
        BY <1>2, <3>2 DEF Deep, TypeOK, NoLowerTip
      <4>2. LogTip \in Blocks
        BY <1>2, LastEntry, LogFacts DEF LogTip, TypeOK
      <4>3. height[LogTip] \in Nat
        BY <4>2, HeightFacts
      <4>4. height[LogTip] + Confs <= pull'.tip
        BY <1>7, <4>1, <4>3, SMTT(60)
      <4> QED
        BY <3>2, <4>4
    <3> QED
      BY <1>6, <2>1, <2>3, <3>1, <3>2 DEF FarFromTip
  <2> QED
    BY <2>2, <2>3
<1>14. ReaderShape'
  <2>1. 0 < next'
    <3>1. CASE wal = <<>>
      BY <1>1, <3>1, SMTT(60)
    <3>2. CASE wal # <<>>
      <4>1. Last(wal).n \in Nat /\ next' = Last(wal).n + 1
        BY <1>1, <1>2, <3>2, LastEntry DEF TypeOK
      <4> QED
        BY <4>1, SMTT(60)
    <3> QED
      BY <3>1, <3>2
  <2> QED
    BY <1>3, <1>6, <2>1 DEF ReaderShape
<1> QED
  BY <1>10, <1>11, <1>12, <1>13, <1>14 DEF StreamInv

\* A restart of the pull stage alone keeps the invariant: what is in the queue was
\* planned before, and is never above the tip that the node reports then.
LEMMA StreamReconnect ==
  ASSUME WindowInv, StreamInv, Reconnect, Confs \in Nat, NoLowerTip
  PROVE  StreamInv'
<1>1. /\ queue' = queue /\ mutable' = mutable /\ chain' = chain /\ wal' = wal /\ next' = next
      /\ reader' = reader /\ pull' \in Bootstrap
  BY DEF Reconnect, store
<1>2. TypeOK /\ ChainShape
  BY DEF WindowInv
<1>3. QueueTips /\ LogShape /\ NearTip /\ FarFromTip /\ ReaderShape
  BY DEF StreamInv
<1>4. CursorTip' = LastBlock /\ pull'.tip \in Nat /\ pull'.init = FALSE
  BY <1>1, <1>2, BootstrapFacts
<1>5. LastBlock' = LastBlock /\ LogTip' = LogTip /\ (NoGap' <=> NoGap)
  BY <1>1 DEF LastBlock, LogTip, NoGap
<1>6. ASSUME NEW x \in Nat, x <= pull.tip PROVE x <= pull'.tip
  <2>1. pull.tip \in Nat /\ pull.tip <= pull'.tip
    BY <1>2 DEF TypeOK, NoLowerTip
  <2> QED
    BY <1>4, <1>6, <2>1, SMTT(60)
<1>7. QueueTips'
  <2>1. \A i \in DOMAIN queue : queue[i].tip \in Nat /\ queue[i].tip <= pull.tip
    BY <1>2, <1>3, QueueFacts DEF QueueTips
  <2> QED
    BY <1>1, <1>3, <1>6, <2>1 DEF QueueTips
<1>8. LogShape' /\ NearTip' /\ ReaderShape'
  BY <1>1, <1>3, <1>5 DEF LogShape, NearTip, ReaderShape
<1>9. ASSUME wal # <<>>, Deep PROVE Deep'
  <2>1. LogTip \in Blocks
    BY <1>2, <1>9, LastEntry, LogFacts DEF LogTip, TypeOK
  <2>2. height[LogTip] \in Nat
    BY <2>1, HeightFacts
  <2>3. height[LogTip] + Confs \in Nat
    BY <2>2, SMTT(60)
  <2> QED
    BY <1>1, <1>5, <1>6, <1>9, <2>3 DEF Deep
<1>10. FarFromTip'
  BY <1>1, <1>3, <1>4, <1>5, <1>9 DEF FarFromTip
<1> QED
  BY <1>7, <1>8, <1>10 DEF StreamInv

\* A reader that pages through the blocks, or gets a place in the log at its own tip.
LEMMA StreamConnect ==
  ASSUME WindowInv, StreamInv, Connect \/ Page
  PROVE  StreamInv'
<1>1. /\ pull' = pull /\ queue' = queue /\ mutable' = mutable /\ chain' = chain
      /\ wal' = wal /\ next' = next
  BY DEF Connect, Page, store
<1>2. TypeOK /\ reader.seq = 0
  BY DEF WindowInv, Connect, Page
<1>3. QueueTips /\ LogShape /\ NearTip /\ FarFromTip /\ ReaderShape
  BY DEF StreamInv
<1>4. QueueTips'
  BY <1>1, <1>3 DEF QueueTips
<1>5. LogShape'
  BY <1>1, <1>3 DEF LogShape
<1>6. NearTip'
  BY <1>1, <1>3 DEF NearTip, NoGap, LogTip, LastBlock
<1>7. FarFromTip'
  BY <1>1, <1>3 DEF FarFromTip, Deep, NoGap, LogTip, LastBlock, CursorTip
<1>8. ReaderShape'
  <2>1. CASE Connect
    <3>1. PICK b \in ancestors[reader.at] :
            Found(b) # {} /\ reader' = [reader EXCEPT !.at = b, !.seq = First(Found(b)).n]
      BY <2>1 DEF Connect
    <3>2. Found(b) \in SUBSET DOMAIN wal
      BY DEF Found
    <3>3. PICK i \in Found(b) : First(Found(b)) = wal[i]
      BY <1>2, <3>1, <3>2, FirstFacts
    <3>4. i \in DOMAIN wal /\ wal[i].k # "undo" /\ wal[i].b = b
      BY <3>3 DEF Found
    <3>5. After(wal[i]) = b
      BY <3>4 DEF After
    <3>6. reader' = [reader EXCEPT !.at = b, !.seq = wal[i].n]
      BY <3>1, <3>3
    <3>7. /\ reader'.at = b /\ reader'.seq = wal[i].n /\ reader'.linked = reader.linked
      BY <1>2, <3>6 DEF TypeOK
    <3>8. ASSUME NEW j \in DOMAIN wal, wal[j].n = reader'.seq PROVE reader'.at = After(wal[j])
      <4>1. j = i
        BY <1>2, <1>3, <3>4, <3>7, <3>8, NumberFacts
      <4> QED
        BY <3>5, <3>7, <4>1
    <3>9. reader'.seq < next
      BY <1>3, <3>4, <3>7 DEF LogShape
    <3> QED
      BY <1>1, <1>2, <1>3, <3>7, <3>8, <3>9 DEF ReaderShape
  <2>2. CASE Page
    <3>1. PICK b : reader' = [reader EXCEPT !.at = b]
      BY <2>2 DEF Page
    <3>2. reader'.seq = reader.seq /\ reader'.linked = reader.linked
      BY <1>2, <3>1 DEF TypeOK
    <3> QED
      BY <1>1, <1>2, <1>3, <3>2 DEF ReaderShape
  <2> QED
    BY <2>1, <2>2
<1> QED
  BY <1>4, <1>5, <1>6, <1>7, <1>8 DEF StreamInv

\* Streaming an entry to the reader keeps the invariant.
LEMMA StreamStream ==
  ASSUME WindowInv, StreamInv, Stream
  PROVE  StreamInv'
<1>1. /\ pull' = pull /\ queue' = queue /\ mutable' = mutable /\ chain' = chain
      /\ wal' = wal /\ next' = next
  BY DEF Stream, store
<1>2. TypeOK /\ reader.seq # 0
  BY DEF WindowInv, Stream
<1>3. QueueTips /\ LogShape /\ NearTip /\ FarFromTip /\ ReaderShape
  BY DEF StreamInv
<1>4. QueueTips'
  BY <1>1, <1>3 DEF QueueTips
<1>5. LogShape'
  BY <1>1, <1>3 DEF LogShape
<1>6. NearTip'
  BY <1>1, <1>3 DEF NearTip, NoGap, LogTip, LastBlock
<1>7. FarFromTip'
  BY <1>1, <1>3 DEF FarFromTip, Deep, NoGap, LogTip, LastBlock, CursorTip
<1>8. /\ Len(wal) \in Nat /\ DOMAIN wal = 1..Len(wal) /\ reader.seq \in Nat
      /\ \A i \in DOMAIN wal : wal[i].n \in Nat
  BY <1>2, LogFacts DEF TypeOK
<1>9. Pending \in SUBSET DOMAIN wal /\ Pending # {}
  BY DEF Pending, Stream
<1>10. PICK p \in Pending : First(Pending) = wal[p] /\ \A j \in Pending : p <= j
  BY <1>2, <1>9, FirstFacts
<1>11. p \in DOMAIN wal /\ \E j \in DOMAIN wal : j < p /\ wal[j].n >= reader.seq
  BY <1>10 DEF Pending
<1>12. reader' = IF wal[p].n # reader.seq + 1 THEN [reader EXCEPT !.seq = 0]
                 ELSE [at |-> After(wal[p]), seq |-> wal[p].n,
                       linked |-> reader.linked /\ Extends(reader.at, wal[p])]
  BY <1>10 DEF Stream, After
<1>13. ReaderShape'
  <2>1. CASE wal[p].n # reader.seq + 1
    <3>1. reader' = [reader EXCEPT !.seq = 0]
      BY <1>12, <2>1
    <3>2. reader'.seq = 0 /\ reader'.linked = reader.linked
      BY <1>2, <3>1 DEF TypeOK
    <3>3. 0 < next
      BY <1>2, SMTT(60) DEF TypeOK
    <3> QED
      BY <1>1, <1>2, <1>3, <3>2, <3>3 DEF ReaderShape
  <2>2. CASE wal[p].n = reader.seq + 1
    <3>1. PICK j \in DOMAIN wal : j < p /\ wal[j].n >= reader.seq
      BY <1>11
    <3>2. j + 1 \in DOMAIN wal /\ j < j + 1 /\ p - 1 \in DOMAIN wal
      BY <1>8, <1>11, <3>1, SMTT(60)
    <3>3. j + 1 \in Pending
      BY <3>1, <3>2 DEF Pending
    <3>4. j = p - 1
      <4>1. p <= j + 1
        BY <1>10, <3>3
      <4> QED
        BY <1>8, <1>11, <3>1, <4>1, SMTT(60)
    <3>5. wal[j].n < wal[p].n
      BY <1>3, <1>11, <3>1 DEF LogShape
    <3>6. wal[j].n = reader.seq
      BY <1>8, <1>11, <2>2, <3>1, <3>5, SMTT(60)
    <3>7. reader.at = After(wal[p - 1])
      BY <1>2, <1>3, <3>4, <3>6 DEF ReaderShape
    <3>8. p > 1 /\ wal[p].n = wal[p - 1].n + 1
      <4>1. p > 1
        BY <1>8, <1>11, <3>1, SMTT(60)
      <4> QED
        BY <2>2, <3>4, <3>6, <4>1
    <3>9. Extends(reader.at, wal[p])
      BY <1>3, <1>11, <3>7, <3>8 DEF LogShape
    <3>10. reader' = [at |-> After(wal[p]), seq |-> wal[p].n,
                      linked |-> reader.linked /\ Extends(reader.at, wal[p])]
      BY <1>12, <2>2
    <3>11. /\ reader'.at = After(wal[p]) /\ reader'.seq = wal[p].n
           /\ reader'.linked
      BY <1>3, <3>9, <3>10 DEF ReaderShape
    <3>12. ASSUME NEW i \in DOMAIN wal, wal[i].n = reader'.seq PROVE reader'.at = After(wal[i])
      <4>1. i = p
        BY <1>2, <1>3, <1>11, <3>11, <3>12, NumberFacts
      <4> QED
        BY <3>11, <4>1
    <3>13. reader'.seq < next
      BY <1>3, <1>11, <3>11 DEF LogShape
    <3> QED
      BY <1>1, <3>11, <3>12, <3>13 DEF ReaderShape
  <2> QED
    BY <2>1, <2>2
<1> QED
  BY <1>4, <1>5, <1>6, <1>7, <1>13 DEF StreamInv

\* An event leaves the store with the block it names as its tip.
LEMMA RollTip ==
  ASSUME TypeOK, ChainShape, EmptyStore, Roll
  PROVE  LastBlock' = Head(queue).b
<1> DEFINE e == Head(queue)
<1>1. Taken(e)
  BY RollFacts
<1> HIDE DEF e
<1>2. CASE e.k = "forward"
  <2>1. e.b \in Mined /\ parent[e.b] = LastBlock /\ ApplyBlock(e.b, Switch(e))
    BY <1>1, <1>2 DEF Taken
  <2>2. chain' = Append(chain, e.b)
    BY <2>1 DEF ApplyBlock
  <2>3. LastBlock' = e.b
    BY <2>1, <2>2, AppliedChain
  <2> QED
    BY <2>3 DEF e
<1>3. CASE e.k = "back"
  <2>1. e.b \in Range(chain) /\ Rollback(e.b, Switch(e))
    BY <1>1, <1>3 DEF Taken
  <2>2. chain' = SubSeq(chain, 1, height[e.b])
    BY <2>1 DEF Rollback
  <2>3. LastBlock' = e.b
    BY <2>1, <2>2, RolledChain
  <2> QED
    BY <2>3 DEF e
<1> QED
  BY <1>1, <1>2, <1>3 DEF Taken

\* The rest of the queue announces no lower tip either.
LEMMA RollQueue ==
  ASSUME WindowInv, QueueTips, Roll
  PROVE  QueueTips'
<1>1. TypeOK /\ ChainShape /\ EmptyStore
  BY DEF WindowInv
<1>2. Taken(Head(queue)) /\ pull' = pull
  BY <1>1, RollFacts DEF Roll
<1>3. DOMAIN queue' = 1..Len(queue) - 1 /\ \A i \in DOMAIN queue' : i + 1 \in DOMAIN queue /\ queue'[i] = queue[i + 1]
  BY <1>2 DEF Taken
<1>4. Len(queue) \in Nat
  BY <1>1, QueueFacts
<1>5. ASSUME NEW i \in DOMAIN queue', NEW j \in DOMAIN queue', i <= j PROVE queue'[i].tip <= queue'[j].tip
  <2>1. i + 1 <= j + 1
    BY <1>3, <1>4, <1>5, SMTT(60)
  <2>2. i + 1 \in DOMAIN queue /\ j + 1 \in DOMAIN queue /\ queue'[i] = queue[i + 1] /\ queue'[j] = queue[j + 1]
    BY <1>3
  <2>3. queue[i + 1].tip <= queue[j + 1].tip
    BY <2>1, <2>2 DEF QueueTips
  <2> QED
    BY <2>2, <2>3
<1>6. ASSUME NEW i \in DOMAIN queue' PROVE queue'[i].tip <= pull'.tip
  BY <1>2, <1>3 DEF QueueTips
<1> QED
  BY <1>5, <1>6 DEF QueueTips

\* An event that is logged while the numbers have no gap meets the block that the log
\* ends with.  If the stage was not near the tip, then either it took nothing since the
\* start that moved the tip, or all tips it is sent are Confs above the end of the log
\* and an event that is near one of them is above the end of the log, too.
LEMMA MeetsLog ==
  ASSUME WindowInv, NearTip, FarFromTip, Roll, Confs \in Nat, Switch(Head(queue)), wal # <<>>, NoGap
  PROVE  LogTip = LastBlock
<1> DEFINE e == Head(queue)
<1>1. TypeOK /\ ChainShape /\ EmptyStore
  BY DEF WindowInv
<1>2. Taken(e)
  BY <1>1, RollFacts
<1>3. /\ e \in Event /\ e.tip \in Nat /\ height[e.b] \in Nat /\ queue[1] = e /\ 1 \in DOMAIN queue
  BY <1>2 DEF Taken
<1>4. mutable \/ height[e.b] + Confs > e.tip
  BY <1>1, <1>3, SwitchFacts DEF TypeOK
<1>5. LogTip \in Blocks
  BY <1>1, LastEntry, LogFacts DEF LogTip, TypeOK
<1>6. height[LogTip] \in Nat /\ LastBlock \in Blocks /\ height[LastBlock] \in Nat
  BY <1>1, <1>5, ChainFacts, HeightFacts
<1> HIDE DEF e
<1>7. height[e.b] <= height[LastBlock] + 1 /\ (e.k = "back" => height[e.b] <= height[LastBlock])
  <2>1. CASE e.k = "forward"
    <3>1. height[e.b] = height[LastBlock] + 1
      BY <1>2, <2>1, HeightFacts DEF Taken
    <3>2. e.k # "back"
      BY <2>1
    <3> QED
      BY <1>3, <1>6, <3>1, <3>2, SMTT(60)
  <2>2. CASE e.k = "back"
    <3>1. height[e.b] \in 1..Len(chain) /\ height[LastBlock] = Len(chain)
      BY <1>1, <1>2, <2>2, ChainFacts DEF Taken
    <3> QED
      BY <1>3, <1>6, <3>1, SMTT(60)
  <2> QED
    BY <1>2, <2>1, <2>2 DEF Taken
<1>8. CASE mutable
  BY <1>8 DEF NearTip
<1>9. CASE ~ mutable
  <2>1. CASE LastBlock = LogTip
    BY <2>1
  <2>2. CASE Deep /\ height[LastBlock] < height[LogTip]
    <3>1. height[LogTip] + Confs <= e.tip
      BY <1>3, <2>2 DEF Deep
    <3>2. height[LastBlock] < height[LogTip] /\ height[e.b] + Confs > e.tip
      BY <1>4, <1>9, <2>2
    <3> QED
      BY <1>3, <1>6, <1>7, <3>1, <3>2, SMTT(60)
  <2> QED
    BY <1>9, <2>1, <2>2 DEF FarFromTip
<1> QED
  BY <1>8, <1>9

\* Entries that are numbered from next on and follow each other, the first one the end of
\* the log if there is no gap, keep the log in shape when a first part of it is deleted.
LEMMA AppendedLog ==
  ASSUME TypeOK, LogShape, ReaderShape, reader' = reader,
         NEW c \in Nat \ {0}, NEW m \in Nat, NEW k \in Nat, m + k = Len(wal),
         wal' \in Seq(LogEntry), Len(wal') = m + c,
         \A i \in 1..m : wal'[i] = wal[k + i],
         \A i \in 1..c : wal'[m + i].n = next + i - 1,
         next' = next + c,
         wal # <<>> /\ NoGap => Extends(LogTip, wal'[m + 1]),
         \A i \in 2..c : Extends(After(wal'[m + i - 1]), wal'[m + i])
  PROVE  LogShape' /\ ReaderShape' /\ wal' # <<>> /\ Last(wal') = wal'[m + c] /\ NoGap'
<1>1. /\ DOMAIN wal = 1..m + k /\ next \in Nat
      /\ \A i \in DOMAIN wal : wal[i].n \in Nat /\ wal[i].n < next
  BY LogFacts DEF LogShape, TypeOK
<1>2. DOMAIN wal' = 1..m + c
  BY SMTT(60)
<1>3. /\ \A i \in 1..m + c : i \in 1..m \/ (i - m \in 1..c /\ m + (i - m) = i)
      /\ \A i \in 1..m : k + i \in 1..m + k
      /\ m + c \in 1..m + c /\ m + c # 0 /\ c \in 1..c
  BY SMTT(60)
<1>4. \A i \in 1..m : k + i \in DOMAIN wal /\ wal'[i] = wal[k + i] /\ wal'[i].n = wal[k + i].n
  BY <1>1, <1>3
<1>5. ASSUME NEW i \in 1..m + c, i \notin 1..m PROVE wal'[i].n = next + (i - m) - 1 /\ i - m \in 1..c
  <2>1. i - m \in 1..c /\ m + (i - m) = i
    BY <1>3, <1>5
  <2>2. wal'[m + (i - m)].n = next + (i - m) - 1
    BY <2>1
  <2> QED
    BY <2>1, <2>2
<1>6. \A i \in 1..m : wal'[i].n \in Nat /\ wal'[i].n < next
  BY <1>1, <1>4
<1>7. ASSUME NEW i \in DOMAIN wal', NEW j \in DOMAIN wal', i < j PROVE wal'[i].n < wal'[j].n
  <2>1. CASE j \in 1..m
    <3>1. i \in 1..m /\ k + i < k + j
      BY <1>2, <1>7, <2>1, SMTT(60)
    <3>2. wal[k + i].n < wal[k + j].n
      BY <1>4, <2>1, <3>1 DEF LogShape
    <3> QED
      BY <1>4, <2>1, <3>1, <3>2
  <2>2. CASE i \in 1..m /\ j \notin 1..m
    <3>1. wal'[i].n \in Nat /\ wal'[i].n < next /\ wal'[j].n = next + (j - m) - 1 /\ j - m \in 1..c
      BY <1>2, <1>5, <1>6, <2>2
    <3> QED
      BY <1>1, <3>1, SMTT(60)
  <2>3. CASE i \notin 1..m /\ j \notin 1..m
    <3>1. /\ wal'[i].n = next + (i - m) - 1 /\ i - m \in 1..c
          /\ wal'[j].n = next + (j - m) - 1 /\ j - m \in 1..c
      BY <1>2, <1>5, <2>3
    <3>2. next + (i - m) - 1 < next + (j - m) - 1
      BY <1>1, <1>2, <1>7, SMTT(60)
    <3> QED
      BY <3>1, <3>2
  <2>4. i \notin 1..m => j \notin 1..m
    BY <1>2, <1>7, SMTT(60)
  <2> QED
    BY <2>1, <2>2, <2>3, <2>4
<1>8. ASSUME NEW i \in DOMAIN wal' PROVE wal'[i].n < next'
  <2>1. CASE i \in 1..m
    <3>1. wal'[i].n \in Nat /\ wal'[i].n < next
      BY <1>6, <2>1
    <3> QED
      BY <1>1, <3>1, SMTT(60)
  <2>2. CASE i \notin 1..m
    <3>1. wal'[i].n = next + (i - m) - 1 /\ i - m \in 1..c
      BY <1>2, <1>5, <2>2
    <3> QED
      BY <1>1, <3>1, SMTT(60)
  <2> QED
    BY <2>1, <2>2
<1>9. ASSUME NEW i \in DOMAIN wal', i > 1, wal'[i].n = wal'[i - 1].n + 1
      PROVE  Extends(After(wal'[i - 1]), wal'[i])
  <2>1. CASE i \in 1..m
    <3>1. i - 1 \in 1..m /\ k + i > 1 /\ (k + i) - 1 = k + (i - 1)
      BY <1>9, <2>1, SMTT(60)
    <3>2. wal'[i] = wal[k + i] /\ wal'[i - 1] = wal[(k + i) - 1] /\ k + i \in DOMAIN wal
      BY <1>4, <2>1, <3>1
    <3>3. wal[k + i].n = wal[(k + i) - 1].n + 1
      BY <1>9, <3>2
    <3>4. Extends(After(wal[(k + i) - 1]), wal[k + i])
      BY <3>1, <3>2, <3>3 DEF LogShape
    <3> QED
      BY <3>2, <3>4
  <2>2. CASE i = m + 1
    <3>1. i - 1 \in 1..m /\ k + (i - 1) = Len(wal) /\ Len(wal) \in Nat /\ Len(wal) # 0 /\ 1 \in 1..c /\ next + 1 - 1 = next
      BY <1>1, <1>9, <2>2, SMTT(60)
    <3>2. wal # <<>> /\ wal'[i - 1] = Last(wal)
      BY <1>4, <3>1, EmptyLen DEF Last
    <3>3. wal'[i].n = next
      BY <2>2, <3>1
    <3>4. NoGap
      BY <1>9, <3>2, <3>3 DEF NoGap
    <3> QED
      BY <2>2, <3>2, <3>4 DEF LogTip
  <2>3. CASE i \notin 1..m /\ i # m + 1
    <3>1. i - m \in 2..c /\ m + (i - m) = i /\ m + (i - m) - 1 = i - 1
      BY <1>2, <2>3, SMTT(60)
    <3>2. Extends(After(wal'[m + (i - m) - 1]), wal'[m + (i - m)])
      BY <3>1
    <3> QED
      BY <3>1, <3>2
  <2> QED
    BY <2>1, <2>2, <2>3
<1>10. LogShape'
  BY <1>7, <1>8, <1>9 DEF LogShape
<1>11. wal' # <<>> /\ Last(wal') = wal'[m + c]
  BY <1>3, EmptyLen DEF Last
<1>12. NoGap'
  <2>1. wal'[m + c].n = next + c - 1
    BY <1>3
  <2>2. next + c = (next + c - 1) + 1
    BY <1>1, SMTT(60)
  <2> QED
    BY <1>11, <2>1, <2>2 DEF NoGap
<1>13. ReaderShape'
  <2>1. reader.linked /\ reader.seq < next /\ reader.seq \in Nat
    BY DEF ReaderShape, TypeOK
  <2>2. reader.seq < next'
    BY <1>1, <2>1, SMTT(60)
  <2>3. ASSUME reader.seq # 0, NEW i \in DOMAIN wal', wal'[i].n = reader.seq
        PROVE  reader.at = After(wal'[i])
    <3>1. CASE i \in 1..m
      <4>1. k + i \in DOMAIN wal /\ wal'[i] = wal[k + i] /\ wal[k + i].n = reader.seq
        BY <1>4, <2>3, <3>1
      <4> QED
        BY <2>3, <4>1 DEF ReaderShape
    <3>2. CASE i \notin 1..m
      <4>1. wal'[i].n = next + (i - m) - 1 /\ i - m \in 1..c
        BY <1>2, <1>5, <3>2
      <4>2. FALSE
        BY <1>1, <2>1, <2>3, <4>1, SMTT(60)
      <4> QED
        BY <4>2
    <3> QED
      BY <3>1, <3>2
  <2> QED
    BY <2>1, <2>2, <2>3 DEF ReaderShape
<1> QED
  BY <1>10, <1>11, <1>12, <1>13

\* A block that is logged.
LEMMA StreamApplied ==
  ASSUME WindowInv, LogShape, NearTip, FarFromTip, ReaderShape, Roll, Confs \in Nat,
         Switch(Head(queue)), Head(queue).k = "forward"
  PROVE  LogShape' /\ ReaderShape' /\ wal' # <<>> /\ NoGap' /\ LogTip' = Head(queue).b
<1> DEFINE e == Head(queue)
<1>1. TypeOK /\ ChainShape /\ EmptyStore
  BY DEF WindowInv
<1>2. Taken(e) /\ reader' = reader
  BY <1>1, RollFacts DEF Roll
<1>3. wal # <<>> /\ NoGap => LogTip = LastBlock
  BY MeetsLog
<1> HIDE DEF e
<1>4. /\ e.b \in Mined /\ parent[e.b] = LastBlock /\ ApplyBlock(e.b, TRUE) /\ next' = next + 1
  BY <1>2 DEF Taken, ApplyBlock, e
<1>5. PICK k \in 0..Len(wal) : AppliedShape(e.b, k)
  BY <1>1, <1>4, AppliedLog
<1> DEFINE m == Len(wal) - k
<1>6. /\ wal' \in Seq(LogEntry) /\ Len(wal') = m + 1
      /\ \A i \in 1..m : wal'[i] = wal[k + i]
      /\ wal'[m + 1] = Entry(next, "apply", e.b)
  BY <1>5 DEF AppliedShape
<1>7. wal'[m + 1].n = next /\ wal'[m + 1].k = "apply" /\ wal'[m + 1].b = e.b
  <2> HIDE DEF m
  <2> QED
    BY <1>6, SMTT(60) DEF Entry
<1>8. /\ m \in Nat /\ k \in Nat /\ m + k = Len(wal) /\ 1 \in Nat \ {0} /\ 2..1 = {}
      /\ \A i \in 1..1 : i = 1
  <2>1. Len(wal) \in Nat
    BY <1>1, LogFacts
  <2> QED
    BY <1>5, <2>1, SMTT(60)
<1>9. next = next + 1 - 1
  BY <1>1, SMTT(60) DEF TypeOK
<1> HIDE DEF m
<1>10. wal # <<>> /\ NoGap => Extends(LogTip, wal'[m + 1])
  BY <1>3, <1>4, <1>7 DEF Extends
<1>11. \A i \in 1..1 : wal'[m + i].n = next + i - 1
  BY <1>7, <1>8, <1>9
<1>12. \A i \in 2..1 : Extends(After(wal'[m + i - 1]), wal'[m + i])
  BY <1>8
<1>13. LogShape' /\ ReaderShape' /\ wal' # <<>> /\ Last(wal') = wal'[m + 1] /\ NoGap'
  BY <1>1, <1>2, <1>4, <1>6, <1>8, <1>10, <1>11, <1>12, AppendedLog
<1>14. LogTip' = e.b
  BY <1>7, <1>13 DEF LogTip, After
<1> QED
  BY <1>13, <1>14 DEF e

\* A rollback that is logged.
LEMMA StreamUndone ==
  ASSUME WindowInv, LogShape, NearTip, FarFromTip, ReaderShape, Roll, Confs \in Nat,
         Switch(Head(queue)), Head(queue).k = "back"
  PROVE  LogShape' /\ ReaderShape' /\ wal' # <<>> /\ NoGap' /\ LogTip' = Head(queue).b
<1> DEFINE e == Head(queue)
<1>1. TypeOK /\ ChainShape /\ EmptyStore
  BY DEF WindowInv
<1>2. Taken(e) /\ reader' = reader
  BY <1>1, RollFacts DEF Roll
<1>3. wal # <<>> /\ NoGap => LogTip = LastBlock
  BY MeetsLog
<1> HIDE DEF e
<1>4. e.b \in Range(chain) /\ Rollback(e.b, TRUE)
  BY <1>2 DEF Taken, Rollback, e
<1> DEFINE n == Len(wal)
           len == Len(chain)
           h == height[e.b]
           u == len - h
<1>5. RolledShape(e.b, u)
  BY <1>1, <1>4, RolledLog
<1>6. /\ u \in Nat /\ wal' \in Seq(LogEntry) /\ Len(wal') = n + u + 1
      /\ \A i \in 1..n : wal'[i] = wal[i]
      /\ \A i \in 1..u : wal'[n + i] = Entry(next + i - 1, "undo", chain[len - i + 1])
      /\ wal'[n + u + 1] = Entry(next + u, "mark", e.b)
      /\ next' = next + u + 1
  BY <1>5 DEF RolledShape
<1>7. /\ len \in Nat /\ DOMAIN chain = 1..len /\ h \in 1..len /\ chain[h] = e.b
      /\ n \in Nat /\ next \in Nat /\ (chain # <<>> => LastBlock = chain[len])
  BY <1>1, <1>4, ChainFacts, LogFacts DEF TypeOK
<1>8. len # 0 /\ LastBlock = chain[len]
  <2>1. len # 0
    BY <1>7, SMTT(60)
  <2> QED
    BY <1>7, <2>1, EmptyLen
<1> HIDE DEF n, len, h, u
<1>9. wal'[n + u + 1].n = next + u /\ wal'[n + u + 1].k = "mark" /\ wal'[n + u + 1].b = e.b
  BY <1>6, SMTT(60) DEF Entry
<1>10. ASSUME NEW i \in 1..u
       PROVE  /\ wal'[n + i].n = next + i - 1 /\ wal'[n + i].k = "undo"
              /\ wal'[n + i].b = chain[len - i + 1]
  <2>1. wal'[n + i] = Entry(next + i - 1, "undo", chain[len - i + 1])
    BY <1>6
  <2> QED
    BY <2>1, SMTT(60) DEF Entry
<1>11. /\ n + u + 1 = n + (u + 1) /\ next + u = next + (u + 1) - 1 /\ next + u + 1 = next + (u + 1)
       /\ u + 1 \in Nat \ {0} /\ 0 \in Nat /\ n + 0 = n
       /\ \A i \in 1..u + 1 : i \in 1..u \/ i = u + 1
       /\ \A i \in 1..n : 0 + i = i
  BY <1>6, <1>7, SMTT(60)
<1>12. \A i \in 1..u + 1 : wal'[n + i].n = next + i - 1
  BY <1>9, <1>10, <1>11
<1>13. wal # <<>> /\ NoGap => Extends(LogTip, wal'[n + 1])
  <2>1. wal'[n + 1].b = LastBlock /\ wal'[n + 1].k # "apply"
    <3>1. CASE u = 0
      <4>1. n + u + 1 = n + 1 /\ h = len
        BY <1>6, <1>7, <3>1, SMTT(60) DEF u
      <4> QED
        BY <1>7, <1>8, <1>9, <4>1
    <3>2. CASE u # 0
      <4>1. 1 \in 1..u /\ len - 1 + 1 = len
        BY <1>6, <1>7, <3>2, SMTT(60)
      <4> QED
        BY <1>8, <1>10, <4>1
    <3> QED
      BY <3>1, <3>2
  <2> QED
    BY <1>3, <2>1 DEF Extends
<1>14. ASSUME NEW i \in 2..u + 1 PROVE Extends(After(wal'[n + i - 1]), wal'[n + i])
  <2>1. /\ i - 1 \in 1..u /\ n + i - 1 = n + (i - 1)
        /\ len - (i - 1) + 1 \in 1..len /\ len - (i - 1) + 1 # 1
        /\ (len - (i - 1) + 1) - 1 = len - i + 1 /\ i \in 1..u + 1
    BY <1>6, <1>7, SMTT(60) DEF u
  <2>2. wal'[n + i - 1].k = "undo" /\ wal'[n + i - 1].b = chain[len - (i - 1) + 1]
    BY <1>10, <2>1
  <2>3. parent[chain[len - (i - 1) + 1]] = chain[len - i + 1]
    <3>1. parent[chain[len - (i - 1) + 1]] = chain[(len - (i - 1) + 1) - 1]
      BY <1>1, <1>7, <2>1 DEF ChainShape
    <3> QED
      BY <2>1, <3>1
  <2>4. After(wal'[n + i - 1]) = chain[len - i + 1]
    BY <2>2, <2>3 DEF After
  <2>5. wal'[n + i].b = chain[len - i + 1] /\ wal'[n + i].k # "apply"
    <3>1. CASE i \in 1..u
      BY <1>10, <3>1
    <3>2. CASE i = u + 1
      <4>1. len - i + 1 = h
        BY <1>6, <1>7, <3>2, SMTT(60) DEF u
      <4> QED
        BY <1>7, <1>9, <1>11, <3>2, <4>1
    <3> QED
      BY <1>11, <2>1, <3>1, <3>2
  <2> QED
    BY <2>4, <2>5 DEF Extends
<1>15. LogShape' /\ ReaderShape' /\ wal' # <<>> /\ Last(wal') = wal'[n + (u + 1)] /\ NoGap'
  <2>1. /\ n + 0 = Len(wal) /\ Len(wal') = n + (u + 1) /\ next' = next + (u + 1)
        /\ \A i \in 1..n : wal'[i] = wal[0 + i]
    <3>1. n + 0 = Len(wal)
      BY <1>11 DEF n
    <3>2. Len(wal') = n + (u + 1) /\ next' = next + (u + 1)
      BY <1>6, <1>11
    <3>3. ASSUME NEW i \in 1..n PROVE wal'[i] = wal[0 + i]
      <4>1. wal'[i] = wal[i] /\ 0 + i = i
        BY <1>6, <1>11
      <4> QED
        BY <4>1
    <3> QED
      BY <3>1, <3>2, <3>3
  <2> QED
    BY <1>1, <1>2, <1>6, <1>7, <1>11, <1>12, <1>13, <1>14, <2>1, AppendedLog
<1>16. LogTip' = e.b
  BY <1>9, <1>11, <1>15 DEF LogTip, After
<1> QED
  BY <1>15, <1>16 DEF e

\* An event that is not logged: it is far below the tip that it was sent with.
LEMMA StreamUnlogged ==
  ASSUME WindowInv, QueueTips, LogShape, FarFromTip, ReaderShape, Roll, Confs \in Nat,
         ~ Switch(Head(queue))
  PROVE  LogShape' /\ ReaderShape' /\ FarFromTip'
<1> DEFINE e == Head(queue)
<1>1. TypeOK /\ ChainShape /\ EmptyStore
  BY DEF WindowInv
<1>2. Taken(e) /\ reader' = reader /\ pull' = pull
  BY <1>1, RollFacts DEF Roll
<1>3. /\ e.tip \in Nat /\ e.b \in Blocks /\ height[e.b] \in Nat /\ e \in Event
      /\ queue # <<>> /\ queue[1] = e /\ 1 \in DOMAIN queue
      /\ \A i \in DOMAIN queue' : i + 1 \in DOMAIN queue /\ queue'[i] = queue[i + 1]
      /\ mutable' = Switch(e)
  BY <1>2 DEF Taken
<1>4. ~ mutable /\ ~ (height[e.b] + Confs > e.tip)
  BY <1>1, <1>3, SwitchFacts DEF TypeOK
<1>5. LastBlock' = e.b
  BY <1>1, RollTip
<1>6. wal' = wal /\ next' = (IF e.k = "forward" THEN next + 1 ELSE next)
  BY <1>2 DEF Taken, ApplyBlock, Rollback, e
<1>7. next \in Nat /\ next' \in Nat /\ next <= next'
  BY <1>1, <1>6, SMTT(60) DEF TypeOK
<1>8. LogShape'
  <2>1. ASSUME NEW i \in DOMAIN wal PROVE wal[i].n < next'
    <3>1. wal[i].n \in Nat /\ wal[i].n < next
      BY <1>1, LogFacts DEF LogShape
    <3> QED
      BY <1>7, <3>1, SMTT(60)
  <2> QED
    BY <1>6, <2>1 DEF LogShape
<1>9. ReaderShape'
  <2>1. reader.seq < next'
    <3>1. reader.seq < next /\ reader.seq \in Nat
      BY <1>1 DEF ReaderShape, TypeOK
    <3> QED
      BY <1>7, <3>1, SMTT(60)
  <2> QED
    BY <1>2, <1>6, <2>1 DEF ReaderShape
<1> HIDE DEF e
<1>10. FarFromTip'
  <2> SUFFICES ASSUME wal # <<>>, NoGap'
               PROVE  Deep' /\ (e.b = LogTip \/ height[e.b] < height[LogTip])
    BY <1>5, <1>6 DEF FarFromTip, LogTip
  <2>1. Last(wal).n \in Nat /\ Last(wal).n < next /\ next' = Last(wal).n + 1
    BY <1>1, <1>6, LastEntry DEF LogShape, TypeOK, NoGap
  <2>2. e.k # "forward" /\ next' = next
    <3>1. e.k # "forward"
      BY <1>6, <1>7, <2>1, SMTT(60)
    <3> QED
      BY <1>6, <3>1
  <2>3. NoGap
    BY <2>1, <2>2 DEF NoGap
  <2>4. /\ e.k = "back" /\ e.b \in Range(chain)
    BY <1>2, <2>2 DEF Taken
  <2>5. /\ Len(chain) \in Nat /\ height[e.b] \in 1..Len(chain) /\ chain[height[e.b]] = e.b
        /\ height[LastBlock] = Len(chain) /\ (chain # <<>> => LastBlock = chain[Len(chain)])
    BY <1>1, <2>4, ChainFacts
  <2>6. e.b = LastBlock \/ height[e.b] < height[LastBlock]
    <3>1. height[e.b] = Len(chain) \/ height[e.b] < Len(chain)
      BY <2>5, SMTT(60)
    <3>2. Len(chain) # 0
      BY <2>5, SMTT(60)
    <3>3. chain # <<>>
      BY <3>2, EmptyLen
    <3> QED
      BY <2>5, <3>1, <3>3
  <2>7. LogTip \in Blocks /\ height[LogTip] \in Nat
    <3>1. LogTip \in Blocks
      BY <1>1, LastEntry, LogFacts DEF LogTip, TypeOK
    <3> QED
      BY <3>1, HeightFacts
  <2>8. LogTip' = LogTip
    BY <1>6 DEF LogTip
  <2>9. CASE LastBlock = LogTip /\ e.b = LastBlock
    <3>1. height[LogTip] + Confs <= e.tip
      BY <1>3, <1>4, <2>9, SMTT(60)
    <3>2. ASSUME NEW x \in Nat, e.tip <= x PROVE height[LogTip] + Confs <= x
      BY <1>3, <2>7, <3>1, <3>2, SMTT(60)
    <3>3. pull.tip \in Nat /\ e.tip <= pull.tip
      BY <1>1, <1>3 DEF QueueTips, TypeOK
    <3>4. ASSUME NEW i \in DOMAIN queue' PROVE queue'[i].tip \in Nat /\ e.tip <= queue'[i].tip
      <4>1. i + 1 \in DOMAIN queue /\ queue'[i] = queue[i + 1]
        BY <1>3
      <4>2. 1 <= i + 1
        <5>1. DOMAIN queue = 1..Len(queue) /\ Len(queue) \in Nat
          BY <1>1, QueueFacts
        <5> QED
          BY <4>1, <5>1, SMTT(60)
      <4>3. queue[i + 1].tip \in Nat
        BY <1>1, <4>1, QueueFacts
      <4> QED
        BY <1>3, <4>1, <4>2, <4>3 DEF QueueTips
    <3>5. Deep'
      BY <1>2, <2>8, <3>2, <3>3, <3>4 DEF Deep
    <3> QED
      BY <2>9, <3>5
  <2>10. CASE Deep /\ (LastBlock = LogTip \/ height[LastBlock] < height[LogTip])
    <3>1. Deep'
      BY <1>2, <1>3, <2>8, <2>10 DEF Deep
    <3>2. e.b = LogTip \/ height[e.b] < height[LogTip]
      <4>1. CASE LastBlock = LogTip
        BY <2>6, <4>1
      <4>2. CASE height[LastBlock] < height[LogTip]
        <5>1. height[e.b] <= height[LastBlock] /\ height[LastBlock] \in Nat
          BY <2>5, SMTT(60)
        <5>2. height[e.b] < height[LogTip]
          BY <1>3, <2>7, <4>2, <5>1, SMTT(60)
        <5> QED
          BY <5>2
      <4> QED
        BY <2>10, <4>1, <4>2
    <3> QED
      BY <3>1, <3>2
  <2>11. LastBlock = LogTip => e.b = LastBlock \/ Deep
    BY <1>3, <1>4, <2>3, <2>4 DEF FarFromTip, e
  <2> QED
    BY <1>4, <2>3, <2>9, <2>10, <2>11 DEF FarFromTip
<1> QED
  BY <1>8, <1>9, <1>10

\* The roll stage keeps the invariant.
LEMMA StreamRoll ==
  ASSUME WindowInv, StreamInv, Roll, Confs \in Nat
  PROVE  StreamInv'
<1> DEFINE e == Head(queue)
<1>1. TypeOK /\ ChainShape /\ EmptyStore
  BY DEF WindowInv
<1>2. Taken(e) /\ reader' = reader
  BY <1>1, RollFacts DEF Roll
<1>5. QueueTips /\ LogShape /\ NearTip /\ FarFromTip /\ ReaderShape
  BY DEF StreamInv
<1>6. QueueTips'
  BY <1>5, RollQueue
<1>7. mutable' = Switch(e) /\ (e.k = "forward" \/ e.k = "back")
  BY <1>2 DEF Taken
<1>8. CASE Switch(e)
  <2>1. LogShape' /\ ReaderShape' /\ wal' # <<>> /\ NoGap' /\ LogTip' = e.b
    BY <1>5, <1>7, <1>8, StreamApplied, StreamUndone
  <2>2. LastBlock' = e.b
    BY <1>1, RollTip
  <2>3. NearTip'
    BY <2>1, <2>2 DEF NearTip
  <2>4. FarFromTip'
    BY <1>7, <1>8 DEF FarFromTip
  <2> QED
    BY <1>6, <2>1, <2>3, <2>4 DEF StreamInv
<1>9. CASE ~ Switch(e)
  <2>1. LogShape' /\ ReaderShape' /\ FarFromTip'
    BY <1>5, <1>9, StreamUnlogged
  <2>2. NearTip'
    BY <1>7, <1>9 DEF NearTip
  <2> QED
    BY <1>6, <2>1, <2>2 DEF StreamInv
<1> QED
  BY <1>8, <1>9

\* The invariant holds at first.
LEMMA StreamInit ==
  ASSUME Init
  PROVE  StreamInv
<1>1. /\ queue = <<>> /\ wal = <<>> /\ mutable = FALSE /\ next = 1 /\ chain = <<>>
      /\ reader.seq = 0 /\ reader.linked = TRUE
  BY DEF Init
<1>2. DOMAIN <<>> = {} /\ 0 < 1
  BY SMTT(60)
<1>4. QueueTips
  BY <1>1, <1>2 DEF QueueTips
<1>5. LogShape /\ NearTip /\ FarFromTip /\ ReaderShape
  BY <1>1, <1>2 DEF LogShape, NearTip, FarFromTip, ReaderShape
<1> QED
  BY <1>4, <1>5 DEF StreamInv

\* A step restarts the process, which is counted, or it does not.
LEMMA RestartCounted ==
  ASSUME TypeOK, [Next]_vars
  PROVE  \/ crashes' = crashes /\ ends' = ends
         \/ (Crash \/ GiveUp) /\ crashes' + ends' = crashes + ends + 1
<1>1. crashes \in Nat /\ ends \in Nat
  BY DEF TypeOK
<1>2. CASE Crash
  <2>1. crashes' = crashes + 1 /\ ends' = ends
    BY <1>2 DEF Crash
  <2>2. crashes' + ends' = crashes + ends + 1
    BY <1>1, <2>1, SMTT(60)
  <2> QED
    BY <1>2, <2>2
<1>3. CASE GiveUp
  <2>1. crashes' = crashes /\ ends' = ends + 1
    BY <1>3 DEF GiveUp
  <2>2. crashes' + ends' = crashes + ends + 1
    BY <1>1, <2>1, SMTT(60)
  <2> QED
    BY <1>3, <2>2
<1>4. CASE NodeAdvances \/ Schedule \/ Reconnect \/ Roll \/ Connect \/ Page \/ Stream \/ UNCHANGED vars
  BY <1>4 DEF NodeAdvances, Schedule, Reconnect, Roll, Connect, Page, Stream, vars, counters
<1> QED
  BY <1>2, <1>3, <1>4 DEF Next

\* Every step that loses no gap and lowers no tip keeps the invariant.
LEMMA StreamNext ==
  ASSUME WindowInv, StreamInv, [Next]_vars, Confs \in Nat, NoGapLost, NoLowerTip
  PROVE  StreamInv'
<1>1. CASE NodeAdvances
  BY <1>1, StreamFrame DEF NodeAdvances, store
<1>2. CASE Schedule
  BY <1>2, StreamSchedule
<1>3. CASE Reconnect
  BY <1>3, StreamReconnect
<1>4. CASE Roll
  BY <1>4, StreamRoll
<1>5. CASE Crash \/ GiveUp
  <2>1. Restart
    BY <1>5 DEF Crash, GiveUp
  <2>2. crashes \in Nat /\ ends \in Nat /\ (crashes' = crashes + 1 \/ ends' = ends + 1)
    BY <1>5 DEF Crash, GiveUp, WindowInv, TypeOK
  <2>3. crashes' # crashes \/ ends' # ends
    BY <2>2, SMTT(60)
  <2> QED
    BY <2>1, <2>3, StreamCrash DEF NoGapLost
<1>6. CASE Connect \/ Page
  BY <1>6, StreamConnect
<1>7. CASE Stream
  BY <1>7, StreamStream
<1>8. CASE UNCHANGED vars
  BY <1>8, StreamFrame DEF vars, store
<1> QED
  BY <1>1, <1>2, <1>3, <1>4, <1>5, <1>6, <1>7, <1>8 DEF Next

\* The invariant says what Followed does.
LEMMA StreamImplies ==
  ASSUME WindowInv, StreamInv
  PROVE  Followed
<1>1. TypeOK
  BY DEF WindowInv
<1>2. reader.linked
  BY DEF StreamInv, ReaderShape
<1>3. ASSUME mutable, reader.seq # 0, Pending = {}, NEW i \in DOMAIN wal, wal[i].n = reader.seq
      PROVE  reader.at = LastBlock
  <2>1. LogShape /\ NearTip /\ ReaderShape
    BY <1>3 DEF StreamInv
  <2>2. wal # <<>> /\ LogTip = LastBlock
    BY <1>3, <2>1 DEF NearTip
  <2>3. Last(wal) = wal[Len(wal)] /\ Len(wal) \in DOMAIN wal /\ DOMAIN wal = 1..Len(wal) /\ Len(wal) \in Nat
    BY <1>1, <2>2, LastEntry DEF TypeOK
  <2>4. i = Len(wal)
    <3>1. wal[i].n >= reader.seq
      BY <1>1, <1>3, SMTT(60) DEF TypeOK
    <3>2. ~ (i < Len(wal))
      BY <1>3, <2>3, <3>1 DEF Pending
    <3> QED
      BY <2>3, <3>2, SMTT(60)
  <2>5. reader.at = After(wal[i])
    BY <1>3, <2>1 DEF ReaderShape
  <2> QED
    BY <2>2, <2>3, <2>4, <2>5 DEF LogTip
<1> QED
  BY <1>2, <1>3 DEF Followed

\* Until the first restart a log means that the stage is near the tip.
LEMMA FirstStartInductive ==
  ASSUME WindowInv, FirstStart, [Next]_vars
  PROVE  FirstStart'
<1>1. crashes \in Nat /\ ends \in Nat
  BY DEF WindowInv, TypeOK
<1>2. CASE Roll
  <2>1. TypeOK /\ ChainShape /\ EmptyStore
    BY DEF WindowInv
  <2>2. Taken(Head(queue)) /\ crashes' = crashes /\ ends' = ends
    BY <1>2, <2>1, RollFacts DEF Roll, counters
  <2>3. mutable' = Switch(Head(queue)) /\ (mutable => mutable')
    BY <2>2 DEF Taken, Switch
  <2>4. ~ Switch(Head(queue)) => wal' = wal
    BY <2>2 DEF Taken, ApplyBlock, Rollback
  <2> QED
    BY <2>2, <2>3, <2>4 DEF FirstStart
<1>3. CASE Crash \/ GiveUp
  <2>1. crashes' = crashes + 1 \/ ends' = ends + 1
    BY <1>3 DEF Crash, GiveUp
  <2>2. crashes' # 0 \/ ends' # 0
    BY <1>1, <2>1, SMTT(60)
  <2> QED
    BY <2>2 DEF FirstStart
<1>4. CASE NodeAdvances \/ Schedule \/ Reconnect \/ Connect \/ Page \/ Stream \/ UNCHANGED vars
  <2>1. mutable' = mutable /\ wal' = wal /\ crashes' = crashes /\ ends' = ends
    BY <1>4 DEF NodeAdvances, Schedule, Reconnect, Connect, Page, Stream, vars, store, counters
  <2> QED
    BY <2>1 DEF FirstStart
<1> QED
  BY <1>2, <1>3, <1>4 DEF Next

\* The first restart loses no gap.
LEMMA FirstRestart ==
  ASSUME WindowInv, StreamInv, FirstStart, [Next]_vars, crashes' + ends' <= 1
  PROVE  NoGapLost
<1> SUFFICES ASSUME crashes' # crashes \/ ends' # ends, wal # <<>> PROVE NoGap
  BY DEF NoGapLost
<1>1. crashes \in Nat /\ ends \in Nat /\ crashes' + ends' = crashes + ends + 1
  BY RestartCounted DEF WindowInv, TypeOK
<1>2. crashes = 0 /\ ends = 0
  BY <1>1, SMTT(60)
<1> QED
  BY <1>2 DEF FirstStart, StreamInv, NearTip

\* A node that lists no branch above its active chain reports no lower tip than before.
LEMMA TipsRise ==
  ASSUME WindowInv, [Next]_vars, Strays = {}
  PROVE  NoLowerTip
<1>1. TypeOK /\ ChainShape /\ CursorShape /\ Tips /\ pull.tip \in Nat
  BY DEF WindowInv, TypeOK
<1>2. CASE pull' = pull
  <2>1. pull.tip <= pull.tip
    BY <1>1, SMTT(60)
  <2> QED
    BY <1>2, <2>1 DEF NoLowerTip
<1>3. CASE pull' \in Bootstrap
  <2>1. pull'.tip = height[node]
    BY <1>1, <1>3, BootstrapFacts
  <2>2. pull.tip <= height[node]
    BY <1>1 DEF Tips, Listed
  <2> QED
    BY <2>1, <2>2 DEF NoLowerTip
<1>4. CASE Schedule
  <2>1. PICK headers \in {Path(Intersect, node), Take(Path(Intersect, node), PageSize)} :
          pull' = [cursor |-> NextCursor(headers), tip |-> Forward(pull.tip, Last(headers)), init |-> TRUE]
    BY <1>4 DEF Schedule
  <2>2. Path(Intersect, node) # <<>>
    BY <1>4 DEF Schedule
  <2>3. HeadersShape(headers)
    BY <1>1, <2>2, HeadersFacts
  <2>4. pull.tip <= Forward(pull.tip, Last(headers))
    BY <1>1, <2>3, PlanTips
  <2>5. pull'.tip = Forward(pull.tip, Last(headers))
    BY <2>1
  <2> QED
    BY <2>4, <2>5 DEF NoLowerTip
<1> QED
  BY <1>2, <1>3, <1>4 DEF Next, NodeAdvances, Reconnect, Roll, Crash, GiveUp, Restart, Connect, Page, Stream, vars

\* What a reader is streamed from the log continues the chain it has, across pruning,
\* blocks that are not logged, lost peers, restarts and rollbacks, and near the tip a
\* reader that has streamed the whole log has the tip of the store; as long as the
\* process is not restarted while the numbers of the log have a gap at its end, which
\* the sequence number that is read back at the start would close, and the node does
\* not report a lower tip than before.
THEOREM StreamTheorem ==
  ASSUME Confs \in Nat
  PROVE  Spec /\ [][NoGapLost /\ NoLowerTip]_vars => []Followed
<1>1. Init => WindowInv /\ StreamInv
  BY WindowInit, StreamInit
<1>2. WindowInv /\ StreamInv /\ [Next]_vars /\ [NoGapLost /\ NoLowerTip]_vars => WindowInv' /\ StreamInv'
  <2> SUFFICES ASSUME WindowInv, StreamInv, [Next]_vars, [NoGapLost /\ NoLowerTip]_vars
               PROVE  WindowInv' /\ StreamInv'
    OBVIOUS
  <2>1. CASE NoGapLost /\ NoLowerTip
    BY <2>1, WindowNext, StreamNext
  <2>2. CASE UNCHANGED vars
    BY <2>2, WindowNext, StreamFrame DEF vars, store
  <2> QED
    BY <2>1, <2>2
<1>3. WindowInv /\ StreamInv => Followed
  BY StreamImplies
<1> QED
  BY <1>1, <1>2, <1>3, PTL DEF Spec

\* A reader can follow the stream until the process restarts a second time, if the node
\* lists no branch above its active chain: until the first restart the stage is near
\* the tip as soon as there is a log, so the numbers have no gap.
THEOREM OneRestartTheorem ==
  ASSUME Confs \in Nat, Strays = {}
  PROVE  Spec => []StreamFaithful
<1> DEFINE Inv == WindowInv /\ FirstStart /\ (crashes + ends <= 1 => StreamInv)
<1>1. Init => Inv
  <2>1. Init => FirstStart
    BY DEF Init, FirstStart
  <2> QED
    BY <2>1, WindowInit, StreamInit
<1>2. Inv /\ [Next]_vars => Inv'
  <2> SUFFICES ASSUME WindowInv, FirstStart, crashes + ends <= 1 => StreamInv, [Next]_vars
               PROVE  WindowInv' /\ FirstStart' /\ (crashes' + ends' <= 1 => StreamInv')
    OBVIOUS
  <2>1. WindowInv' /\ FirstStart'
    BY WindowNext, FirstStartInductive
  <2>2. ASSUME crashes' + ends' <= 1 PROVE StreamInv'
    <3>1. crashes \in Nat /\ ends \in Nat
      BY DEF WindowInv, TypeOK
    <3>2. (crashes' = crashes /\ ends' = ends) \/ crashes' + ends' = crashes + ends + 1
      BY RestartCounted DEF WindowInv
    <3>3. crashes + ends <= 1
      BY <2>2, <3>1, <3>2, SMTT(60)
    <3> QED
      BY <2>2, <3>3, FirstRestart, TipsRise, StreamNext
  <2> QED
    BY <2>1, <2>2
<1>3. Inv => StreamFaithful
  BY StreamImplies DEF StreamFaithful
<1> QED
  BY <1>1, <1>2, <1>3, PTL DEF Spec

=============================================================================
