--------------------------- MODULE BalanceHistory ---------------------------
(***************************************************************************)
(* The historical satoshi balance of an address                            *)
(* (api/addresses/historical_satoshi_balance_by_address.rs, and its wallet *)
(* wrapper).  The index keeps a pair only for the blocks that change the   *)
(* balance; the endpoint fills the gaps to list every block of a range.    *)
(* The range is given by heights or by timestamps, and a page ends with    *)
(* the height the next one starts at.                                      *)
(***************************************************************************)
EXTENDS Scanner

CONSTANTS
  Requests,   \* the first pages clients ask for, and whether they go on to the next page (follow)
  Balances,   \* balances a block may leave
  MaxTip      \* bound: highest block, which is below Top

VARIABLES
  history,  \* history[h]: the balance after block h if it changed it, else None
  answer    \* the last page, with what its request asked for when it was read

vars == <<history, answer>>

tip == Len(history)
table == {<<h>> : h \in {i \in DOMAIN history : history[i] # None}}

Smaller(a, b) == IF a < b THEN a ELSE b

\* Blocks a up to b (or b down to a) at one balance.
Up(a, b, balance) == [i \in 1..(b - a + 1) |-> <<a + i - 1, balance>>]
Down(b, a, balance) == [i \in 1..(b - a + 1) |-> <<b - i + 1, balance>>]

RECURSIVE Concat(_)
Concat(seqs) == IF seqs = <<>> THEN <<>> ELSE Head(seqs) \o Concat(Tail(seqs))

One(range, order, keys) == Execute(keys, [range |-> range, order |-> order, count |-> 1])

BalanceOf(found) == IF found = <<>> THEN 0 ELSE history[found[1][1]]

\* Mutant: the first change below the height, not the last.
FetchPreviousBalanceFirst(from) == BalanceOf(One(ReducerKeyRange(0, from), "asc", table))

\* The balance at the last change strictly below a height.
FetchPreviousBalance(from) == BalanceOf(One(ReducerKeyRange(0, from), "desc", table))

----------------------------------------------------------------------------
(***************************************************************************)
(* Block h has timestamp 10 * h: HeightByTimestamp has a pair for each     *)
(* block, at its timestamp.                                                *)
(***************************************************************************)
Time(h) == 10 * h
stamps == {<<Time(h)>> : h \in DOMAIN history}

BlockAt(found) == IF found = <<>> THEN None ELSE found[1][1] \div 10

\* The first block at or after a timestamp, and the last one at or before it.
AtOrAfter(time) == BlockAt(One(ReducerKeyRange(time, None), "asc", stamps))
AtOrBefore(time) == BlockAt(One(ReducerKeyRange(0, time + 1), "desc", stamps))

\* The first change below `to'.
HeightOf(found) == IF found = <<>> THEN None ELSE found[1][1]

FetchLowestHeight(req) ==
  HeightOf(One(ReducerKeyRange(0, IF req.heights \/ req.to = None THEN req.to
                                  ELSE AtOrBefore(req.to)),
               "asc", table))

----------------------------------------------------------------------------
(***************************************************************************)
(* complete_range: `count' is the page and one block more.                 *)
(***************************************************************************)
Bounded(from, to, count) == from + (IF to = None THEN count
                                    ELSE Smaller(IF to < from THEN 0 ELSE to - from, count))

Between(keys, Fill(_, _)) == Concat([i \in 1..Len(keys) - 1 |-> Fill(keys[i][1], keys[i + 1][1])])

CompleteRangeAsc(keys, from, to, count) ==
  LET Fill(a, b) == Up(a, b - 1, history[a])
      Rest(last) == Up(last, Smaller(Bounded(last, to, count), tip), history[last])
  IN IF keys = <<>>
     THEN Prefix(Up(from, Smaller(Bounded(from, to, count), tip), FetchPreviousBalance(from)), count)
     ELSE Prefix(Up(from, keys[1][1] - 1, FetchPreviousBalance(from))
                   \o Between(keys, Fill) \o Rest(keys[Len(keys)][1]), count)

CompleteRangeDesc(keys, from, to, count) ==
  LET Fill(a, b) == Down(a - 1, b, history[b])
      Lead(high) == CASE to = None -> Down(tip, high, history[high])
                      [] to # None /\ high < to -> Down(to, high, history[high])
                      [] to # None /\ high = to -> <<>>
      Rest(last) == Down(last - 1, from, FetchPreviousBalance(last))
  IN IF keys = <<>>
     THEN Prefix(Down(Bounded(from, to, count), from, FetchPreviousBalance(from)), count)
     ELSE Prefix(Lead(keys[1][1]) \o Between(keys, Fill) \o Rest(keys[Len(keys)][1]), count)

\* The blocks of the completed range are fetched by height, in order, and zipped with it: a
\* result is a height, a balance and the block whose timestamp it carries.
Zipped(filled, blocks) == [i \in 1..Smaller(Len(filled), Len(blocks)) |-> filled[i] \o blocks[i]]

BlocksBetween(a, b, order, count) ==
  Execute({<<h>> : h \in DOMAIN history},
          [range |-> ReducerKeyRange(Smaller(a, b), (a + b - Smaller(a, b)) + 1),
           order |-> order, count |-> count])

FetchTimestamps(filled, order) ==
  Zipped(filled, BlocksBetween(filled[1][1], filled[Len(filled)][1], order, Len(filled)))

----------------------------------------------------------------------------
Failed(kind) == [data |-> <<>>, next |-> None, error |-> kind]

\* The cursor moves the end of the range the page starts from.  It is also given to the parser
\* of the parameters, which starts the scan past the pair at the cursor.
Overridden(req, from, to, cursor) ==
  CASE cursor = None -> [from |-> from, to |-> to, ok |-> TRUE]
    [] cursor # None /\ req.order = "desc" ->
         [from |-> from, to |-> cursor, ok |-> (to # None => cursor <= to)]
    [] cursor # None /\ req.order = "asc" -> [from |-> cursor, to |-> to, ok |-> from <= cursor]

NextCursor(req, height, from, to) ==
  IF req.order = "asc" THEN (IF tip > height /\ (to # None => to > height) THEN height + 1 ELSE None)
                       ELSE (IF height > from THEN height - 1 ELSE None)

Cut(req, range, full) ==
  [data |-> Prefix(full, req.count), error |-> None,
   next |-> IF Len(full) > req.count
              THEN NextCursor(req, full[req.count][1], range.from, range.to) ELSE None]

Stamped(req, range, filled) ==
  IF filled = <<>> THEN Failed(None) ELSE Cut(req, range, FetchTimestamps(filled, req.order))

Completed(req, range, keys) ==
  IF req.order = "asc"
    THEN Stamped(req, range, CompleteRangeAsc(keys, range.from, range.to, req.count + 1))
    ELSE Stamped(req, range, CompleteRangeDesc(keys, range.from, range.to, req.count + 1))

Listing(req, range, p) ==
  IF p.error # None THEN Failed(p.error)
  ELSE Completed(req, range, Execute(table, [range |-> p.range, order |-> req.order,
                                             count |-> req.count + 1]))

Ranged(req, range, cursor) ==
  IF ~range.ok THEN Failed("malformed")
  ELSE Listing(req, range, Parse([req EXCEPT !.from = range.from, !.to = range.to],
                                 IF cursor = None THEN None ELSE <<cursor>>))

\* Heights are used as they are; a timestamp is resolved to a block, and so is the height of the
\* first change when it stands in for a missing timestamp.
Timed(req, from, to, cursor) ==
  IF from = None THEN Failed("internal")
  ELSE IF to # None /\ to <= from THEN Failed("malformed")
  ELSE Ranged(req, Overridden(req, from, to, cursor), cursor)

Resolved(req, start, cursor) ==
  IF start = None THEN Failed(None)
  ELSE IF req.heights THEN Ranged(req, Overridden(req, start, req.to, cursor), cursor)
  ELSE Timed(req, AtOrAfter(start), IF req.to = None THEN None ELSE AtOrBefore(req.to), cursor)

HistoricalSatoshiBalanceByAddress(req, cursor) ==
  IF ~req.heights /\ req.from = None /\ req.to = None THEN Failed("malformed")
  ELSE Resolved(req, IF req.from # None THEN req.from ELSE FetchLowestHeight(req), cursor)

----------------------------------------------------------------------------
(***************************************************************************)
(* What a page should say: the blocks of the range in order, from the      *)
(* cursor on, each with the balance after it.                              *)
(***************************************************************************)
BalanceAfter(h) ==
  LET changes == {i \in 1..h : history[i] # None}
  IN IF changes = {} THEN 0 ELSE history[CHOOSE i \in changes : \A j \in changes : j <= i]

Measure(req, h) == IF req.heights THEN h ELSE Time(h)

Asked(req) ==
  {h \in DOMAIN history :
     /\ req.to # None => Measure(req, h) <= req.to
     /\ IF req.from # None THEN Measure(req, h) >= req.from
        ELSE \E i \in 1..h : history[i] # None}

InOrder(req, order) ==
  [data |-> [i \in 1..Smaller(req.count, Len(order)) |->
               <<order[i][1], BalanceAfter(order[i][1]), order[i][1]>>],
   next |-> IF Len(order) > req.count THEN order[req.count + 1][1] ELSE None]

Expected(req, cursor) ==
  InOrder(req, Ordered({<<h>> : h \in {i \in Asked(req) :
                          cursor # None => IF req.order = "asc" THEN i >= cursor ELSE i <= cursor}},
                       req.order))

----------------------------------------------------------------------------
Init == history = <<>> /\ answer = None

\* Only a client that follows cursors still needs its last page.
Kept == IF answer # None /\ answer.req.follow THEN answer ELSE None

NewBlock ==
  /\ tip < MaxTip
  /\ \E change \in Balances \cup {None} : history' = Append(history, change)
  /\ answer' = Kept

Rollback ==
  /\ tip > 0
  /\ history' = SubSeq(history, 1, tip - 1)
  /\ answer' = Kept

Asks(req, cursor) ==
  answer' = [req |-> req, page |-> HistoricalSatoshiBalanceByAddress(req, cursor),
             first |-> (cursor = None), expected |-> Expected(req, cursor),
             live |-> (cursor # None => cursor <= tip)]

\* Nothing is lost by asking only before there is an answer: no page depends on the last one.
FirstPage ==
  /\ answer = None
  /\ \E req \in Requests : Asks(req, None)
  /\ UNCHANGED history

NextPage ==
  /\ answer # None /\ answer.req.follow
  /\ answer.page.next # None
  /\ Asks(answer.req, answer.page.next)
  /\ UNCHANGED history

Next == NewBlock \/ Rollback \/ FirstPage \/ NextPage

Spec == Init /\ [][Next]_vars

\* Whatever its balances, a page lists exactly the blocks it should list, in order, and the next
\* one starts where it ended.
Lists(page, expected) ==
  /\ Len(page.data) = Len(expected.data)
  /\ \A i \in DOMAIN page.data :
       page.data[i][1] = expected.data[i][1] /\ page.data[i][3] = expected.data[i][3]
  /\ page.next = expected.next

\* A first page lists exactly the blocks asked for that fit in it, each with the balance after that
\* block and the timestamp of that block, and its cursor is the first block left, if one is: filling
\* the gaps before, between and after the changes found by the scan neither skips a block nor
\* carries a balance over a change.  And following the cursors up or down skips and repeats no
\* block, also when blocks come and go between the pages, as long as the block of the cursor is
\* there.
HistoryExact ==
  answer # None /\ answer.page.error = None =>
    /\ answer.first =>
         answer.page.data = answer.expected.data /\ answer.page.next = answer.expected.next
    /\ answer.live => Lists(answer.page, answer.expected)
=============================================================================
