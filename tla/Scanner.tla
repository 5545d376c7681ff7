------------------------------ MODULE Scanner ------------------------------
(***************************************************************************)
(* The range scanner every listing endpoint of mapi-xbt reads TiKV with    *)
(* (tikv/scanner.rs), and the key ranges the request parameters are parsed *)
(* into (util.rs).                                                         *)
(*                                                                         *)
(* A key is the tuple of the fields encoded after the reducer's prefix.    *)
(* The encodings keep the order of the fields, so that byte order is the   *)
(* lexicographic order of the tuples, and a tuple that is a prefix of      *)
(* another one comes before it.                                            *)
(***************************************************************************)
EXTENDS Integers, Sequences, FiniteSets

CONSTANTS
  KvScanBatchSize,  \* KV_SCAN_BATCH_SIZE
  MaxMessage,       \* the number of pairs that fit in an answer of TiKV
  MaxPageCount,     \* MAX_PAGE_COUNT
  Top,              \* greater than every field of a key
  None              \* an absent parameter or cursor

ASSUME ScannerAssumption ==
  /\ KvScanBatchSize \in Nat \ {0} /\ MaxMessage \in Nat \ {0}
  /\ MaxPageCount \in Nat \ {0} /\ Top \in Nat

RECURSIVE Before(_, _)
Before(a, b) ==
  /\ b # <<>>
  /\ \/ a = <<>>
     \/ a # <<>> /\ Head(a) < Head(b)
     \/ a # <<>> /\ Head(a) = Head(b) /\ Before(Tail(a), Tail(b))

InRange(range, key) == ~Before(key, range.from) /\ Before(key, range.to)

\* The keys of a set in the order of a scan.
RECURSIVE Ordered(_, _)
Ordered(keys, order) ==
  IF keys = {} THEN <<>>
  ELSE LET first == CHOOSE k \in keys : \A l \in keys \ {k} :
                      IF order = "asc" THEN Before(k, l) ELSE Before(l, k)
       IN <<first>> \o Ordered(keys \ {first}, order)

Prefix(seq, n) == SubSeq(seq, 1, IF n < Len(seq) THEN n ELSE Len(seq))

RECURSIVE Flattened(_, _)
Flattened(seq, unfold) ==
  IF seq = <<>> THEN <<>>
  ELSE unfold[Head(seq)] \o Flattened(Tail(seq), unfold)

----------------------------------------------------------------------------
(***************************************************************************)
(* The loop of execute_with_filter and of execute_with_map.  `table' is a  *)
(* function from keys to values, `unfold' gives the results a key          *)
(* contributes: itself or nothing for a filter, any sequence for a map.    *)
(* Count zero is no limit.  An answer that would be too large fails and    *)
(* the batch is halved; a short batch ends the scan.                       *)
(***************************************************************************)
Remaining(range, order, last) ==
  IF order = "asc" THEN [range EXCEPT !.from = Append(last, 0)]
                   ELSE [range EXCEPT !.to = last]

RECURSIVE ScanLoop(_, _, _, _, _, _)
ScanLoop(keys, unfold, scan, range, size, found) ==
  LET inside  == Ordered({k \in keys : InRange(range, k)}, scan.order)
      fetched == Prefix(inside, size)
      all     == found \o Flattened(fetched, unfold)
  IN CASE Len(fetched) > MaxMessage ->
            ScanLoop(keys, unfold, scan, range, size \div 2, found)
       [] fetched = <<>> -> found
       [] fetched # <<>> /\ Len(fetched) <= MaxMessage ->
            IF scan.count # 0 /\ Len(all) >= scan.count
              THEN Prefix(all, scan.count)
            ELSE IF Len(fetched) < size THEN all
            ELSE ScanLoop(keys, unfold, scan,
                   Remaining(range, scan.order, fetched[Len(fetched)]), size, all)

\* A scan without a filter asks for as many pairs as it returns.
ExecuteWithFilter(keys, scan, filtered, keep) ==
  ScanLoop(keys, [k \in keys |-> IF k \in keep THEN <<k>> ELSE <<>>], scan, scan.range,
           IF filtered \/ scan.count = 0 THEN KvScanBatchSize ELSE scan.count, <<>>)

Execute(keys, scan) == ExecuteWithFilter(keys, scan, FALSE, keys)

ExecuteWithMap(keys, scan, unfold) ==
  ScanLoop(keys, unfold, scan, scan.range, KvScanBatchSize, <<>>)

----------------------------------------------------------------------------
(***************************************************************************)
(* Request parameters.  `from' and `to' are heights, both inclusive; the   *)
(* cursor is the key of the last result of the page before.  A page count  *)
(* out of bounds, or a cursor outside the range, is refused.               *)
(***************************************************************************)
Refused == [error |-> "malformed"]

\* reducer_key_range
ReducerKeyRange(from, to) ==
  [from |-> IF from = None THEN <<>> ELSE <<from>>,
   to   |-> IF to = None THEN <<Top>> ELSE <<to>>]

ParseAux(req, range, cursor) ==
  IF req.count = 0 \/ req.count > MaxPageCount THEN Refused
  ELSE IF cursor # None /\ (Before(cursor, range.from) \/ Before(range.to, cursor))
    THEN Refused
  ELSE [error |-> None, order |-> req.order,
        range |-> IF cursor = None THEN range ELSE Remaining(range, req.order, cursor)]

Parse(req, cursor) ==
  ParseAux(req, ReducerKeyRange(req.from, IF req.to = None THEN None ELSE req.to + 1), cursor)

ParseNoHeight(req, cursor) == ParseAux(req, ReducerKeyRange(None, None), cursor)
=============================================================================
