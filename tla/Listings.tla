------------------------------ MODULE Listings ------------------------------
(***************************************************************************)
(* The listing endpoints of mapi-xbt (api/**.rs), each a function from a   *)
(* request and the tables of one snapshot to a page.  A table is a         *)
(* function from keys to values; only the fields that filters, sorts and   *)
(* cursors read are kept of a value:                                       *)
(*   - satoshi activity: the kind of the balance change;                   *)
(*   - rune and inscription activity: the set of assets transferred to     *)
(*     oneself, gained and lost;                                           *)
(*   - UTxOs: satoshis, the amount of each rune, the inscriptions, and     *)
(*     whether those inscriptions are all used or non-transfer BRC-20;     *)
(*   - buckets of TxsByInscription: the transaction indexes of the         *)
(*     inscription asked for, empty when the bucket holds only others.     *)
(* A result is the tuple of the fields it is sorted by, which identifies   *)
(* it.  An address or rune the store does not know has an empty table.     *)
(***************************************************************************)
EXTENDS Scanner

CONSTANTS
  MaxContentBodySize   \* MAX_CONTENT_BODY_SIZE

\* A request with no parameter but its page size.
Ask(api, count) ==
  [api |-> api, count |-> count, order |-> "asc", from |-> None, to |-> None, mempool |-> FALSE,
   kind |-> None, exclSelf |-> FALSE, asset |-> None, opReturn |-> FALSE, confs |-> 0,
   dust |-> 0, exclMeta |-> FALSE, ignoreUsed |-> FALSE, by |-> "height", height |-> 0]

Error(kind) == [data |-> <<>>, next |-> None, error |-> kind]

\* Every endpoint fetches one result more than the page holds, and returns the cursor of the
\* last result of the page when there is one.
Page(found, count) ==
  [data |-> Prefix(found, count),
   next |-> IF Len(found) > count THEN found[count] ELSE None, error |-> None]

ScanOf(req, p) == [range |-> p.range, order |-> req.order, count |-> req.count + 1]

\* Scan with a filter from the cursor on, then cut the page.
Filtered(req, p, keys, filtered, keep) ==
  IF p.error # None THEN Error(p.error)
  ELSE Page(ExecuteWithFilter(keys, ScanOf(req, p), filtered, keep), req.count)

----------------------------------------------------------------------------
(***************************************************************************)
(* Activity of an address.                                                 *)
(***************************************************************************)

\* `(tip + 1) - height' confirmations, at least as many as asked for.
TxsByAddress(req, cursor, table, tip) ==
  Filtered(req, Parse(req, cursor), DOMAIN table, req.confs > 0,
           {k \in DOMAIN table : (tip + 1) - k[1] >= req.confs})

IllFormed(req) == req.exclSelf /\ req.kind = "self"

SatKept(req, table) ==
  {k \in DOMAIN table : CASE req.kind # None -> table[k].kind = req.kind
                          [] req.kind = None /\ req.exclSelf -> table[k].kind # "self"
                          [] req.kind = None /\ ~req.exclSelf -> TRUE}

SatoshiActivityByAddress(req, cursor, table) ==
  IF IllFormed(req) THEN Error("malformed")
  ELSE Filtered(req, Parse(req, cursor), DOMAIN table, req.kind # None \/ req.exclSelf,
                SatKept(req, table))

\* The other listings of activity refuse the scripts that nobody can spend from.
WalletSatoshiActivityByAddress(req, cursor, table) ==
  IF req.opReturn THEN Error("malformed") ELSE SatoshiActivityByAddress(req, cursor, table)

\* Every rune or inscription activity comes with satoshi activity, which is what is paged.
WalletMetaprotocolActivityByAddress(req, cursor, table) ==
  IF req.opReturn THEN Error("malformed")
  ELSE Filtered(req, Parse(req, cursor), DOMAIN table, FALSE, DOMAIN table)

\* Mutant: self-transfers are excluded even when the address also gains or loses.
AssetKeptNoSelf(req, table) ==
  LET Of(assets) == IF req.asset = None THEN assets # {} ELSE req.asset \in assets IN
  {k \in DOMAIN table :
     CASE req.kind # None -> Of(table[k][req.kind])
       [] req.kind = None /\ req.exclSelf -> table[k].self = {}
       [] req.kind = None /\ ~req.exclSelf ->
            req.asset = None \/ req.asset \in table[k].self \cup table[k].gain \cup table[k].loss}

\* The filters on runes (or inscriptions), kinds of activity and self-transfers combine.
AssetKept(req, table) ==
  LET Of(assets) == IF req.asset = None THEN assets # {} ELSE req.asset \in assets IN
  {k \in DOMAIN table :
     CASE req.kind # None -> Of(table[k][req.kind])
       [] req.kind = None /\ req.exclSelf ->
            \/ Of(table[k].gain) \/ Of(table[k].loss)
            \/ req.asset = None /\ table[k].self = {}
       [] req.kind = None /\ ~req.exclSelf ->
            req.asset = None \/ req.asset \in table[k].self \cup table[k].gain \cup table[k].loss}

RuneActivityByAddress(req, cursor, table) ==
  IF req.opReturn \/ IllFormed(req) THEN Error("malformed")
  ELSE Filtered(req, Parse(req, cursor), DOMAIN table,
                req.kind # None \/ req.exclSelf \/ req.asset # None, AssetKept(req, table))

WalletRuneActivityByAddress(req, cursor, table) == RuneActivityByAddress(req, cursor, table)

InscriptionActivityByAddress(req, cursor, table) == RuneActivityByAddress(req, cursor, table)

WalletInscriptionActivityByAddress(req, cursor, table) ==
  RuneActivityByAddress(req, cursor, table)

\* The rune must have been etched.
ActivityByRune(req, cursor, table, etched) ==
  IF Parse(req, cursor).error = None /\ ~etched THEN Error("notfound")
  ELSE Filtered(req, Parse(req, cursor), DOMAIN table, FALSE, DOMAIN table)

----------------------------------------------------------------------------
(***************************************************************************)
(* UTxOs of an address or of a rune.                                       *)
(***************************************************************************)

\* Mutant: inscriptions are not looked at.
NonMetaprotocolRunesOnly(req, value) == DOMAIN value.runes = {}

\* get_non_metaprotocol_utxos keeps the UTxOs without runes and without inscriptions; deployed,
\* minted and spent BRC-20 inscriptions may be ignored.
NonMetaprotocol(req, value) ==
  /\ DOMAIN value.runes = {}
  /\ IF req.ignoreUsed THEN value.inscriptions \subseteq {"usedBrc20"}
                       ELSE value.inscriptions = {}

UtxoKept(req, table) ==
  {k \in DOMAIN table : /\ table[k].satoshis >= req.dust
                        /\ req.exclMeta => NonMetaprotocol(req, table[k])}

UtxosByAddress(req, cursor, table) ==
  Filtered(req, Parse(req, cursor), DOMAIN table, req.dust > 0 \/ req.exclMeta,
           UtxoKept(req, table))

MempoolUtxosByAddress(req, cursor, table) == UtxosByAddress(req, cursor, table)

UtxosByRune(req, cursor, table) ==
  Filtered(req, Parse(req, cursor), DOMAIN table, FALSE, DOMAIN table)

Holding(req, table) == {k \in DOMAIN table : req.asset \in DOMAIN table[k].runes}

After(order, cursor, rank) ==
  cursor # None => IF order = "asc" THEN Before(cursor, rank) ELSE Before(rank, cursor)

\* By height, the range starts after the cursor, so the unfolding's own comparison with it
\* drops nothing more.  By amount, the whole range is read, and what the cursor allows is sorted
\* by amount and UTxO (the height, which the UTxO determines, only completes the result).
ByAmount(req, cursor, table) ==
  LET Ranked(k) == <<table[k].runes[req.asset], k[2], k[1]>>
      unfold == [k \in DOMAIN table |->
                   IF k \in Holding(req, table) /\ After(req.order, cursor, Ranked(k))
                     THEN <<Ranked(k)>> ELSE <<>>]
      range  == ReducerKeyRange(req.from, IF req.to = None THEN None ELSE req.to + 1)
      scan   == [range |-> range, order |-> "asc", count |-> 0]
      found  == ExecuteWithMap(DOMAIN table, scan, unfold)
  IN Prefix(Ordered({found[i] : i \in DOMAIN found}, req.order), req.count + 1)

\* The cursor of one sort is refused by the other.
WrongCursor(req, cursor) ==
  cursor # None /\ Len(cursor) # (IF req.by = "amount" THEN 3 ELSE 2)

RuneUtxosByAddress(req, cursor, table) ==
  CASE req.count = 0 \/ req.count > MaxPageCount \/ WrongCursor(req, cursor) -> Error("malformed")
    [] req.count \in 1..MaxPageCount /\ ~WrongCursor(req, cursor) ->
         IF req.by = "amount" THEN Page(ByAmount(req, cursor, table), req.count)
         ELSE IF Parse(req, cursor).error # None THEN Error(Parse(req, cursor).error)
         ELSE Page(ExecuteWithMap(DOMAIN table, ScanOf(req, Parse(req, cursor)),
                     [k \in DOMAIN table |-> IF k \in Holding(req, table) THEN <<k>> ELSE <<>>]),
                   req.count)

RuneUtxosByAddressV2(req, cursor, table) ==
  CASE req.count = 0 \/ req.count > MaxPageCount \/ WrongCursor(req, cursor) -> Error("malformed")
    [] req.count \in 1..MaxPageCount /\ ~WrongCursor(req, cursor) ->
         IF req.by = "amount"
         THEN IF req.asset = None THEN Error("malformed")
              ELSE Page(ByAmount(req, cursor, table), req.count)
         ELSE Filtered(req, Parse(req, cursor), DOMAIN table, req.asset # None,
                       IF req.asset = None THEN DOMAIN table ELSE Holding(req, table))

MempoolRuneUtxosByAddress(req, cursor, table) == RuneUtxosByAddressV2(req, cursor, table)

\* Every inscription at the address is read; those after the cursor are sorted by identifier.
InscriptionsByAddress(req, cursor, table) ==
  LET found == Execute(DOMAIN table, [range |-> ReducerKeyRange(None, None),
                                      order |-> "asc", count |-> 0])
      after == {<<id>> : id \in {j \in UNION {table[found[i]].ids : i \in DOMAIN found} :
                                   cursor # None => cursor[1] < j}}
  IN IF req.count = 0 \/ req.count > MaxPageCount THEN Error("malformed")
     ELSE Page(Ordered(after, "asc"), req.count)

----------------------------------------------------------------------------
(***************************************************************************)
(* Listings by name: these scan upwards whatever the order parameter says. *)
(***************************************************************************)
Listed(req, cursor, table) ==
  Filtered([req EXCEPT !.order = "asc"], ParseNoHeight(req, cursor), DOMAIN table, FALSE,
           DOMAIN table)

ListRunes(req, cursor, table) == Listed(req, cursor, table)
ListBrc20s(req, cursor, table) == Listed(req, cursor, table)

HoldersByRune(req, cursor, table, etched) ==
  IF ParseNoHeight(req, cursor).error = None /\ ~etched THEN Error("notfound")
  ELSE Listed(req, cursor, table)

MempoolHoldersByRune(req, cursor, table, etched) == HoldersByRune(req, cursor, table, etched)
Brc20HoldersByTicker(req, cursor, table, deployed) == HoldersByRune(req, cursor, table, deployed)

\* With a ticker the cursor is an inscription, without one it is a ticker and an inscription.
Brc20TransferInscriptionsByAddress(req, cursor, table) ==
  LET sub   == [k \in {<<l[2]>> : l \in {m \in DOMAIN table : m[1] = req.asset}} |->
                  table[<<req.asset>> \o k]]
      keys  == IF req.asset = None THEN DOMAIN table ELSE DOMAIN sub
  IN Filtered(req, ParseNoHeight(req, cursor), keys, FALSE, keys)

----------------------------------------------------------------------------
(***************************************************************************)
(* Listings of the transactions of a block and of an inscription.          *)
(***************************************************************************)

\* The transactions of a block up to the cursor.
ToDrain(cursor) == IF cursor = None THEN 0 ELSE cursor[1] + 1

\* table[<<height>>] is the number of transactions of the block.
TxsByBlock(req, cursor, table) ==
  LET txs == [i \in 1..table[<<req.height>>] |-> <<i - 1>>]
  IN CASE <<req.height>> \notin DOMAIN table -> Error("notfound")
       [] <<req.height>> \in DOMAIN table ->
            IF ParseNoHeight(req, cursor).error # None
              THEN Error(ParseNoHeight(req, cursor).error)
            ELSE Page(SubSeq(txs, ToDrain(cursor) + 1, Len(txs)), req.count)

\* The cursor is the number of results before the page.
Offset(cursor) == IF cursor = None THEN 0 ELSE cursor[1]

OffsetPage(list, cursor, count) ==
  [data |-> Prefix(SubSeq(list, Offset(cursor) + 1, Len(list)), count), error |-> None,
   next |-> IF Offset(cursor) + count < Len(list) THEN <<Offset(cursor) + count>> ELSE None]

\* table[<<height>>] is the number of activities of the transaction asked for, of bytes of the
\* inscription, or of inscriptions of the collection.
Numbered(req, table) == [i \in 1..table[<<req.height>>] |-> <<i - 1>>]

\* split_off panics beyond the end of the list, which is not there for a transaction without
\* activity.
InscriptionActivityByTx(req, cursor, table) ==
  CASE <<req.height>> \notin DOMAIN table -> Error("notfound")
    [] <<req.height>> \in DOMAIN table ->
         IF req.count = 0 \/ req.count > MaxPageCount THEN Error("malformed")
         ELSE IF table[<<req.height>>] > 0 /\ Offset(cursor) > table[<<req.height>>]
              THEN Error("panic")
         ELSE OffsetPage(Numbered(req, table), cursor, req.count)

ContentByInscriptionId(req, cursor, table) ==
  CASE <<req.height>> \notin DOMAIN table -> Error("notfound")
    [] <<req.height>> \in DOMAIN table ->
         IF Offset(cursor) > table[<<req.height>>] \/ req.count > MaxContentBodySize
         THEN Error("malformed")
         ELSE OffsetPage(Numbered(req, table), cursor, req.count)

InscriptionsByCollectionSymbol(req, cursor, table) ==
  CASE req.count = 0 \/ req.count > MaxPageCount -> Error("malformed")
    [] req.count \in 1..MaxPageCount ->
         IF <<req.height>> \notin DOMAIN table THEN Page(<<>>, req.count)
         ELSE OffsetPage(Numbered(req, table), cursor, req.count)

\* table[<<height, transaction>>] is the number of activities of the transaction.  The scan is
\* limited to a page and one more result before those up to the cursor are skipped.
InscriptionActivityByBlock(req, cursor, table) ==
  LET keys   == {<<k[2]>> : k \in {l \in DOMAIN table : l[1] = req.height}}
      unfold == [k \in keys |-> [i \in 1..table[<<req.height>> \o k] |-> k \o <<i - 1>>]]
      scan   == [range |-> ReducerKeyRange(IF cursor = None THEN 0 ELSE cursor[1], None),
                 order |-> "asc", count |-> req.count + 1]
      found  == ExecuteWithMap(keys, scan, unfold)
      skip   == IF cursor = None THEN 0 ELSE cursor[2] + 1
  IN IF req.count = 0 \/ req.count > MaxPageCount THEN Error("malformed")
     ELSE Page(SubSeq(found, skip + 1, Len(found)), req.count)

\* Results of the cursor's block before it are skipped, whatever the order, and so are entries of
\* the coinbase.
Shown(height, tx, from) == ~(height = from[1] /\ tx < from[2]) /\ tx # 0

\* table[<<height>>] is the ascending sequence of the transaction indexes at which the
\* inscription moves in the block.  A page is made of a page of blocks and one more; the cursor
\* is the first result left out.
ActivityByInscription(req, cursor, table, born) ==
  LET from   == IF cursor = None THEN (IF req.order = "asc" THEN <<born, 0>> ELSE <<Top - 1, 0>>)
                ELSE cursor
      range  == IF req.order = "asc" THEN ReducerKeyRange(from[1], None)
                ELSE ReducerKeyRange(born, from[1] + 1)
      blocks == ExecuteWithFilter(DOMAIN table, [range |-> range, order |-> req.order,
                                                 count |-> req.count + 1],
                                  TRUE, {k \in DOMAIN table : table[k] # <<>>})
      InBlock(k) == LET txs == table[k]
                        seq == IF req.order = "asc" THEN txs
                               ELSE [i \in DOMAIN txs |-> txs[Len(txs) + 1 - i]]
                        Visible(t) == Shown(k[1], t, from)
                    IN LET shown == SelectSeq(seq, Visible)
                       IN [i \in DOMAIN shown |-> <<k[1], shown[i]>>]
      found  == Flattened(blocks, [k \in DOMAIN table |-> InBlock(k)])
  IN CASE req.count = 0 \/ req.count > MaxPageCount -> Error("malformed")
       [] req.count \in 1..MaxPageCount ->
            IF born = None THEN Error(None)
            ELSE [data |-> Prefix(found, req.count), error |-> None,
                  next |-> IF Len(found) > req.count THEN found[req.count + 1] ELSE None]
=============================================================================
