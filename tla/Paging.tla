------------------------------- MODULE Paging -------------------------------
(***************************************************************************)
(* A client that pages through a listing of mapi-xbt with the cursors it   *)
(* is given, while the index moves on: blocks are indexed and rolled back, *)
(* the mempool view is refreshed.  Each page is read from one snapshot     *)
(* (see SnapshotReads) that is consistent, but two pages of one listing    *)
(* are read from different ones.                                           *)
(***************************************************************************)
EXTENDS Listings

CONSTANTS
  Shapes   \* bounds: for each shape of table, the entries a block at a height may add (new, a
           \* set of functions from keys) and the ones the mempool blocks there may add (pool),
           \* whether a block may also remove entries (spends), whether blocks may be rolled
           \* back (reorgs), the listings clients ask for (requests) and the highest block (tip)

ASSUME PagingAssumption ==
  \A name \in DOMAIN Shapes :
    Shapes[name].tip \in Nat /\ {Shapes[name].spends, Shapes[name].reorgs} \subseteq BOOLEAN

VARIABLES
  shape,    \* the shape of the table of this behaviour
  past,     \* the table after each block of the chain, from before the first one
  pool,     \* the table seen with the mempool view, or None before a refresh
  session   \* the client

vars == <<shape, past, pool, session>>

Bounds == Shapes[shape]

tip == Len(past) - 1
chain == past[Len(past)]

Updated(table, gone, new) ==
  [k \in (DOMAIN table \ gone) \cup DOMAIN new |-> IF k \in DOMAIN new THEN new[k] ELSE table[k]]

Idle == [pc |-> "idle"]

Init ==
  /\ shape \in DOMAIN Shapes
  /\ past = <<[k \in {} |-> 0]>> /\ pool = None /\ session = Idle

Gone(table) == IF Bounds.spends THEN SUBSET DOMAIN table ELSE {{}}

NewBlock ==
  /\ tip < Bounds.tip
  /\ \E new \in Bounds.new[tip + 1], gone \in Gone(chain) :
       past' = Append(past, Updated(chain, gone, new))
  /\ pool' = None
  /\ UNCHANGED <<shape, session>>

Rollback ==
  /\ Bounds.reorgs /\ tip > 0
  /\ past' = SubSeq(past, 1, Len(past) - 1)
  /\ pool' = None
  /\ UNCHANGED <<shape, session>>

RefreshMempool ==
  /\ \E new \in Bounds.pool[tip + 1], gone \in Gone(chain) : pool' = Updated(chain, gone, new)
  /\ UNCHANGED <<shape, past, session>>

----------------------------------------------------------------------------
\* The table a request reads: with the mempool view if it asks for it and there is one.
Seen(req) == IF req.mempool /\ pool # None THEN pool ELSE chain

\* The height of the first activity of the inscription, as its content records it.
Born(table) ==
  IF DOMAIN table = {} THEN None
  ELSE LET moves == {k[1] : k \in {l \in DOMAIN table : table[l] # <<>>}}
       IN IF moves = {} THEN None ELSE CHOOSE h \in moves : \A i \in moves : h <= i

Answer(req, cursor, table) ==
  CASE req.api = "txs_by_address" -> TxsByAddress(req, cursor, table, tip)
    [] req.api = "satoshi_activity_by_address" -> SatoshiActivityByAddress(req, cursor, table)
    [] req.api = "wallet_satoshi_activity" -> WalletSatoshiActivityByAddress(req, cursor, table)
    [] req.api = "wallet_metaprotocol_activity" ->
         WalletMetaprotocolActivityByAddress(req, cursor, table)
    [] req.api = "rune_activity_by_address" -> RuneActivityByAddress(req, cursor, table)
    [] req.api = "wallet_rune_activity" -> WalletRuneActivityByAddress(req, cursor, table)
    [] req.api = "inscription_activity_by_address" ->
         InscriptionActivityByAddress(req, cursor, table)
    [] req.api = "wallet_inscription_activity" ->
         WalletInscriptionActivityByAddress(req, cursor, table)
    [] req.api = "activity_by_rune" -> ActivityByRune(req, cursor, table, DOMAIN table # {})
    [] req.api = "utxos_by_address" -> UtxosByAddress(req, cursor, table)
    [] req.api = "mempool_utxos_by_address" -> MempoolUtxosByAddress(req, cursor, table)
    [] req.api = "utxos_by_rune" -> UtxosByRune(req, cursor, table)
    [] req.api = "rune_utxos_by_address" -> RuneUtxosByAddress(req, cursor, table)
    [] req.api = "rune_utxos_by_address_v2" -> RuneUtxosByAddressV2(req, cursor, table)
    [] req.api = "mempool_rune_utxos_by_address" -> MempoolRuneUtxosByAddress(req, cursor, table)
    [] req.api = "inscriptions_by_address" -> InscriptionsByAddress(req, cursor, table)
    [] req.api = "list_runes" -> ListRunes(req, cursor, table)
    [] req.api = "list_brc20s" -> ListBrc20s(req, cursor, table)
    [] req.api = "holders_by_rune" -> HoldersByRune(req, cursor, table, DOMAIN table # {})
    [] req.api = "mempool_holders_by_rune" ->
         MempoolHoldersByRune(req, cursor, table, DOMAIN table # {})
    [] req.api = "brc20_holders_by_ticker" ->
         Brc20HoldersByTicker(req, cursor, table, DOMAIN table # {})
    [] req.api = "brc20_transfer_inscriptions" ->
         Brc20TransferInscriptionsByAddress(req, cursor, table)
    [] req.api = "txs_by_block" -> TxsByBlock(req, cursor, table)
    [] req.api = "inscription_activity_by_block" -> InscriptionActivityByBlock(req, cursor, table)
    [] req.api = "inscription_activity_by_tx" -> InscriptionActivityByTx(req, cursor, table)
    [] req.api = "content_by_inscription_id" -> ContentByInscriptionId(req, cursor, table)
    [] req.api = "inscriptions_by_collection" -> InscriptionsByCollectionSymbol(req, cursor, table)
    [] req.api = "activity_by_inscription" ->
         ActivityByInscription(req, cursor, table, Born(table))

----------------------------------------------------------------------------
(***************************************************************************)
(* What a request asks for, said without scans, batches and cursors: the   *)
(* results that match it, as a set.                                        *)
(***************************************************************************)
Within(req, height) ==
  (req.from # None => req.from <= height) /\ (req.to # None => height <= req.to)

\* Each single movement of a rune or an inscription in an entry.
Movements(value) == UNION {{kind} \X value[kind] : kind \in {"self", "gain", "loss"}}

Moves(req, value) ==
  {m \in Movements(value) : /\ req.kind # None => m[1] = req.kind
                            /\ req.exclSelf => m[1] # "self"
                            /\ req.asset # None => m[2] = req.asset}

Matches(req, table, k) ==
  CASE req.api = "txs_by_address" -> tip - k[1] + 1 >= req.confs
    [] req.api \in {"satoshi_activity_by_address", "wallet_satoshi_activity"} ->
         /\ req.kind # None => table[k].kind = req.kind
         /\ req.exclSelf => table[k].kind # "self"
    [] req.api \in {"rune_activity_by_address", "wallet_rune_activity",
                    "inscription_activity_by_address", "wallet_inscription_activity"} ->
         \/ Moves(req, table[k]) # {}
         \/ Movements(table[k]) = {} /\ req.kind = None /\ req.asset = None
    [] req.api \in {"utxos_by_address", "mempool_utxos_by_address"} ->
         /\ table[k].satoshis >= req.dust
         /\ req.exclMeta => /\ DOMAIN table[k].runes = {}
                            /\ "plain" \notin table[k].inscriptions
                            /\ "usedBrc20" \in table[k].inscriptions => req.ignoreUsed
    [] req.api \in {"rune_utxos_by_address", "rune_utxos_by_address_v2",
                    "mempool_rune_utxos_by_address"} ->
         req.asset # None \/ req.by = "amount" => req.asset \in DOMAIN table[k].runes
    [] OTHER -> TRUE

Wanted(req, table) ==
  CASE req.api = "inscriptions_by_address" ->
         {<<id>> : id \in UNION {table[k].ids : k \in DOMAIN table}}
    [] req.api \in {"txs_by_block", "inscription_activity_by_tx", "content_by_inscription_id",
                    "inscriptions_by_collection"} ->
         IF <<req.height>> \in DOMAIN table THEN {<<i>> : i \in 0..table[<<req.height>>] - 1}
         ELSE {}
    [] req.api = "inscription_activity_by_block" ->
         UNION {{<<k[2], i>> : i \in 0..table[k] - 1} :
                  k \in {l \in DOMAIN table : l[1] = req.height}}
    [] req.api = "activity_by_inscription" ->
         UNION {{<<k[1], table[k][i]>> : i \in DOMAIN table[k]} : k \in DOMAIN table}
           \ {<<k[1], 0>> : k \in DOMAIN table}
    [] req.api = "brc20_transfer_inscriptions" /\ req.asset # None ->
         {<<k[2]>> : k \in {l \in DOMAIN table : l[1] = req.asset}}
    [] OTHER ->
         {IF req.by = "amount" THEN <<table[k].runes[req.asset], k[2], k[1]>> ELSE k :
            k \in {l \in DOMAIN table : Within(req, l[1]) /\ Matches(req, table, l)}}

----------------------------------------------------------------------------
\* The client starts a listing.
Open ==
  /\ session.pc # "open"
  /\ \E req \in Bounds.requests :
       session' = [pc |-> "open", req |-> req, cursor |-> None, pages |-> 0, got |-> <<>>,
                   held |-> None, junk |-> {}, short |-> FALSE, error |-> None]
  /\ UNCHANGED <<shape, past, pool>>

\* One page: its results, and what was asked for and stayed in the index from page to page.
Turned(s, page, wanted) ==
  [s EXCEPT !.pc = IF page.error # None THEN "failed" ELSE IF page.next = None THEN "done" ELSE @,
            !.cursor = page.next,
            !.pages = @ + 1,
            !.got = @ \o page.data,
            !.held = IF s.pages = 0 THEN wanted ELSE @ \cap wanted,
            !.junk = @ \cup ({page.data[i] : i \in DOMAIN page.data} \ wanted),
            !.short = @ \/ (page.next # None /\ Len(page.data) # s.req.count),
            !.error = page.error]

Fetch ==
  /\ session.pc = "open"
  /\ \E page \in {Answer(session.req, session.cursor, Seen(session.req))} :
       session' = Turned(session, page, Wanted(session.req, Seen(session.req)))
  /\ UNCHANGED <<shape, past, pool>>

Next == NewBlock \/ Rollback \/ RefreshMempool \/ Open \/ Fetch

Spec == Init /\ [][Next]_vars

----------------------------------------------------------------------------
\* A listing that ends has returned every result that matched the request in each snapshot its
\* pages were read from, however the index changed in between: the look-ahead of a page, its
\* cursor, the range parsed from it and the batches of the scanner lose nothing.
PagesComplete ==
  session.pc = "done" => session.held \subseteq {session.got[i] : i \in DOMAIN session.got}

\* No page holds a result that does not match the request; results come in the order asked for
\* and none comes twice; a page that is followed by another one is full.  And a request that was
\* accepted once is accepted with each cursor it is answered with, unless what it asks about is
\* gone: the range check on cursors, the cursor types of the two sorts and the offsets into lists
\* never refuse a cursor of ours.
PagesSound ==
  session.pc # "idle" =>
    /\ session.pc = "failed" /\ session.pages > 1 => session.error = "notfound"
    /\ session.junk = {} /\ ~session.short
    /\ \A i \in 1..Len(session.got) - 1 :
         IF session.req.order = "asc" THEN Before(session.got[i], session.got[i + 1])
                                      ELSE Before(session.got[i + 1], session.got[i])
=============================================================================
