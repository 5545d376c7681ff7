------------------------------ MODULE MCPaging ------------------------------
(***************************************************************************)
(* Small tables and requests for Paging, one group per shape of table, and *)
(* for BalanceHistory, the listing that fills the gaps of its table.       *)
(***************************************************************************)
EXTENDS Paging, TLC

NoEntries == [k \in {} |-> 0]
NoPool(h) == {}

\* Tables that a block only adds to.
Shape(New(_), Pool(_), requests, top) ==
  [new |-> [h \in 1..top |-> New(h)] @@ << >>, pool |-> [h \in 1..top + 1 |-> Pool(h)] @@ << >>,
   spends |-> FALSE, reorgs |-> TRUE, requests |-> requests, tip |-> top]

Requested(apis, counts, orders) ==
  {[Ask(api, n) EXCEPT !.order = o] : api \in apis, n \in counts, o \in orders}

Orders == {"asc", "desc"}

----------------------------------------------------------------------------
\* Activity of an address.
Moved(kind, self, gain, loss) == [kind |-> kind, self |-> self, gain |-> gain, loss |-> loss]

ActivityEntries(h) ==
  {NoEntries,
   [k \in {<<h, 1>>, <<h, 2>>} |-> IF k[2] = 1 THEN Moved("gain", {}, {"r"}, {})
                                               ELSE Moved("self", {"r"}, {}, {"s"})],
   [k \in {<<h, 1>>, <<h, 2>>} |-> IF k[2] = 1 THEN Moved("self", {}, {}, {})
                                               ELSE Moved("loss", {"s"}, {}, {})]}

ActivityPool(h) == {[k \in {<<h, 1>>} |-> Moved("loss", {"r"}, {}, {"r"})]}

AssetApis == {"rune_activity_by_address", "inscription_activity_by_address"}

ActivityRequests ==
  UNION {
    Requested({"txs_by_address"}, {2}, Orders),
    {[Ask("txs_by_address", 1) EXCEPT !.confs = 2]},
    {[r EXCEPT !.from = 1, !.to = 2] : r \in Requested({"activity_by_rune"}, {1}, Orders)},
    {[r EXCEPT !.kind = "self"] : r \in Requested({"satoshi_activity_by_address"}, {1}, Orders)},
    {[Ask("satoshi_activity_by_address", 1) EXCEPT !.exclSelf = TRUE],
     [Ask("satoshi_activity_by_address", 1) EXCEPT !.exclSelf = TRUE, !.kind = "self"],
     [Ask("satoshi_activity_by_address", 1) EXCEPT !.opReturn = TRUE],
     [Ask("wallet_satoshi_activity", 1) EXCEPT !.opReturn = TRUE],
     [Ask("wallet_satoshi_activity", 1) EXCEPT !.mempool = TRUE, !.exclSelf = TRUE],
     [Ask("wallet_metaprotocol_activity", 2) EXCEPT !.mempool = TRUE, !.order = "desc"],
     Ask("txs_by_address", 0)},
    {[r EXCEPT !.exclSelf = TRUE] : r \in Requested(AssetApis, {1}, {"asc"})},
    {[Ask("rune_activity_by_address", 1) EXCEPT !.asset = "r", !.order = "desc", !.to = 2],
     [Ask("inscription_activity_by_address", 1) EXCEPT !.asset = "r", !.kind = "self"],
     [Ask("wallet_rune_activity", 1) EXCEPT !.mempool = TRUE, !.asset = "r", !.exclSelf = TRUE],
     [Ask("wallet_inscription_activity", 1) EXCEPT !.mempool = TRUE, !.kind = "loss",
                                                   !.order = "desc"]}}

----------------------------------------------------------------------------
\* UTxOs of an address: they are spent as well as made.
Coin(satoshis, runes, inscriptions, ids) ==
  [satoshis |-> satoshis, runes |-> runes, inscriptions |-> inscriptions, ids |-> ids]

\* Outpoints are unique, and not in the order of the heights.
Outpoint(h, i) == 2 * (4 - h) + i

UtxoEntries(h) ==
  {[k \in {<<h, Outpoint(h, 1)>>, <<h, Outpoint(h, 2)>>} |->
      IF k[2] = Outpoint(h, 1) THEN Coin(1, NoEntries, {}, {})
                               ELSE Coin(2, [r \in {"r"} |-> 3 - h], {}, {4 - h})],
   [k \in {<<h, Outpoint(h, 1)>>, <<h, Outpoint(h, 2)>>} |->
      IF k[2] = Outpoint(h, 1) THEN Coin(2, NoEntries, {"usedBrc20"}, {h})
                               ELSE Coin(2, [r \in {"r", "s"} |-> 1], {"plain"}, {8 - h, 4 + h})]}

UtxoPool(h) == {[k \in {<<h, Outpoint(h, 1)>>} |-> Coin(3, [r \in {"r"} |-> 1], {}, {})]}

Runic == {"rune_utxos_by_address", "rune_utxos_by_address_v2"}

UtxoRequests ==
  UNION {
    Requested({"utxos_by_address", "utxos_by_rune"}, {1}, Orders),
    {[Ask("utxos_by_address", 1) EXCEPT !.dust = 2],
     [Ask("utxos_by_address", 1) EXCEPT !.exclMeta = TRUE],
     [Ask("mempool_utxos_by_address", 1) EXCEPT !.mempool = TRUE, !.exclMeta = TRUE,
                                                !.ignoreUsed = TRUE, !.order = "desc"],
     [Ask("mempool_rune_utxos_by_address", 1) EXCEPT !.mempool = TRUE, !.by = "amount",
                                                     !.asset = "r"],
     [Ask("rune_utxos_by_address_v2", 1) EXCEPT !.by = "amount"],
     [Ask("rune_utxos_by_address_v2", 1) EXCEPT !.asset = "s", !.from = 2],
     Ask("inscriptions_by_address", 1), Ask("inscriptions_by_address", 2)},
    {[r EXCEPT !.asset = "r", !.by = "amount"] : r \in Requested(Runic, {1}, Orders)},
    {[r EXCEPT !.asset = "r", !.to = 2] : r \in Requested(Runic, {1}, Orders)}}

----------------------------------------------------------------------------
\* Runes, tickers, holders and transfer inscriptions.
NameEntries(h) == {[k \in {<<1, h>>, <<3 - h, 3>>} |-> 1], [k \in {<<2, 2>>} |-> 2]}

NamePool(h) == {[k \in {<<1, 4>>} |-> 1]}

NameRequests ==
  UNION {
    Requested({"list_runes", "list_brc20s", "holders_by_rune", "brc20_holders_by_ticker"}, {1, 2},
              {"asc"}),
    Requested({"brc20_transfer_inscriptions"}, {1, 2}, Orders),
    {[r EXCEPT !.asset = 1] : r \in Requested({"brc20_transfer_inscriptions"}, {1}, Orders)},
    {[Ask("mempool_holders_by_rune", 1) EXCEPT !.mempool = TRUE]}}

----------------------------------------------------------------------------
\* Transactions of a block and moves of an inscription.
BlockEntries(h) == {[k \in {<<h>>} |-> n] : n \in 1..4}
BlockRequests ==
  {[r EXCEPT !.height = h] : r \in Requested({"txs_by_block"}, {1, 2}, {"asc"}), h \in {1, 2}}

\* What is listed of a transaction, an inscription or a collection does not change.
ListEntries(h) == {NoEntries, [k \in {<<h>>} |-> 3]}
ListRequests ==
  {[r EXCEPT !.height = h] :
     r \in Requested({"inscription_activity_by_tx", "content_by_inscription_id",
                      "inscriptions_by_collection"}, {1, 2, 3}, {"asc"}), h \in {1, 2}}

\* Blocks of a page and at most one more activity: beyond that results are lost.
ActionEntries(h) == {[k \in {<<h, 1>>, <<h, 3>>} |-> IF k[2] = 1 THEN n ELSE 3 - n] : n \in {1, 2}}
ActionRequests ==
  {[r EXCEPT !.height = h] : r \in Requested({"inscription_activity_by_block"}, {2, 3}, {"asc"}),
                             h \in {1, 2}}

MoveEntries(h) ==
  {[k \in {<<h>>} |-> txs] : txs \in {<<>>, <<2>>, <<1, 3>>, <<0, 2>>}}
MoveRequests == Requested({"activity_by_inscription"}, {1, 2}, {"asc"})

----------------------------------------------------------------------------
\* The history of a balance.
CONSTANT HistoryTip
VARIABLES history, answer

Request(heights, count, order, from, to) ==
  [heights |-> heights, count |-> count, order |-> order, from |-> from, to |-> to, follow |-> FALSE]

\* Upwards, with a first height or none, or with a first timestamp; downwards from the tip.
FirstPages ==
  {Request(TRUE, n, order, None, None) : n \in {1, 3}, order \in Orders}
    \cup {Request(TRUE, r[1], "asc", r[2], r[3]) :
            r \in {q \in {1, 3} \X (1..HistoryTip) \X ({None} \cup 1..HistoryTip) :
                     q[3] = None \/ q[2] <= q[3]}}
    \cup {Request(FALSE, 2, "asc", 10 * from - 5, to) :
            from \in 1..HistoryTip, to \in {None, 10 * HistoryTip + 5}}

\* Page after page, both ways.
AllPages ==
  {[r EXCEPT !.follow = TRUE] :
     r \in {Request(TRUE, n, order, None, None) : n \in {1, 2}, order \in Orders}
             \cup {Request(TRUE, 1, "asc", 2, 3), Request(FALSE, 1, "asc", 5, 35)}}

History == INSTANCE BalanceHistory
             WITH Requests <- FirstPages \cup AllPages, Balances <- {0, 2}, MaxTip <- HistoryTip

\* A first page of the history lists exactly the blocks asked for, each with the balance after it
\* (complete_range of historical_satoshi_balance_by_address.rs fills the gaps), and following its
\* cursors skips and repeats no block, also when blocks come and go.
HistoryExact == History!HistoryExact

----------------------------------------------------------------------------
Tables ==
  [activity |-> Shape(ActivityEntries, ActivityPool, ActivityRequests, 3),
   utxos |-> [Shape(UtxoEntries, UtxoPool, UtxoRequests, 2) EXCEPT !.spends = TRUE],
   names |-> [Shape(NameEntries, NamePool, NameRequests, 2) EXCEPT !.spends = TRUE],
   blocks |-> Shape(BlockEntries, NoPool, BlockRequests, 2),
   lists |-> Shape(ListEntries, NoPool, ListRequests, 2),
   actions |-> [Shape(ActionEntries, NoPool, ActionRequests, 2) EXCEPT !.reorgs = FALSE],
   moves |-> [Shape(MoveEntries, NoPool, MoveRequests, 4) EXCEPT !.reorgs = FALSE],
   history |-> Shape(NoPool, NoPool, {}, 0)]

\* As a function: TLC evaluates its values once.
MCShapes == [name \in DOMAIN Tables |-> Tables[name]]

MCInit == Init /\ History!Init

MCNext ==
  \/ Next /\ UNCHANGED <<history, answer>>
  \/ shape = "history" /\ History!Next /\ UNCHANGED vars

MCSpec == MCInit /\ [][MCNext]_<<vars, history, answer>>
=============================================================================
