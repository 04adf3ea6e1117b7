---------------------------- MODULE LedgerTxnSQL ----------------------------
(***************************************************************************)
(* The four SQL tables that hold the ledger (src/src/ledger/LedgerTxn*SQL) *)
(* and the statements LedgerTxnRoot runs on them.  A database is a record  *)
(* of tables; a table is a function from primary keys to rows.  An entry   *)
(* is a record with its type, its key fields, one field or two of content  *)
(* (those some query looks at) and lastModifiedLedgerSeq.                  *)
(*                                                                         *)
(* Prices are <<n, d>>; the code compares the doubles n / d on both sides, *)
(* in SQL and in isBetterOffer.                                            *)
(***************************************************************************)
EXTENDS Integers, Sequences, FiniteSets, SequencesExt, FiniteSetsExt, Functions

CONSTANTS MIN_VOTES_TO_INCLUDE  \* 1000000000 stroops in the code

NoEntry == [type |-> "none"]
NULL == 0          \* a missing inflation destination; account ids start at 1

EmptyTables == [account |-> <<>>, trustline |-> <<>>, offer |-> <<>>, data |-> <<>>]

\* util/types.cpp LedgerEntryKey
LedgerEntryKey(e) ==
  CASE e.type = "account" -> [type |-> "account", id |-> e.id]
    [] e.type = "trustline" -> [type |-> "trustline", id |-> e.id, asset |-> e.asset]
    [] e.type = "offer" -> [type |-> "offer", id |-> e.id, offerID |-> e.offerID]
    [] e.type = "data" -> [type |-> "data", id |-> e.id, name |-> e.name]

Price(e) == e.price

isBetterOffer(lhs, rhs) ==
  LET l == Price(lhs)[1] * Price(rhs)[2]
      r == Price(rhs)[1] * Price(lhs)[2]
  IN \/ l < r
     \/ l = r /\ lhs.offerID < rhs.offerID

-----------------------------------------------------------------------------
(* Rows to entries: the columns of a SELECT, one per table.                *)

fromAccountRow(id, row) ==
  [type |-> "account", id |-> id, balance |-> row.balance,
   inflationDest |-> row.inflationdest, lastModified |-> row.lastmodified]

fromTrustLineRow(pk, row) ==
  [type |-> "trustline", id |-> pk[1], asset |-> pk[2], balance |-> row.balance,
   lastModified |-> row.lastmodified]

fromOfferRow(offerid, row) ==
  [type |-> "offer", id |-> row.sellerid, offerID |-> offerid,
   selling |-> row.sellingasset, buying |-> row.buyingasset,
   price |-> <<row.pricen, row.priced>>, lastModified |-> row.lastmodified]

fromDataRow(pk, row) ==
  [type |-> "data", id |-> pk[1], name |-> pk[2], value |-> row.datavalue,
   lastModified |-> row.lastmodified]

loadAccount(db, k) ==
  IF k.id \in DOMAIN db.account THEN fromAccountRow(k.id, db.account[k.id]) ELSE NoEntry

loadTrustLine(db, k) ==
  LET pk == <<k.id, k.asset>>
  IN IF pk \in DOMAIN db.trustline THEN fromTrustLineRow(pk, db.trustline[pk]) ELSE NoEntry

loadOffer(db, k) ==
  IF k.offerID \in DOMAIN db.offer /\ db.offer[k.offerID].sellerid = k.id
  THEN fromOfferRow(k.offerID, db.offer[k.offerID])
  ELSE NoEntry

loadData(db, k) ==
  LET pk == <<k.id, k.name>>
  IN IF pk \in DOMAIN db.data THEN fromDataRow(pk, db.data[pk]) ELSE NoEntry

\* The switch of LedgerTxnRoot::Impl::getNewestVersion.
loadEntry(db, k) ==
  CASE k.type = "account" -> loadAccount(db, k)
    [] k.type = "data" -> loadData(db, k)
    [] k.type = "offer" -> loadOffer(db, k)
    [] k.type = "trustline" -> loadTrustLine(db, k)

-----------------------------------------------------------------------------
(* Bulk loads, one statement per table: the rows whose primary key is one  *)
(* of the keys', turned into entries; populateLoadedEntries gives every    *)
(* key an answer.                                                          *)

populateLoadedEntries(keys, entries) ==
  [k \in keys |-> LET mine == {e \in entries : LedgerEntryKey(e) = k}
                  IN IF mine = {} THEN NoEntry ELSE CHOOSE e \in mine : TRUE]

bulkLoadAccounts(db, keys) ==
  LET ids == {k.id : k \in keys} \cap DOMAIN db.account
  IN populateLoadedEntries(keys, {fromAccountRow(i, db.account[i]) : i \in ids})

bulkLoadTrustLines(db, keys) ==
  LET pks == {<<k.id, k.asset>> : k \in keys} \cap DOMAIN db.trustline
  IN populateLoadedEntries(keys, {fromTrustLineRow(p, db.trustline[p]) : p \in pks})

\* mSellerIDsByOfferID keeps one seller for each offer id.
bulkLoadOffers(db, keys) ==
  LET ids == {k.offerID : k \in keys} \cap DOMAIN db.offer
      rows == {i \in ids : \E k \in keys : k.offerID = i /\ k.id = db.offer[i].sellerid}
  IN populateLoadedEntries(keys, {fromOfferRow(i, db.offer[i]) : i \in rows})

bulkLoadData(db, keys) ==
  LET pks == {<<k.id, k.name>> : k \in keys} \cap DOMAIN db.data
  IN populateLoadedEntries(keys, {fromDataRow(p, db.data[p]) : p \in pks})

-----------------------------------------------------------------------------
(* Queries over a whole table.                                             *)

loadAllOffers(db) == {fromOfferRow(i, db.offer[i]) : i \in DOMAIN db.offer}

loadOffersByAccountAndAsset(db, account, asset) ==
  {o \in loadAllOffers(db) : o.id = account /\ (o.selling = asset \/ o.buying = asset)}

\* ORDER BY price, offerid LIMIT numOffers OFFSET offset, appended to offers.
loadBestOffers(db, offers, buying, selling, numOffers, offset) ==
  LET book == {o \in loadAllOffers(db) : o.selling = selling /\ o.buying = buying}
      sorted == SetToSortSeq(book, isBetterOffer)
      last == Min({offset + numOffers, Len(sorted)})
  IN offers \o SubSeq(sorted, offset + 1, last)

MoreVotes(v, w) ==
  \/ v.votes > w.votes
  \/ v.votes = w.votes /\ v.id > w.id

\* A sequence of [id, votes]: GROUP BY inflationdest, ORDER BY votes DESC,
\* inflationdest DESC LIMIT maxWinners, then the rows from the first that has
\* fewer votes than minBalance on are dropped.
loadInflationWinners(db, maxWinners, minBalance) ==
  LET voters == {a \in DOMAIN db.account : /\ db.account[a].inflationdest # NULL
                                           /\ db.account[a].balance >= MIN_VOTES_TO_INCLUDE}
      dests == {db.account[a].inflationdest : a \in voters}
      votes(d) == MapThenSumSet(LAMBDA a : db.account[a].balance,
                                {a \in voters : db.account[a].inflationdest = d})
      sorted == SetToSortSeq({[id |-> d, votes |-> votes(d)] : d \in dests}, MoreVotes)
      rows == SubSeq(sorted, 1, Min({maxWinners, Len(sorted)}))
  IN SelectSeq(rows, LAMBDA w : w.votes >= minBalance)

tableFromLedgerEntryType(db, type) == db[type]

countObjects(db, type) == Cardinality(DOMAIN tableFromLedgerEntryType(db, type))

countObjectsIn(db, type, first, last) ==
  LET table == tableFromLedgerEntryType(db, type)
  IN Cardinality({pk \in DOMAIN table : table[pk].lastmodified \in first..last})

deleteObjectsModifiedOnOrAfterLedger(db, ledger) ==
  [type \in DOMAIN db |->
     LET table == tableFromLedgerEntryType(db, type)
     IN Restrict(table, {pk \in DOMAIN table : table[pk].lastmodified < ledger})]

dropTable(db, type) == [db EXCEPT ![type] = <<>>]

-----------------------------------------------------------------------------
(* Bulk writes.  INSERT ... ON CONFLICT DO UPDATE of a set of entries, and *)
(* DELETE of a set of keys, which reports whether it hit as many rows as   *)
(* there are keys.                                                         *)

Upsert(table, rows) == rows @@ table

accountRow(e) ==
  [balance |-> e.balance, inflationdest |-> e.inflationDest, lastmodified |-> e.lastModified]

trustLineRow(e) == [balance |-> e.balance, lastmodified |-> e.lastModified]

offerRow(e) ==
  [sellerid |-> e.id, sellingasset |-> e.selling, buyingasset |-> e.buying,
   pricen |-> e.price[1], priced |-> e.price[2], lastmodified |-> e.lastModified]

dataRow(e) == [datavalue |-> e.value, lastmodified |-> e.lastModified]

bulkUpsertAccounts(db, entries) ==
  LET row(i) == accountRow(CHOOSE e \in entries : e.id = i)
  IN [db EXCEPT !.account = Upsert(@, [i \in {e.id : e \in entries} |-> row(i)])]

bulkUpsertTrustLines(db, entries) ==
  LET row(p) == trustLineRow(CHOOSE e \in entries : <<e.id, e.asset>> = p)
  IN [db EXCEPT !.trustline = Upsert(@, [p \in {<<e.id, e.asset>> : e \in entries} |-> row(p)])]

bulkUpsertOffers(db, entries) ==
  LET row(i) == offerRow(CHOOSE e \in entries : e.offerID = i)
  IN [db EXCEPT !.offer = Upsert(@, [i \in {e.offerID : e \in entries} |-> row(i)])]

bulkUpsertAccountData(db, entries) ==
  LET row(p) == dataRow(CHOOSE e \in entries : <<e.id, e.name>> = p)
  IN [db EXCEPT !.data = Upsert(@, [p \in {<<e.id, e.name>> : e \in entries} |-> row(p)])]

Deleted(db, type, pks) == [db EXCEPT ![type] = Restrict(@, DOMAIN @ \ pks)]

\* The affected rows are as many as the keys, or extra deletes are allowed.
RowsMatch(db, type, pks, cons) == cons = "EXTRA_DELETES" \/ pks \subseteq DOMAIN db[type]

bulkDeleteAccounts(db, keys, cons) ==
  LET pks == {k.id : k \in keys}
  IN [db |-> Deleted(db, "account", pks), ok |-> RowsMatch(db, "account", pks, cons)]

bulkDeleteTrustLines(db, keys, cons) ==
  LET pks == {<<k.id, k.asset>> : k \in keys}
  IN [db |-> Deleted(db, "trustline", pks), ok |-> RowsMatch(db, "trustline", pks, cons)]

bulkDeleteOffers(db, keys, cons) ==
  LET pks == {k.offerID : k \in keys}
  IN [db |-> Deleted(db, "offer", pks), ok |-> RowsMatch(db, "offer", pks, cons)]

bulkDeleteAccountData(db, keys, cons) ==
  LET pks == {<<k.id, k.name>> : k \in keys}
  IN [db |-> Deleted(db, "data", pks), ok |-> RowsMatch(db, "data", pks, cons)]
=============================================================================
