--------------------------- MODULE LedgerCloseData ---------------------------
(***************************************************************************)
(* What a closing ledger applies (herder/LedgerCloseData.h): a set of      *)
(* transactions, herder/TxSetFrame.cpp, and upgrades, herder/Upgrades.cpp. *)
(*                                                                         *)
(* Two transactions of a set may be from the same account; a set is        *)
(* ordered by hash when it travels, so here it is a set.                   *)
(***************************************************************************)
EXTENDS Transactions

SourcesOf(txs) == {tx.sourceAccount : tx \in txs}

\* SeqSorter among the transactions of one account; equal numbers may come in
\* any order, which makes no difference as the second is then invalid.
BySeqNum(txs, a) ==
    SetToSortSeq({tx \in txs : tx.sourceAccount = a}, LAMBDA x, y : x.seqNum < y.seqNum)

\* checkOrTrim for one account: the transactions that are valid one after the
\* other, and whether the account can pay all their fees.
checkAccount(l, txs, a) ==
    LET Check(acc, tx) ==
            IF checkTransactionValid(l, tx, acc.lastSeq)
            THEN [lastSeq |-> tx.seqNum, totFee |-> acc.totFee + tx.fee, valid |-> acc.valid \cup {tx}]
            ELSE acc
        res == FoldLeft(Check, [lastSeq |-> 0, totFee |-> 0, valid |-> {}], BySeqNum(txs, a))
    IN [valid |-> res.valid,
        pays  |-> res.valid = {} \/ getAvailableBalance(l, a, NATIVE) >= res.totFee]

trimInvalid(l, txs) ==
    UNION {LET res == checkAccount(l, txs, a) IN IF res.pays THEN res.valid ELSE {} :
              a \in SourcesOf(txs)}

checkTxSetValid(l, txs) ==
    /\ Cardinality(txs) =< l.header.maxTxSetSize
    /\ \A a \in SourcesOf(txs) :
           LET res == checkAccount(l, txs, a)
           IN res.valid = {tx \in txs : tx.sourceAccount = a} /\ res.pays

\* sortForApply: the i-th transactions of all accounts before the (i+1)-th
\* ones, in an order that depends on hashes; here any such order.
Batch(txs, tx) == Cardinality({o \in txs : /\ o.sourceAccount = tx.sourceAccount
                                           /\ o.seqNum < tx.seqNum})

sortForApply(txs) ==
    {order \in SetToSeqs(txs) :
        \A i, j \in DOMAIN order : i < j => Batch(txs, order[i]) =< Batch(txs, order[j])}
-----------------------------------------------------------------------------
(* surgePricingFilter: when a set is too large, the transactions of the      *)
(* accounts that pay the least go.                                           *)

\* The lowest ratio of fee and minimum fee among an account's transactions,
\* as a fraction.
accountFee(l, txs, a) ==
    LET ratio(tx) == [n |-> tx.fee, d |-> getMinFee(l, tx)]
    IN CHOOSE r \in {ratio(tx) : tx \in {t \in txs : t.sourceAccount = a}} :
           \A tx \in txs : tx.sourceAccount = a => ~Cheaper(ratio(tx), r)

\* SurgeSorter; accounts that pay the same are ordered by their id.
\* Mutant: an account's later transactions come first.
PaysMore_LaterFirst(l, txs, less, x, y) ==
    LET fx == accountFee(l, txs, x.sourceAccount)
        fy == accountFee(l, txs, y.sourceAccount)
    IN IF x.sourceAccount = y.sourceAccount THEN x.seqNum > y.seqNum
       ELSE Cheaper(fy, fx) \/ (~Cheaper(fx, fy) /\ <<x.sourceAccount, y.sourceAccount>> \in less)

PaysMore(l, txs, less, x, y) ==
    LET fx == accountFee(l, txs, x.sourceAccount)
        fy == accountFee(l, txs, y.sourceAccount)
    IN IF x.sourceAccount = y.sourceAccount THEN x.seqNum < y.seqNum
       ELSE Cheaper(fy, fx) \/ (~Cheaper(fx, fy) /\ <<x.sourceAccount, y.sourceAccount>> \in less)

surgePricingFilter(l, txs, less) ==
    LET sorted == SetToSortSeq(txs, LAMBDA x, y : PaysMore(l, txs, less, x, y))
    IN IF Cardinality(txs) =< l.header.maxTxSetSize THEN txs
       ELSE {sorted[i] : i \in 1 .. l.header.maxTxSetSize}
-----------------------------------------------------------------------------
(* Upgrades.  An upgrade is [type, value].  Offers carry liabilities from    *)
(* version 10 on, so the upgrade to version 10, and every raise of the       *)
(* reserve after it, brings offers and liabilities into a valid state        *)
(* (prepareLiabilities).                                                     *)

\* Upgrades::isValid without nomination: what a ballot may carry.
isUpgradeValid(l, upgrade, protocolVersion) ==
    CASE upgrade.type = "LEDGER_UPGRADE_VERSION" ->
           upgrade.value =< protocolVersion /\ upgrade.value > l.header.ledgerVersion
      [] upgrade.type \in {"LEDGER_UPGRADE_BASE_FEE", "LEDGER_UPGRADE_MAX_TX_SET_SIZE",
                           "LEDGER_UPGRADE_BASE_RESERVE"} -> upgrade.value # 0
-----------------------------------------------------------------------------
(* prepareLiabilities, step (1): the liabilities that the offers of an       *)
(* account add up to, with OVERFLOW for more than an int64.                  *)

OVERFLOW == INT64_MAX + 1

\* Once a sum has overflowed it stays so; liabilities are never negative.
addLiabilities(l, a, s, side) ==
    Least(OVERFLOW, OfferLiabilities(l, a, s)[side])

getAvailableBalanceExcludingLiabilities(l, a, s) ==
    CASE s = NATIVE -> l.account[a].balance - getMinBalance(l, l.account[a].numSubEntries)
      [] IsIssuer(a, s) -> INT64_MAX
      [] OTHER -> IF loadTrustLine(l, a, s) /\ isAuthorized(l, a, s)
                  THEN l.trustLine[<<a, s>>].balance ELSE 0

getAvailableLimitExcludingLiabilities(l, a, s) ==
    CASE s = NATIVE -> INT64_MAX - l.account[a].balance
      [] IsIssuer(a, s) -> INT64_MAX
      [] OTHER -> IF loadTrustLine(l, a, s) /\ isAuthorized(l, a, s)
                  THEN l.trustLine[<<a, s>>].limit - l.trustLine[<<a, s>>].balance ELSE 0

\* Step (2): every offer goes whose asset has excess liabilities.
shouldDeleteOffer(l, o) ==
    \/ addLiabilities(l, o.sellerID, o.selling, "selling")
         > getAvailableBalanceExcludingLiabilities(l, o.sellerID, o.selling)
    \/ addLiabilities(l, o.sellerID, o.buying, "buying")
         > getAvailableLimitExcludingLiabilities(l, o.sellerID, o.buying)

\* updateOffer: the amount that stays on offer, 0 for an erased offer.
updateOffer(l, o) ==
    IF shouldDeleteOffer(l, o) THEN 0
    ELSE adjustOffer(o.price, o.amount, INT64_MAX).numWheatReceived

\* Step (3): the liabilities of the assets of the offers that stay.  An entry
\* of which no offer stays keeps the liabilities it has.
\* Mutant: only the selling liabilities are set.
setLiabilities_SellingOnly(res, a, s) ==
    LET sold == addSellingLiabilities(res.l, a, s, OfferLiabilities(res.l, a, s).selling
                                                     - getSellingLiabilities(res.l, a, s))
    IN IF ~res.ok \/ IsIssuer(a, s) THEN res ELSE IF sold.ok THEN Applied(sold.l) ELSE Threw(res.l)

setLiabilities(res, a, s) ==
    LET l     == res.l
        liab  == OfferLiabilities(l, a, s)
        sold  == addSellingLiabilities(l, a, s, liab.selling - getSellingLiabilities(l, a, s))
        both  == addBuyingLiabilities(sold.l, a, s, liab.buying - getBuyingLiabilities(l, a, s))
    IN IF ~res.ok \/ IsIssuer(a, s) THEN res
       ELSE IF ~loadTrustLine(l, a, s) /\ s # NATIVE THEN Threw(l)
       ELSE IF sold.ok /\ both.ok THEN Applied(both.l) ELSE Threw(l)

\* One account of loadAllOffers.
prepareAccount(res, a) ==
    LET l       == res.l
        offers  == OffersOf(l, a)
        amount  == [id \in offers |-> updateOffer(l, l.offer[id])]
        gone    == {id \in offers : amount[id] = 0}
        stay    == offers \ gone
        updated == [l EXCEPT !.offer = [id \in DOMAIN @ \ gone |->
                               IF id \in stay THEN [@[id] EXCEPT !.amount = amount[id]]
                               ELSE @[id]]]
        counted == addNumEntries(updated, a, -Cardinality(gone)).l
        assets  == {l.offer[id].buying : id \in stay} \cup {l.offer[id].selling : id \in stay}
    IN IF ~res.ok THEN res
       ELSE IF a \notin DOMAIN l.account THEN Threw(l)
       ELSE FoldSet(LAMBDA s, r : setLiabilities(r, a, s), Applied(counted), assets)

prepareLiabilities(l) ==
    FoldSet(LAMBDA a, res : prepareAccount(res, a), Applied(l),
            {l.offer[id].sellerID : id \in DOMAIN l.offer})
-----------------------------------------------------------------------------
(* Upgrades::applyTo: [ok, code, l], where not ok is an exception. *)

applyVersionUpgrade(l, newVersion) ==
    LET l1 == [l EXCEPT !.header.ledgerVersion = newVersion]
    IN IF newVersion >= 10 /\ ~Version10(l) THEN prepareLiabilities(l1) ELSE Applied(l1)

applyReserveUpgrade(l, newReserve) ==
    LET l1 == [l EXCEPT !.header.baseReserve = newReserve]
    IN IF Version10(l) /\ newReserve > l.header.baseReserve THEN prepareLiabilities(l1)
       ELSE Applied(l1)

applyTo(l, upgrade) ==
    CASE upgrade.type = "LEDGER_UPGRADE_VERSION" -> applyVersionUpgrade(l, upgrade.value)
      [] upgrade.type = "LEDGER_UPGRADE_BASE_FEE" ->
           Applied([l EXCEPT !.header.baseFee = upgrade.value])
      [] upgrade.type = "LEDGER_UPGRADE_MAX_TX_SET_SIZE" ->
           Applied([l EXCEPT !.header.maxTxSetSize = upgrade.value])
      [] upgrade.type = "LEDGER_UPGRADE_BASE_RESERVE" -> applyReserveUpgrade(l, upgrade.value)
=============================================================================
