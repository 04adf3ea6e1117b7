---------------------------- MODULE LedgerClose -----------------------------
(***************************************************************************)
(* Closing ledgers one after another: the transaction set that             *)
(* HerderImpl::triggerNextLedger proposes, and what                        *)
(* LedgerManagerImpl::closeLedger makes of it.  A closing ledger takes all *)
(* fees, applies the transactions one by one and then the upgrades; an     *)
(* exception of one transaction or upgrade undoes only that one.           *)
(***************************************************************************)
EXTENDS LedgerCloseData

CONSTANTS
    Propose(_, _, _),     \* how a node builds its proposal: proposedSets
    Close(_, _, _, _)     \* how a node closes a ledger: closeLedger

VARIABLES
    ledger,     \* the last closed ledger
    applied,    \* history: <<source, seqNum>> of every transaction applied
    outcome     \* of the last close: failed invariants and exceptions

vars == <<ledger, applied, outcome>>

\* HerderImpl::triggerNextLedger: what is proposed when "pending" was
\* received, in the orders in which it may be applied, and whether the set
\* passes the check of the other nodes.  "less" orders the account ids.
proposedSets(l, pending, less) ==
    LET txs   == surgePricingFilter(l, trimInvalid(l, pending), less)
        valid == checkTxSetValid(l, txs)
    IN {[valid |-> valid, txs |-> order] : order \in sortForApply(txs)}

processFeesSeqNums(l, txs) ==
    FoldLeft(LAMBDA res, tx : IF res.ok THEN processFeeSeqNum(res.l, tx) ELSE res,
             Applied(l), txs)

applyTransactions(l, txs) ==
    LET Apply(acc, tx) ==
            LET res == applyTransaction(acc.l, tx)
            IN [l       |-> res.l,
                applied |-> IF res.ok THEN Append(acc.applied, <<tx.sourceAccount, tx.seqNum>>)
                            ELSE acc.applied,
                broken  |-> acc.broken \cup res.broken,
                codes   |-> acc.codes \cup ({res.code} \ {""})]
    IN FoldLeft(Apply, [l |-> l, applied |-> <<>>, broken |-> {}, codes |-> {}], txs)

\* [l, codes]: an upgrade that throws is left out.
applyUpgrades(l, upgrades) ==
    LET Upgrade(acc, u) ==
            LET res == applyTo(acc.l, u)
            IN IF res.ok THEN [acc EXCEPT !.l = res.l]
               ELSE [acc EXCEPT !.codes = @ \cup {"UPGRADE_THROWN"}]
    IN FoldLeft(Upgrade, [l |-> l, codes |-> {}], upgrades)

\* An exception that ends the process before the ledger changes.
Thrown(l, code) == [l |-> l, applied |-> <<>>, broken |-> {}, codes |-> {code}]

\* The closed ledger, what was applied, and what went wrong.
closeLedger(l, txs, closeTime, upgrades) ==
    LET l0   == [l EXCEPT !.header.ledgerSeq = @ + 1, !.header.closeTime = closeTime]
        fees == processFeesSeqNums(l0, txs)
        done == applyTransactions(fees.l, txs)
        up   == applyUpgrades(done.l, upgrades)
    IN IF fees.ok
       THEN [l |-> up.l, applied |-> done.applied, broken |-> done.broken,
             codes |-> done.codes \cup up.codes]
       ELSE Thrown(l, "FATAL")
-----------------------------------------------------------------------------
\* A node proposes from what it received, and the network agrees on it: a set
\* the node itself finds invalid is not proposed ("wanting to emit an invalid
\* txSet").
CloseLedger(pending, less, closeTime, upgrades) ==
    \E p \in Propose(ledger, pending, less) :
        \E closed \in {IF p.valid THEN Close(ledger, p.txs, closeTime, upgrades)
                       ELSE Thrown(ledger, "INVALID_TXSET")} :
            /\ ledger' = closed.l
            /\ applied' = applied \o closed.applied
            /\ outcome' = [broken |-> closed.broken, codes |-> closed.codes]
-----------------------------------------------------------------------------
\* Invariants that a node checks at run time (invariant/*.cpp) never fail: an
\* operation that succeeds changes the liabilities of an account as its offers
\* change, counts its entries, conserves lumens and leaves valid entries, in
\* whatever order operations, fees and upgrades come.
InvariantsHold == outcome.broken = {}

\* Fees, operations that fail after having changed something, merges and
\* inflation included, the lumens of all accounts and the fee pool are always
\* the total coins of the header (the checks of ConservationOfLumens.cpp see
\* one operation at a time, and no fees).
LumensAreConserved == Balances(ledger) + ledger.header.feePool = ledger.header.totalCoins

\* From version 10 on, the buying and selling liabilities of every account and
\* trust line are those of the offers that its owner has in the book
\* (Upgrades.cpp: "Update liabilities to reflect offers remaining in the book"),
\* and the owner, who may hold both assets, has room and funds for all of them.
LiabilitiesAreOffers ==
    Version10(ledger) =>
        /\ \A a \in Account, s \in Asset :
               EntryLiabilities(ledger, a, s) = OfferLiabilities(ledger, a, s)
        /\ \A id \in DOMAIN ledger.offer :
               LET o == ledger.offer[id]
                   a == o.sellerID
               IN /\ a \in DOMAIN ledger.account
                  /\ \A s \in {o.buying, o.selling} :
                         s = NATIVE \/ (loadTrustLine(ledger, a, s) /\ isAuthorized(ledger, a, s))
                  /\ getMaxAmountReceive(ledger, a, o.buying) >= 0
                  /\ o.selling # NATIVE => getAvailableBalance(ledger, a, o.selling) >= 0

\* No transaction of an account is applied twice: not after the account was
\* merged and created again, and not after its number was bumped (the guard is
\* ACCOUNT_MERGE_SEQNUM_TOO_FAR of MergeOpFrame.cpp).
NoReplay == IsInjective(applied)

\* The exceptions that guard against inconsistent entries are unreachable, and
\* the set that a node proposes passes the check that other nodes make of it.
NoException == outcome.codes \cap {"THROWN", "UPGRADE_THROWN", "FATAL", "INVALID_TXSET"} = {}

\* A payment fails with one of the result codes of a payment
\* (PaymentOpFrame.cpp throws "Unexpected error code from pathPayment").
PaymentsHaveCodes == "UNEXPECTED_CODE" \notin outcome.codes
=============================================================================
