----------------------------- MODULE Invariants -----------------------------
(***************************************************************************)
(* The invariants that a node checks after every operation it applies      *)
(* without error: invariant/*.cpp, registered with InvariantManagerImpl.   *)
(* Each compares the ledger before the operation with the one after it;    *)
(* the entries of the LedgerTxnDelta are the ones that differ.             *)
(***************************************************************************)
EXTENDS Operations

\* The keys at which two maps of entries differ.
Changed(f, g) == {k \in DOMAIN f \cup DOMAIN g :
                     k \notin DOMAIN f \cap DOMAIN g \/ f[k] # g[k]}

Sum(S, f(_)) == MapThenSumSet(f, S)

\* What the entry of account a for asset s says of its offers, and what the
\* offers say; the issuer of an asset has no entry for it.
EntryLiabilities(l, a, s) ==
    LET e == IF s = NATIVE THEN l.account[a] ELSE l.trustLine[<<a, s>>]
    IN IF (s = NATIVE /\ a \in DOMAIN l.account) \/ <<a, s>> \in DOMAIN l.trustLine
       THEN [buying |-> e.buying, selling |-> e.selling] ELSE [buying |-> 0, selling |-> 0]

OfferLiabilities(l, a, s) ==
    LET on(side) == {id \in OffersOf(l, a) : l.offer[id][side] = s /\ ~IsIssuer(a, s)}
    IN [buying  |-> Sum(on("buying"), LAMBDA id : getOfferBuyingLiabilities(l.offer[id])),
        selling |-> Sum(on("selling"), LAMBDA id : getOfferSellingLiabilities(l.offer[id]))]

\* What accumulateLiabilities adds up for an account and an asset.
Excess(l, a, s) ==
    LET offers == OfferLiabilities(l, a, s)
        entry  == EntryLiabilities(l, a, s)
    IN <<offers.buying - entry.buying, offers.selling - entry.selling>>

checkAuthorized(line) == line.authorized \/ (line.buying = 0 /\ line.selling = 0)

\* An account is checked when it is new or paid something.  (The code means
\* to check it too when its liabilities grew, but compares the new ones with
\* themselves.)
shouldCheckAccount(before, after, a) ==
    a \notin DOMAIN before.account \/ after.account[a].balance < before.account[a].balance

checkBalanceAndLimit(before, after) ==
    LET v10 == Version10(after)
    IN /\ \A a \in Changed(before.account, after.account) \cap DOMAIN after.account :
              LET acc == after.account[a]
              IN shouldCheckAccount(before, after, a) =>
                     /\ acc.balance >= getMinBalance(after, acc.numSubEntries)
                                         + (IF v10 THEN acc.selling ELSE 0)
                     /\ v10 => INT64_MAX - acc.balance >= acc.buying
       /\ \A k \in Changed(before.trustLine, after.trustLine) \cap DOMAIN after.trustLine :
              LET line == after.trustLine[k]
              IN /\ line.balance >= (IF v10 THEN line.selling ELSE 0)
                 /\ line.limit - line.balance >= (IF v10 THEN line.buying ELSE 0)

\* LiabilitiesMatchOffers: the liabilities of the entries change as those of the
\* offers do.
LiabilitiesMatchOffers(before, after) ==
    /\ Version10(after) =>
         /\ \A k \in Changed(before.trustLine, after.trustLine) \cap DOMAIN after.trustLine :
                checkAuthorized(after.trustLine[k])
         /\ \A a \in Account, s \in Asset : Excess(after, a, s) = Excess(before, a, s)
    /\ checkBalanceAndLimit(before, after)
-----------------------------------------------------------------------------
(* AccountSubEntriesCountIsValid *)

NumSubEntries(l, a) == IF a \in DOMAIN l.account THEN l.account[a].numSubEntries ELSE 0

NumSigners(l, a) ==
    IF a \in DOMAIN l.account THEN Cardinality(DOMAIN l.account[a].signers) ELSE 0

\* The entries that belong to an account, signers included.
calculatedSubEntries(l, a) ==
    Cardinality({k \in DOMAIN l.trustLine : k[1] = a}) + Cardinality(OffersOf(l, a))
      + Cardinality({k \in l.data : k[1] = a}) + NumSigners(l, a)

\* The code's second check, that a deleted account had no entries but signers,
\* subtracts the deleted account's own counts and can never fail; the first
\* one catches that case.
AccountSubEntriesCountIsValid(before, after) ==
    \A a \in Account : NumSubEntries(after, a) - NumSubEntries(before, a)
                          = calculatedSubEntries(after, a) - calculatedSubEntries(before, a)
-----------------------------------------------------------------------------
(* ConservationOfLumens.  An inflation may mint: what it mints is paid out   *)
(* or goes to the fee pool.                                                  *)

Balances(l) == Sum(DOMAIN l.account, LAMBDA a : l.account[a].balance)

ConservationOfLumens(op, before, after) ==
    LET deltaTotalCoins == after.header.totalCoins - before.header.totalCoins
        deltaFeePool    == after.header.feePool - before.header.feePool
        deltaBalances   == Balances(after) - Balances(before)
    IN IF op.type = "INFLATION" THEN deltaTotalCoins = deltaBalances + deltaFeePool
       ELSE deltaTotalCoins = 0 /\ deltaFeePool = 0 /\ deltaBalances = 0
-----------------------------------------------------------------------------
(* LedgerEntryIsValid *)

AccountIsValid(l, acc) ==
    /\ acc.balance >= 0 /\ acc.seqNum >= 0 /\ acc.flags \subseteq AuthFlags
    /\ Version10(l) => \A k \in DOMAIN acc.signers : acc.signers[k] \in 1 .. UINT8_MAX

TrustLineIsValid(k, line) ==
    k[2] # NATIVE /\ line.balance >= 0 /\ line.limit > 0 /\ line.balance =< line.limit

OfferIsValid(o) == o.amount > 0 /\ o.price.n > 0 /\ o.price.d >= 1

LedgerEntryIsValid(before, after) ==
    /\ \A a \in Changed(before.account, after.account) \cap DOMAIN after.account :
           AccountIsValid(after, after.account[a])
    /\ \A k \in Changed(before.trustLine, after.trustLine) \cap DOMAIN after.trustLine :
           TrustLineIsValid(k, after.trustLine[k])
    /\ \A id \in Changed(before.offer, after.offer) \cap DOMAIN after.offer :
           OfferIsValid(after.offer[id])
-----------------------------------------------------------------------------
(* InvariantManagerImpl::checkOnOperationApply with all of them enabled: the *)
(* names of those that do not hold.                                          *)

checkOnOperationApply(op, before, after) ==
    {name \in {"LiabilitiesMatchOffers", "AccountSubEntriesCountIsValid",
               "ConservationOfLumens", "LedgerEntryIsValid"} :
        ~ CASE name = "LiabilitiesMatchOffers" -> LiabilitiesMatchOffers(before, after)
            [] name = "AccountSubEntriesCountIsValid" -> AccountSubEntriesCountIsValid(before, after)
            [] name = "ConservationOfLumens" -> ConservationOfLumens(op, before, after)
            [] name = "LedgerEntryIsValid" -> LedgerEntryIsValid(before, after)}
=============================================================================
