---------------------------- MODULE LedgerEntries ----------------------------
(***************************************************************************)
(* The entries of the ledger and the rules that guard a change of one:     *)
(* transactions/TransactionUtils.cpp and ledger/TrustLineWrapper.cpp.      *)
(*                                                                         *)
(* A ledger is a record "l" of the header, the accounts, the trust lines   *)
(* (by account and asset), the offers (by offer id) and the names of the   *)
(* data entries (by account and name); an entry exists when its key is in  *)
(* the domain.  An operation on an entry that can fail returns             *)
(* [ok, l]: the C++ bool and the ledger after the call.  Protocol versions *)
(* 9 and 10 are modelled; from version 10 on, offers carry liabilities.    *)
(***************************************************************************)
EXTENDS Exchange, FiniteSets

CONSTANTS
    Account,        \* account ids
    CreditAsset,    \* assets other than the native one
    getIssuer,      \* the issuer of a credit asset
    NATIVE          \* the native asset

ASSUME AssetAssumption ==
    /\ getIssuer \in [CreditAsset -> Account]
    /\ NATIVE \notin CreditAsset

Asset == CreditAsset \cup {NATIVE}

Version10(l) == l.header.ledgerVersion >= 10

Outcome(ok, before, after) == [ok |-> ok, l |-> IF ok THEN after ELSE before]

getMinBalance(l, ownerCount) == (2 + ownerCount) * l.header.baseReserve
-----------------------------------------------------------------------------
(* What an account holds of an asset.  The native balance is in the account; *)
(* an issuer holds its own asset without limit and without an entry.         *)

\* TrustLineWrapper: the issuer's wrapper, one of a line, or none.
IsIssuer(a, s) == s # NATIVE /\ getIssuer[s] = a

loadTrustLine(l, a, s) == IsIssuer(a, s) \/ <<a, s>> \in DOMAIN l.trustLine

isAuthorized(l, a, s) == s = NATIVE \/ IsIssuer(a, s) \/ l.trustLine[<<a, s>>].authorized

getSellingLiabilities(l, a, s) ==
    CASE s = NATIVE -> l.account[a].selling
      [] IsIssuer(a, s) -> 0
      [] OTHER -> l.trustLine[<<a, s>>].selling

getBuyingLiabilities(l, a, s) ==
    CASE s = NATIVE -> l.account[a].buying
      [] IsIssuer(a, s) -> 0
      [] OTHER -> l.trustLine[<<a, s>>].buying

getAvailableBalance(l, a, s) ==
    CASE s = NATIVE -> l.account[a].balance - getMinBalance(l, l.account[a].numSubEntries)
                         - (IF Version10(l) THEN getSellingLiabilities(l, a, s) ELSE 0)
      [] IsIssuer(a, s) -> INT64_MAX
      [] OTHER -> l.trustLine[<<a, s>>].balance
                    - (IF Version10(l) THEN getSellingLiabilities(l, a, s) ELSE 0)

getMaxAmountReceive(l, a, s) ==
    LET line     == l.trustLine[<<a, s>>]
        reserved == IF Version10(l) THEN getBuyingLiabilities(l, a, s) ELSE 0
    IN CASE s = NATIVE -> IF Version10(l) THEN INT64_MAX - l.account[a].balance - reserved
                                          ELSE INT64_MAX
         [] IsIssuer(a, s) -> INT64_MAX
         [] OTHER -> IF line.authorized THEN line.limit - line.balance - reserved ELSE 0

getMinimumLimit(l, a, s) ==
    l.trustLine[<<a, s>>].balance + (IF Version10(l) THEN getBuyingLiabilities(l, a, s) ELSE 0)
-----------------------------------------------------------------------------
(* Changes.  addBalance of util/types.cpp keeps a sum in 0..max; its          *)
(* assertions (the balance and max are not negative) are LedgerEntryIsValid.  *)

InRange(balance, delta, max) == delta = 0 \/ balance + delta \in 0 .. max

\* An account keeps its reserve and what its offers sell; it leaves room for
\* what they buy.
addAccountBalance(l, a, delta) ==
    LET acc == l.account[a]
        new == acc.balance + delta
        ok  == \/ delta = 0
               \/ /\ InRange(acc.balance, delta, INT64_MAX)
                  /\ Version10(l) =>
                       /\ delta < 0 => new - getMinBalance(l, acc.numSubEntries) >= acc.selling
                       /\ new =< INT64_MAX - acc.buying
    IN Outcome(ok, l, [l EXCEPT !.account[a].balance = new])

\* An unauthorized line neither sends nor receives.
addTrustLineBalance(l, a, s, delta) ==
    LET line == l.trustLine[<<a, s>>]
        new  == line.balance + delta
        ok   == \/ delta = 0
                \/ /\ line.authorized
                   /\ InRange(line.balance, delta, line.limit)
                   /\ Version10(l) => new >= line.selling /\ new =< line.limit - line.buying
    IN Outcome(ok, l, [l EXCEPT !.trustLine[<<a, s>>].balance = new])

\* The holding of an account, whatever the asset.
addBalance(l, a, s, delta) ==
    CASE s = NATIVE -> addAccountBalance(l, a, delta)
      [] IsIssuer(a, s) -> Outcome(TRUE, l, l)
      [] OTHER -> addTrustLineBalance(l, a, s, delta)

addBuyingLiabilities(l, a, s, delta) ==
    LET line == l.trustLine[<<a, s>>]
    IN CASE s = NATIVE ->
              Outcome(InRange(l.account[a].buying, delta, INT64_MAX - l.account[a].balance),
                      l, [l EXCEPT !.account[a].buying = @ + delta])
         [] IsIssuer(a, s) -> Outcome(TRUE, l, l)
         [] OTHER ->
              Outcome(delta = 0 \/ (line.authorized
                                    /\ InRange(line.buying, delta, line.limit - line.balance)),
                      l, [l EXCEPT !.trustLine[<<a, s>>].buying = @ + delta])

addSellingLiabilities(l, a, s, delta) ==
    LET line == l.trustLine[<<a, s>>]
        max  == l.account[a].balance - getMinBalance(l, l.account[a].numSubEntries)
    IN CASE s = NATIVE ->
              Outcome(delta = 0 \/ (max >= 0 /\ InRange(l.account[a].selling, delta, max)),
                      l, [l EXCEPT !.account[a].selling = @ + delta])
         [] IsIssuer(a, s) -> Outcome(TRUE, l, l)
         [] OTHER ->
              Outcome(delta = 0 \/ (line.authorized
                                    /\ InRange(line.selling, delta, line.balance)),
                      l, [l EXCEPT !.trustLine[<<a, s>>].selling = @ + delta])

\* Adding an entry needs the reserve for it; removing one always works.  (The
\* code throws when the count would become negative, which
\* AccountSubEntriesCountIsValid excludes.)
addNumEntries(l, a, count) ==
    LET acc == l.account[a]
        min == getMinBalance(l, acc.numSubEntries + count)
                 + (IF Version10(l) THEN acc.selling ELSE 0)
    IN Outcome(count =< 0 \/ acc.balance >= min,
               l, [l EXCEPT !.account[a].numSubEntries = @ + count])

\* The new id is idPool of the result.
generateID(l) == [l EXCEPT !.header.idPool = @ + 1]
-----------------------------------------------------------------------------
(* The liabilities of an offer: what it would buy and sell if all of it were *)
(* taken.                                                                    *)

TakenInFull(o) ==
    exchangeV10WithoutPriceErrorThresholds(o.price, o.amount, INT64_MAX, INT64_MAX,
                                           INT64_MAX, FALSE)

getOfferBuyingLiabilities(o) == TakenInFull(o).numSheepSend

getOfferSellingLiabilities(o) == TakenInFull(o).numWheatReceived

\* acquireLiabilities and releaseLiabilities; "not ok" is an exception.
acquireOrReleaseLiabilities(l, o, isAcquire) ==
    LET sign    == IF isAcquire THEN 1 ELSE -1
        a       == o.sellerID
        exists  == /\ o.buying # o.selling /\ a \in DOMAIN l.account
                   /\ \A s \in {o.buying, o.selling} : s = NATIVE \/ loadTrustLine(l, a, s)
        bought  == addBuyingLiabilities(l, a, o.buying, sign * getOfferBuyingLiabilities(o))
        sold    == addSellingLiabilities(bought.l, a, o.selling,
                                         sign * getOfferSellingLiabilities(o))
    IN IF exists /\ bought.ok THEN sold ELSE [ok |-> FALSE, l |-> l]

acquireLiabilities(l, o) == acquireOrReleaseLiabilities(l, o, TRUE)

releaseLiabilities(l, o) == acquireOrReleaseLiabilities(l, o, FALSE)
-----------------------------------------------------------------------------
(* Entries that come and go. *)

WithAccount(l, a, acc) ==
    [l EXCEPT !.account = [b \in DOMAIN @ \cup {a} |-> IF b = a THEN acc ELSE @[b]]]

WithoutAccount(l, a) == [l EXCEPT !.account = [b \in DOMAIN @ \ {a} |-> @[b]]]

WithLine(l, k, line) ==
    [l EXCEPT !.trustLine = [j \in DOMAIN @ \cup {k} |-> IF j = k THEN line ELSE @[j]]]

WithoutLine(l, k) == [l EXCEPT !.trustLine = [j \in DOMAIN @ \ {k} |-> @[j]]]

WithOffer(l, id, o) ==
    [l EXCEPT !.offer = [j \in DOMAIN @ \cup {id} |-> IF j = id THEN o ELSE @[j]]]

WithoutOffer(l, id) == [l EXCEPT !.offer = [j \in DOMAIN @ \ {id} |-> @[j]]]

OffersOf(l, a) == {id \in DOMAIN l.offer : l.offer[id].sellerID = a}
=============================================================================
