----------------------------- MODULE Operations -----------------------------
(***************************************************************************)
(* The operations of a transaction: doCheckValid and doApply of every      *)
(* *OpFrame.cpp of transactions/, for protocol versions 9 and 10.  An      *)
(* operation is a record with its "type" and its fields; a field that the  *)
(* XDR makes optional is absent when it is not set.  "src" is getSourceID. *)
(*                                                                         *)
(* doApply returns [ok, code, l]: the C++ bool, the result code and the    *)
(* ledger, with what a failing operation had already changed in its        *)
(* LedgerTxn.  The code "THROWN" is an exception.                          *)
(***************************************************************************)
EXTENDS OfferExchange, FiniteSetsExt, SequencesExt

CONSTANTS
    NoAccount,                \* the absent account id
    SeqPerLedger,             \* 2^32: the sequence numbers of one ledger
    UINT8_MAX,                \* the largest weight and threshold
    MaxSigners,               \* the signers an account may have
    InflationRate,            \* INFLATION_RATE_TRILLIONTHS / TRILLION as a price
    InflationWinMin,          \* INFLATION_WIN_MIN_PERCENT / TRILLION as a price
    InflationVoteMin,         \* the balance from which an account votes
    InflationFrequency        \* INFLATION_FREQUENCY

ASSUME OperationsAssumption ==
    /\ NoAccount \notin Account
    /\ {SeqPerLedger, UINT8_MAX, MaxSigners} \subseteq Nat \ {0}
    /\ IsPrice(InflationRate) /\ IsPrice(InflationWinMin)

Has(op, field) == field \in DOMAIN op

Applied(l) == [ok |-> TRUE, code |-> "SUCCESS", l |-> l]

Failed(code, l) == [ok |-> FALSE, code |-> code, l |-> l]

Threw(l) == Failed("THROWN", l)

AuthFlags == {"AUTH_REQUIRED", "AUTH_REVOCABLE", "AUTH_IMMUTABLE"}

isImmutableAuth(l, a) == "AUTH_IMMUTABLE" \in l.account[a].flags

isAuthRequired(l, a) == "AUTH_REQUIRED" \in l.account[a].flags

getStartingSequenceNumber(l) == l.header.ledgerSeq * SeqPerLedger
-----------------------------------------------------------------------------
(* CreateAccountOpFrame *)

NewAccount(l, balance) ==
    [balance |-> balance, seqNum |-> getStartingSequenceNumber(l), numSubEntries |-> 0,
     inflationDest |-> NoAccount, flags |-> {}, signers |-> [k \in {} |-> 0],
     thresholds |-> [master |-> 1, low |-> 0, med |-> 0, high |-> 0],
     buying |-> 0, selling |-> 0]

CreateAccountValid(src, op) == op.startingBalance > 0 /\ op.destination # src

CreateAccount(l, src, op) ==
    IF op.destination \in DOMAIN l.account THEN Failed("ALREADY_EXIST", l)
    ELSE IF op.startingBalance < getMinBalance(l, 0) THEN Failed("LOW_RESERVE", l)
    ELSE IF getAvailableBalance(l, src, NATIVE) < op.startingBalance
    THEN Failed("UNDERFUNDED", l)
    ELSE LET paid == addBalance(l, src, NATIVE, -op.startingBalance)
         IN IF paid.ok THEN Applied(WithAccount(paid.l, op.destination,
                                                NewAccount(l, op.startingBalance)))
            ELSE Threw(l)
-----------------------------------------------------------------------------
(* PathPaymentOpFrame *)

PathPaymentValid(op) == op.destAmount > 0 /\ op.sendMax > 0

NoIssuer(l, s) == s # NATIVE /\ getIssuer[s] \notin DOMAIN l.account

\* Credits go back to their issuer even when the issuer's account is gone.
bypassIssuerCheck(op) ==
    /\ op.destAsset # NATIVE /\ op.path = <<>> /\ op.sendAsset = op.destAsset
    /\ getIssuer[op.destAsset] = op.destination

PayDestination(l, op) ==
    LET s    == op.destAsset
        paid == addBalance(l, op.destination, s, op.destAmount)
    IN IF ~bypassIssuerCheck(op) /\ op.destination \notin DOMAIN l.account
       THEN Failed("NO_DESTINATION", l)
       ELSE IF s = NATIVE THEN IF paid.ok THEN Applied(paid.l) ELSE Failed("MALFORMED", l)
       ELSE IF ~bypassIssuerCheck(op) /\ NoIssuer(l, s) THEN Failed("NO_ISSUER", l)
       ELSE IF ~loadTrustLine(l, op.destination, s) THEN Failed("NO_TRUST", l)
       ELSE IF ~isAuthorized(l, op.destination, s) THEN Failed("NOT_AUTHORIZED", l)
       ELSE IF ~paid.ok THEN Failed("LINE_FULL", l) ELSE Applied(paid.l)

\* One asset of the path, walked backwards: buy the amount of the asset
\* before.  "walk" is [res, asset, amount].
Hop(src, walk, curA) ==
    LET l == walk.res.l
        x == convertWithOffers(l, curA, INT64_MAX, walk.asset, walk.amount, TRUE, PathFilter(src))
        Stop(res) == [walk EXCEPT !.res = res]
    IN IF ~walk.res.ok \/ curA = walk.asset THEN walk
       ELSE IF NoIssuer(l, curA) THEN Stop(Failed("NO_ISSUER", l))
       ELSE IF x.r = "THROWN" THEN Stop(Threw(l))
       ELSE IF x.r = "eCrossSelf" THEN Stop(Failed("OFFER_CROSS_SELF", x.l))
       ELSE IF x.r = "eOK" /\ x.wheatReceived = walk.amount
       THEN [res |-> Applied(x.l), asset |-> curA, amount |-> x.sheepSend]
       ELSE Stop(Failed("TOO_FEW_OFFERS", x.l))

ChargeSource(src, op, walk) ==
    LET l    == walk.res.l
        s    == walk.asset
        paid == addBalance(l, src, s, -walk.amount)
    IN IF ~walk.res.ok THEN walk.res
       ELSE IF walk.amount > op.sendMax THEN Failed("OVER_SENDMAX", l)
       ELSE IF s = NATIVE
       THEN IF src \notin DOMAIN l.account THEN Failed("MALFORMED", l)
            ELSE IF walk.amount > getAvailableBalance(l, src, s) THEN Failed("UNDERFUNDED", l)
            ELSE IF paid.ok THEN Applied(paid.l) ELSE Threw(l)
       ELSE IF ~bypassIssuerCheck(op) /\ NoIssuer(l, s) THEN Failed("NO_ISSUER", l)
       ELSE IF ~loadTrustLine(l, src, s) THEN Failed("SRC_NO_TRUST", l)
       ELSE IF ~isAuthorized(l, src, s) THEN Failed("SRC_NOT_AUTHORIZED", l)
       ELSE IF ~paid.ok THEN Failed("UNDERFUNDED", l) ELSE Applied(paid.l)

PathPayment(l, src, op) ==
    LET start   == [res |-> PayDestination(l, op), asset |-> op.destAsset,
                    amount |-> op.destAmount]
        Step(walk, curA) == Hop(src, walk, curA)
    IN ChargeSource(src, op, FoldLeft(Step, start, Reverse(<<op.sendAsset>> \o op.path)))
-----------------------------------------------------------------------------
(* PaymentOpFrame: a path payment without a path.  Its codes become those of *)
(* a payment; one it has no name for is an exception.                        *)

PaymentValid(op) == op.amount > 0

Payment(l, src, op) ==
    LET res == PathPayment(l, src, [destination |-> op.destination, path |-> <<>>,
                                    sendAsset |-> op.asset, sendMax |-> op.amount,
                                    destAsset |-> op.asset, destAmount |-> op.amount])
    IN IF op.destination = src /\ op.asset = NATIVE THEN Applied(l)
       ELSE IF res.ok \/ res.code \in {"UNDERFUNDED", "SRC_NOT_AUTHORIZED", "SRC_NO_TRUST",
                                       "NO_DESTINATION", "NO_TRUST", "NOT_AUTHORIZED",
                                       "LINE_FULL", "NO_ISSUER", "THROWN"}
       THEN res ELSE Failed("UNEXPECTED_CODE", l)
-----------------------------------------------------------------------------
(* ManageOfferOpFrame and CreatePassiveOfferOpFrame: the seller sells sheep  *)
(* and buys wheat.                                                           *)

ManageOfferValid(op) ==
    /\ op.selling # op.buying
    /\ op.amount >= 0 /\ op.price.n > 0 /\ op.price.d > 0
    /\ ~(op.offerID = 0 /\ op.amount = 0)

\* The issuers exist and the seller may hold both assets; "" when so.
checkOfferValid(l, src, op) ==
    LET sheep == op.selling
        wheat == op.buying
    IN IF op.amount = 0 THEN ""
       ELSE IF NoIssuer(l, sheep) THEN "SELL_NO_ISSUER"
       ELSE IF sheep # NATIVE /\ ~loadTrustLine(l, src, sheep) THEN "SELL_NO_TRUST"
       ELSE IF sheep # NATIVE /\ ~IsIssuer(src, sheep) /\ l.trustLine[<<src, sheep>>].balance = 0
       THEN "UNDERFUNDED"
       ELSE IF ~isAuthorized(l, src, sheep) THEN "SELL_NOT_AUTHORIZED"
       ELSE IF NoIssuer(l, wheat) THEN "BUY_NO_ISSUER"
       ELSE IF wheat # NATIVE /\ ~loadTrustLine(l, src, wheat) THEN "BUY_NO_TRUST"
       ELSE IF ~isAuthorized(l, src, wheat) THEN "BUY_NOT_AUTHORIZED"
       ELSE ""

\* What the seller can send and receive; a new offer is counted in the
\* reserve beforehand.
computeOfferExchangeParameters(l, src, o, creatingNewOffer) ==
    LET counted == IF creatingNewOffer /\ (Version10(l) \/ o.selling = NATIVE)
                   THEN addNumEntries(l, src, 1) ELSE Outcome(TRUE, l, l)
        l1      == counted.l
        maxWheatReceive == canBuyAtMost(l1, src, o.buying)
        maxSheepCanSell == canSellAtMost(l1, src, o.selling)
        maxSheepBasedOnWheat ==
            Least(bigDivide(maxWheatReceive * o.price.d, o.price.n, "ROUND_DOWN"), INT64_MAX)
        code    == IF ~counted.ok THEN "LOW_RESERVE"
                   ELSE IF ~Version10(l) THEN ""
                   ELSE IF getMaxAmountReceive(l1, src, o.buying) < getOfferBuyingLiabilities(o)
                   THEN "LINE_FULL"
                   ELSE IF getAvailableBalance(l1, src, o.selling) < getOfferSellingLiabilities(o)
                   THEN "UNDERFUNDED" ELSE ""
    IN [code            |-> code,
        maxWheatReceive |-> maxWheatReceive,
        maxSheepSend    |-> Least(o.amount, IF Version10(l) THEN maxSheepCanSell
                                            ELSE Least(maxSheepCanSell, maxSheepBasedOnWheat))]

buildOffer(src, op, passive) ==
    [sellerID |-> src, selling |-> op.selling, buying |-> op.buying, amount |-> op.amount,
     price |-> op.price, passive |-> passive]

\* Cross what can be crossed and settle with the seller; [code, l, amount]
\* with what is left to offer.
SellOffer(l, src, o, creatingNewOffer) ==
    LET p    == computeOfferExchangeParameters(l, src, o, creatingNewOffer)
        x    == convertWithOffers(l, o.selling, p.maxSheepSend, o.buying, p.maxWheatReceive, FALSE,
                                  OfferFilter(src, [n |-> o.price.d, d |-> o.price.n], o.passive))
        got  == IF x.wheatReceived > 0 THEN addBalance(x.l, src, o.buying, x.wheatReceived)
                ELSE Outcome(TRUE, x.l, x.l)
        sent == IF x.wheatReceived > 0 THEN addBalance(got.l, src, o.selling, -x.sheepSend) ELSE got
        rest == p.maxSheepSend - x.sheepSend
        adjusted == adjustOffer(o.price, Least(rest, canSellAtMost(sent.l, src, o.selling)),
                                canBuyAtMost(sent.l, src, o.buying))
        Left(code, amount) == [code |-> code, l |-> sent.l, amount |-> amount]
    IN IF p.code # "" THEN [code |-> p.code, l |-> l, amount |-> 0]
       ELSE IF p.maxWheatReceive = 0 THEN [code |-> "LINE_FULL", l |-> l, amount |-> 0]
       ELSE IF x.r = "eCrossSelf" THEN [code |-> "CROSS_SELF", l |-> l, amount |-> 0]
       ELSE IF x.r = "THROWN" THEN [code |-> "THROWN", l |-> l, amount |-> 0]
       ELSE IF ~got.ok \/ ~sent.ok THEN [code |-> "THROWN", l |-> l, amount |-> 0]
       ELSE IF ~Version10(l) THEN Left("", rest)
       ELSE IF x.r = "eOK" THEN Left("", 0)
       ELSE IF adjusted.thrown THEN Left("THROWN", 0) ELSE Left("", adjusted.numWheatReceived)

\* What is left becomes the offer; an offer with nothing left goes.
StoreOffer(l, src, id, o, creatingNewOffer) ==
    LET counted  == IF creatingNewOffer THEN addNumEntries(l, src, 1) ELSE Outcome(TRUE, l, l)
        l1       == IF creatingNewOffer THEN generateID(counted.l) ELSE counted.l
        l2       == WithOffer(l1, IF creatingNewOffer THEN l1.header.idPool ELSE id, o)
        acquired == IF Version10(l) THEN acquireLiabilities(l2, o) ELSE Outcome(TRUE, l2, l2)
    IN IF o.amount = 0
       THEN Applied(IF creatingNewOffer THEN l ELSE addNumEntries(l, src, -1).l)
       ELSE IF ~counted.ok THEN Failed("LOW_RESERVE", l)
       ELSE IF ~acquired.ok THEN Threw(l) ELSE Applied(acquired.l)

ManageOffer(l, src, op, passive) ==
    LET creatingNewOffer == op.offerID = 0
        invalid  == checkOfferValid(l, src, op)
        found    == op.offerID \in OffersOf(l, src)
        old      == l.offer[op.offerID]
        released == IF Version10(l) THEN releaseLiabilities(l, old) ELSE Outcome(TRUE, l, l)
        l1       == IF creatingNewOffer THEN l ELSE WithoutOffer(released.l, op.offerID)
        offer    == buildOffer(src, op, IF creatingNewOffer THEN passive ELSE old.passive)
        sold     == IF op.amount > 0 THEN SellOffer(l1, src, offer, creatingNewOffer)
                    ELSE [code |-> "", l |-> l1, amount |-> 0]
        stored   == StoreOffer(sold.l, src, op.offerID, [offer EXCEPT !.amount = sold.amount],
                               creatingNewOffer)
    IN IF invalid # "" THEN Failed(invalid, l)
       ELSE IF ~creatingNewOffer /\ ~found THEN Failed("NOT_FOUND", l)
       ELSE IF ~creatingNewOffer /\ ~released.ok THEN Threw(l)
       ELSE IF sold.code # "" THEN Failed(sold.code, l)
       ELSE IF stored.ok THEN stored ELSE Failed(stored.code, l)
-----------------------------------------------------------------------------
(* SetOptionsOpFrame.  The options are applied one after the other to the    *)
(* account, so a failing operation has applied those before.                 *)

SetOptionsLevel(op) ==
    IF \E f \in {"masterWeight", "lowThreshold", "medThreshold", "highThreshold", "signer"} :
           Has(op, f)
    THEN "HIGH" ELSE "MEDIUM"

SetOptionsValid(l, src, op) ==
    /\ Has(op, "setFlags") /\ Has(op, "clearFlags") => op.setFlags \cap op.clearFlags = {}
    /\ \A f \in {"masterWeight", "lowThreshold", "medThreshold", "highThreshold"} :
           Has(op, f) => op[f] =< UINT8_MAX
    /\ Has(op, "signer") => /\ op.signer.key # [type |-> "ED25519", id |-> src]
                            /\ Version10(l) => op.signer.weight =< UINT8_MAX

\* Adding, changing or, with weight 0, removing a signer.
SetSigner(l, src, signer) ==
    LET signers == l.account[src].signers
        known   == signer.key \in DOMAIN signers
        counted == addNumEntries(l, src, 1)
        Signers(m, set) == [m EXCEPT !.account[src].signers =
                              [k \in set |-> IF k = signer.key THEN signer.weight ELSE @[k]]]
    IN IF signer.weight # 0 /\ known THEN Applied(Signers(l, DOMAIN signers))
       ELSE IF signer.weight # 0
       THEN IF Cardinality(DOMAIN signers) = MaxSigners THEN Failed("TOO_MANY_SIGNERS", l)
            ELSE IF ~counted.ok THEN Failed("LOW_RESERVE", l)
            ELSE Applied(Signers(counted.l, DOMAIN signers \cup {signer.key}))
       ELSE IF known
       THEN Applied(Signers(addNumEntries(l, src, -1).l, DOMAIN signers \ {signer.key}))
       ELSE Applied(l)

SetOptions(l, src, op) ==
    LET changesAuth(f) == Has(op, f) /\ op[f] # {}
        l1 == IF Has(op, "inflationDest")
              THEN [l EXCEPT !.account[src].inflationDest = op.inflationDest] ELSE l
        flags == (l.account[src].flags \ (IF Has(op, "clearFlags") THEN op.clearFlags ELSE {}))
                   \cup (IF Has(op, "setFlags") THEN op.setFlags ELSE {})
        Or(f, old) == IF Has(op, f) THEN op[f] ELSE old
        l2 == [l1 EXCEPT !.account[src].flags = flags,
                         !.account[src].thresholds =
                             [master |-> Or("masterWeight", @.master),
                              low    |-> Or("lowThreshold", @.low),
                              med    |-> Or("medThreshold", @.med),
                              high   |-> Or("highThreshold", @.high)]]
    IN IF /\ Has(op, "inflationDest") /\ op.inflationDest # src
          /\ op.inflationDest \notin DOMAIN l.account
       THEN Failed("INVALID_INFLATION", l)
       ELSE IF isImmutableAuth(l, src) /\ (changesAuth("clearFlags") \/ changesAuth("setFlags"))
       THEN Failed("CANT_CHANGE", l1)
       ELSE IF Has(op, "signer") THEN SetSigner(l2, src, op.signer) ELSE Applied(l2)
-----------------------------------------------------------------------------
(* ChangeTrustOpFrame *)

ChangeTrustValid(l, op) == op.limit >= 0 /\ (Version10(l) => op.line # NATIVE)

ChangeTrust(l, src, op) ==
    LET k       == <<src, op.line>>
        issuer  == getIssuer[op.line]
        counted == addNumEntries(l, src, 1)
    IN IF issuer = src THEN Failed("SELF_NOT_ALLOWED", l)
       ELSE IF k \in DOMAIN l.trustLine
       THEN IF op.limit < getMinimumLimit(l, src, op.line) THEN Failed("INVALID_LIMIT", l)
            ELSE IF op.limit = 0 THEN Applied(addNumEntries(WithoutLine(l, k), src, -1).l)
            ELSE IF issuer \notin DOMAIN l.account THEN Failed("NO_ISSUER", l)
            ELSE Applied([l EXCEPT !.trustLine[k].limit = op.limit])
       ELSE IF op.limit = 0 THEN Failed("INVALID_LIMIT", l)
       ELSE IF issuer \notin DOMAIN l.account THEN Failed("NO_ISSUER", l)
       ELSE IF ~counted.ok THEN Failed("LOW_RESERVE", l)
       ELSE Applied(WithLine(counted.l, k,
                [balance |-> 0, limit |-> op.limit, authorized |-> ~isAuthRequired(l, issuer),
                 buying |-> 0, selling |-> 0]))
-----------------------------------------------------------------------------
(* AllowTrustOpFrame.  From version 10 on, the trustor's offers in an asset  *)
(* go when the authorization to hold it is revoked.                          *)

\* Mutant: the liabilities of the offers that go are not released.
RevokeOffers_KeepsLiabilities(l, trustor, asset) ==
    LET offers == {id \in OffersOf(l, trustor) :
                      asset \in {l.offer[id].buying, l.offer[id].selling}}
    IN FoldLeft(LAMBDA res, id : Applied(eraseOffer(res.l, id)), Applied(l), SetToSortSeq(offers, <))

RevokeOffers(l, trustor, asset) ==
    LET offers == {id \in OffersOf(l, trustor) :
                      asset \in {l.offer[id].buying, l.offer[id].selling}}
        Revoke(res, id) ==
            LET released == releaseLiabilities(res.l, res.l.offer[id])
            IN IF res.ok /\ released.ok THEN Applied(eraseOffer(released.l, id)) ELSE Threw(l)
    IN FoldLeft(Revoke, Applied(l), SetToSortSeq(offers, <))

AllowTrust(l, src, op) ==
    LET k       == <<op.trustor, op.asset>>
        revoked == IF Version10(l) /\ l.trustLine[k].authorized /\ ~op.authorize
                   THEN RevokeOffers(l, op.trustor, op.asset) ELSE Applied(l)
    IN IF op.trustor = src THEN Failed("SELF_NOT_ALLOWED", l)
       ELSE IF ~isAuthRequired(l, src) THEN Failed("TRUST_NOT_REQUIRED", l)
       ELSE IF "AUTH_REVOCABLE" \notin l.account[src].flags /\ ~op.authorize
       THEN Failed("CANT_REVOKE", l)
       ELSE IF getIssuer[op.asset] # src \/ k \notin DOMAIN l.trustLine
       THEN Failed("NO_TRUST_LINE", l)
       ELSE IF ~revoked.ok THEN revoked
       ELSE Applied([revoked.l EXCEPT !.trustLine[k].authorized = op.authorize])
-----------------------------------------------------------------------------
(* MergeOpFrame *)

MergeValid(src, op) == op.destination # src

\* Mutant: an account whose number is ahead of the ledgers may merge.
Merge_NoSeqNumCheck(l, src, op) ==
    LET paid == addBalance(l, op.destination, NATIVE, l.account[src].balance)
    IN IF op.destination \notin DOMAIN l.account THEN Failed("NO_ACCOUNT", l)
       ELSE IF l.account[src].numSubEntries # 0 THEN Failed("HAS_SUB_ENTRIES", l)
       ELSE Applied(WithoutAccount(paid.l, src))

Merge(l, src, op) ==
    LET acc  == l.account[src]
        paid == addBalance(l, op.destination, NATIVE, acc.balance)
    IN IF op.destination \notin DOMAIN l.account THEN Failed("NO_ACCOUNT", l)
       ELSE IF isImmutableAuth(l, src) THEN Failed("IMMUTABLE_SET", l)
       ELSE IF acc.numSubEntries # Cardinality(DOMAIN acc.signers)
       THEN Failed("HAS_SUB_ENTRIES", l)
       ELSE IF Version10(l) /\ acc.seqNum >= getStartingSequenceNumber(l)
       THEN Failed("SEQNUM_TOO_FAR", l)
       ELSE IF ~paid.ok THEN Failed("DEST_FULL", l) ELSE Applied(WithoutAccount(paid.l, src))
-----------------------------------------------------------------------------
(* InflationOpFrame.  LedgerTxn::queryInflationWinners tallies the balances  *)
(* of the accounts that name an inflation destination.                       *)

Votes(l, d) ==
    LET voters == {a \in DOMAIN l.account : /\ l.account[a].inflationDest = d
                                            /\ l.account[a].balance >= InflationVoteMin}
    IN MapThenSumSet(LAMBDA a : l.account[a].balance, voters)

queryInflationWinners(l, minBalance) ==
    {d \in Account : Votes(l, d) > 0 /\ Votes(l, d) >= minBalance}

Inflation(l) ==
    LET h       == l.header
        winners == queryInflationWinners(l, bigDivide(h.totalCoins * InflationWinMin.n,
                                                      InflationWinMin.d, "ROUND_DOWN"))
        minted  == bigDivide(h.totalCoins * InflationRate.n, InflationRate.d, "ROUND_DOWN")
        amountToDole == minted + h.feePool
        Dole(res, d) ==
            LET share == bigDivide(amountToDole * Votes(l, d), h.totalCoins, "ROUND_DOWN")
                dole  == IF Version10(l) THEN Least(getMaxAmountReceive(res.l, d, NATIVE), share)
                         ELSE share
                paid  == addBalance(res.l, d, NATIVE, dole)
            IN IF ~res.ok \/ d \notin DOMAIN l.account THEN res
               ELSE IF ~paid.ok THEN Threw(l)
               ELSE Applied([paid.l EXCEPT !.header.feePool = @ - dole])
        start   == [l EXCEPT !.header.feePool = amountToDole, !.header.inflationSeq = @ + 1,
                             !.header.totalCoins = @ + minted]
    IN IF h.closeTime < h.inflationSeq * InflationFrequency THEN Failed("NOT_TIME", l)
       ELSE FoldSet(LAMBDA d, res : Dole(res, d), Applied(start), winners)
-----------------------------------------------------------------------------
(* ManageDataOpFrame *)

ManageData(l, src, op) ==
    LET k       == <<src, op.dataName>>
        counted == addNumEntries(l, src, 1)
    IN IF Has(op, "dataValue")
       THEN IF k \in l.data THEN Applied(l)
            ELSE IF ~counted.ok THEN Failed("LOW_RESERVE", l)
            ELSE Applied([counted.l EXCEPT !.data = @ \cup {k}])
       ELSE IF k \notin l.data THEN Failed("NAME_NOT_FOUND", l)
       ELSE Applied([addNumEntries(l, src, -1).l EXCEPT !.data = @ \ {k}])
-----------------------------------------------------------------------------
(* BumpSequenceOpFrame *)

BumpSequenceValid(op) == op.bumpTo >= 0

BumpSequence(l, src, op) ==
    Applied([l EXCEPT !.account[src].seqNum = IF op.bumpTo > @ THEN op.bumpTo ELSE @])
-----------------------------------------------------------------------------
(* OperationFrame: the dispatch of makeHelper. *)

isVersionSupported(l, op) == op.type = "BUMP_SEQUENCE" => Version10(l)

getThresholdLevel(op) ==
    CASE op.type \in {"ALLOW_TRUST", "INFLATION", "BUMP_SEQUENCE"} -> "LOW"
      [] op.type = "ACCOUNT_MERGE" -> "HIGH"
      [] op.type = "SET_OPTIONS" -> SetOptionsLevel(op)
      [] OTHER -> "MEDIUM"

getNeededThreshold(l, a, level) ==
    LET t == l.account[a].thresholds
    IN CASE level = "LOW" -> t.low [] level = "MEDIUM" -> t.med [] level = "HIGH" -> t.high

doCheckValid(l, src, op) ==
    CASE op.type = "CREATE_ACCOUNT" -> CreateAccountValid(src, op)
      [] op.type = "PAYMENT" -> PaymentValid(op)
      [] op.type = "PATH_PAYMENT" -> PathPaymentValid(op)
      [] op.type \in {"MANAGE_OFFER", "CREATE_PASSIVE_OFFER"} -> ManageOfferValid(op)
      [] op.type = "SET_OPTIONS" -> SetOptionsValid(l, src, op)
      [] op.type = "CHANGE_TRUST" -> ChangeTrustValid(l, op)
      [] op.type = "ACCOUNT_MERGE" -> MergeValid(src, op)
      [] op.type = "BUMP_SEQUENCE" -> BumpSequenceValid(op)
      [] OTHER -> TRUE

doApply(l, src, op) ==
    CASE op.type = "CREATE_ACCOUNT" -> CreateAccount(l, src, op)
      [] op.type = "PAYMENT" -> Payment(l, src, op)
      [] op.type = "PATH_PAYMENT" -> PathPayment(l, src, op)
      [] op.type = "MANAGE_OFFER" -> ManageOffer(l, src, op, FALSE)
      [] op.type = "CREATE_PASSIVE_OFFER" -> ManageOffer(l, src, op, TRUE)
      [] op.type = "SET_OPTIONS" -> SetOptions(l, src, op)
      [] op.type = "CHANGE_TRUST" -> ChangeTrust(l, src, op)
      [] op.type = "ALLOW_TRUST" -> AllowTrust(l, src, op)
      [] op.type = "ACCOUNT_MERGE" -> Merge(l, src, op)
      [] op.type = "INFLATION" -> Inflation(l)
      [] op.type = "MANAGE_DATA" -> ManageData(l, src, op)
      [] op.type = "BUMP_SEQUENCE" -> BumpSequence(l, src, op)
=============================================================================
