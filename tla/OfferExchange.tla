---------------------------- MODULE OfferExchange ----------------------------
(***************************************************************************)
(* Buying wheat with sheep from the offers of the book, best price first:  *)
(* the part of transactions/OfferExchange.cpp that changes the ledger.     *)
(***************************************************************************)
EXTENDS LedgerEntries

\* What account a can sell of asset s, and what it can buy.
canSellAtMost(l, a, s) ==
    IF s = NATIVE \/ (loadTrustLine(l, a, s) /\ isAuthorized(l, a, s))
    THEN LET available == getAvailableBalance(l, a, s)
         IN IF available > 0 THEN available ELSE 0
    ELSE 0

canBuyAtMost(l, a, s) ==
    IF s = NATIVE \/ loadTrustLine(l, a, s)
    THEN LET max == getMaxAmountReceive(l, a, s) IN IF max > 0 THEN max ELSE 0
    ELSE 0

\* The wheat that would be traded for as much sheep as a can receive.
canSellAtMostBasedOnSheep(l, a, sheep, wheatPrice) ==
    LET maxSheep == IF loadTrustLine(l, a, sheep) THEN getMaxAmountReceive(l, a, sheep) ELSE 0
    IN IF sheep = NATIVE THEN INT64_MAX
       ELSE Least(bigDivide(maxSheep * wheatPrice.d, wheatPrice.n, "ROUND_DOWN"), INT64_MAX)

\* adjustOffer of an offer on the ledger.
adjustedAmount(l, o) ==
    adjustOffer(o.price, Least(o.amount, canSellAtMost(l, o.sellerID, o.selling)),
                canBuyAtMost(l, o.sellerID, o.buying))

\* AbstractLedgerTxn::loadBestOffer: the lowest price, then the lowest id.
Cheaper(p, q) == p.n * q.d < q.n * p.d

isBetterOffer(l, i, j) ==
    \/ Cheaper(l.offer[i].price, l.offer[j].price)
    \/ ~Cheaper(l.offer[j].price, l.offer[i].price) /\ i < j

BookOf(l, buying, selling) ==
    {i \in DOMAIN l.offer : l.offer[i].buying = buying /\ l.offer[i].selling = selling}

loadBestOffer(l, book) == CHOOSE i \in book : \A j \in book \ {i} : isBetterOffer(l, i, j)
-----------------------------------------------------------------------------
(* Crossing one offer.  The result says what the taker receives and sends,   *)
(* and with "cor" what became of the offer; "THROWN" is an exception.        *)

Crossed(cor, wheat, sheep, wheatStays, l) ==
    [cor |-> cor, wheat |-> wheat, sheep |-> sheep, wheatStays |-> wheatStays, l |-> l]

\* performExchange: the amounts and what is left of the offer.
performExchange(l, o, maxWheatReceived, maxSheepSend) ==
    LET wheat0 == Least(Least(canSellAtMostBasedOnSheep(l, o.sellerID, o.buying, o.price),
                              canSellAtMost(l, o.sellerID, o.selling)), o.amount)
        result == exchangeV3(wheat0, o.price, maxWheatReceived, maxSheepSend)
        type   == ExchangeResultType(result)
        wheat  == IF type = "BOGUS" THEN 0 ELSE result.numWheatReceived
        taken  == type = "BOGUS" \/ o.amount =< wheat
    IN [type      |-> type,
        wheat     |-> wheat,
        sheep     |-> IF type = "BOGUS" THEN 0 ELSE result.numSheepSend,
        newAmount |-> IF taken THEN 0 ELSE wheat0 - wheat]

\* Erasing an offer takes its entry off the seller's count.
eraseOffer(l, id) == addNumEntries(WithoutOffer(l, id), l.offer[id].sellerID, -1).l

\* Before protocol version 10.
crossOffer(l, id, maxWheatReceived, maxSheepSend) ==
    LET o     == l.offer[id]
        x     == performExchange(l, o, maxWheatReceived, maxSheepSend)
        left  == IF x.newAmount = 0 THEN eraseOffer(l, id)
                 ELSE [l EXCEPT !.offer[id].amount = x.newAmount]
        paid  == IF x.sheep = 0 THEN Outcome(TRUE, left, left)
                 ELSE addBalance(left, o.sellerID, o.buying, x.sheep)
        given == IF x.wheat = 0 THEN Outcome(TRUE, paid.l, paid.l)
                 ELSE addBalance(paid.l, o.sellerID, o.selling, -x.wheat)
    IN IF o.sellerID \notin DOMAIN l.account THEN Crossed("THROWN", 0, 0, FALSE, l)
       ELSE IF x.type = "REDUCED_TO_ZERO" \/ ~paid.ok \/ ~given.ok
       THEN Crossed("eOfferCantConvert", x.wheat, x.sheep, FALSE, l)
       ELSE Crossed(IF x.newAmount = 0 THEN "eOfferTaken" ELSE "eOfferPartial",
                    x.wheat, x.sheep, FALSE, given.l)

\* From version 10 on: release the liabilities, exchange, and acquire those of
\* what is left.
crossOfferV10(l, id, maxWheatReceived, maxSheepSend, isPathPayment) ==
    LET o        == l.offer[id]
        released == releaseLiabilities(l, o)
        l1       == released.l
        adjusted == adjustedAmount(l1, o)
        amount   == adjusted.numWheatReceived
        x        == exchangeV10(o.price, Least(amount, canSellAtMost(l1, o.sellerID, o.selling)),
                                maxWheatReceived, maxSheepSend,
                                canBuyAtMost(l1, o.sellerID, o.buying), isPathPayment)
        paid     == addBalance(l1, o.sellerID, o.buying, x.numSheepSend)
        given    == addBalance(paid.l, o.sellerID, o.selling, -x.numWheatReceived)
        rest     == adjustedAmount(given.l, [o EXCEPT !.amount = amount - x.numWheatReceived])
        left     == IF x.wheatStays THEN rest.numWheatReceived ELSE 0
        l2       == [given.l EXCEPT !.offer[id].amount = left]
        acquired == acquireLiabilities(l2, l2.offer[id])
    IN IF \/ o.sellerID \notin DOMAIN l.account \/ ~released.ok
          \/ adjusted.thrown \/ x.thrown \/ ~paid.ok \/ ~given.ok
          \/ x.wheatStays /\ rest.thrown
          \/ left # 0 /\ ~acquired.ok
       THEN Crossed("THROWN", 0, 0, FALSE, l)
       ELSE Crossed(IF left = 0 THEN "eOfferTaken" ELSE "eOfferPartial",
                    x.numWheatReceived, x.numSheepSend, x.wheatStays,
                    IF left = 0 THEN eraseOffer(l2, id) ELSE acquired.l)
-----------------------------------------------------------------------------
(* The filters of the callers: nobody crosses an offer of their own, and an  *)
(* offer crosses only offers whose price is good enough (a passive one not   *)
(* even an equal price).                                                     *)

PathFilter(source) == [source |-> source, limited |-> FALSE]

OfferFilter(source, maxWheatPrice, passive) ==
    [source |-> source, limited |-> TRUE, maxWheatPrice |-> maxWheatPrice, passive |-> passive]

TooDear(filter, o) ==
    /\ filter.limited
    /\ \/ Cheaper(filter.maxWheatPrice, o.price)
       \/ filter.passive /\ ~Cheaper(o.price, filter.maxWheatPrice)

Converted(r, sheepSend, wheatReceived, l) ==
    [r |-> r, sheepSend |-> sheepSend, wheatReceived |-> wheatReceived, l |-> l]

\* The loop of convertWithOffers after sent and received.  "eCrossSelf" is
\* eFilterStop because of an offer of the taker's own.
RECURSIVE Convert(_, _, _, _, _, _, _, _, _)
Convert(l, sheep, maxSheepSend, sent, wheat, maxWheatReceive, received, isPathPayment, filter) ==
    LET book   == BookOf(l, sheep, wheat)
        id     == loadBestOffer(l, book)
        x      == IF Version10(l) THEN crossOfferV10(l, id, maxWheatReceive, maxSheepSend,
                                                     isPathPayment)
                  ELSE crossOffer(l, id, maxWheatReceive, maxSheepSend)
        sent1  == sent + x.sheep
        got1   == received + x.wheat
        more   == x.wheat < maxWheatReceive /\ x.sheep < maxSheepSend
                    /\ (Version10(l) => ~x.wheatStays)
    IN IF book = {}
       THEN Converted(IF Version10(l) THEN "ePartial" ELSE "eOK", sent, received, l)
       ELSE IF TooDear(filter, l.offer[id]) THEN Converted("eFilterStop", sent, received, l)
       ELSE IF l.offer[id].sellerID = filter.source
       THEN Converted("eCrossSelf", sent, received, l)
       ELSE IF \/ x.cor = "THROWN"
               \/ x.sheep \notin 0 .. maxSheepSend \/ x.wheat \notin 0 .. maxWheatReceive
       THEN Converted("THROWN", sent, received, l)
       ELSE IF x.cor = "eOfferCantConvert" THEN Converted("ePartial", sent, received, l)
       ELSE IF ~more THEN Converted("eOK", sent1, got1, x.l)
       ELSE IF x.cor = "eOfferPartial" THEN Converted("ePartial", sent1, got1, x.l)
       ELSE Convert(x.l, sheep, maxSheepSend - x.sheep, sent1, wheat,
                    maxWheatReceive - x.wheat, got1, isPathPayment, filter)

convertWithOffers(l, sheep, maxSheepSend, wheat, maxWheatReceive, isPathPayment, filter) ==
    IF maxWheatReceive > 0 /\ maxSheepSend > 0
    THEN Convert(l, sheep, maxSheepSend, 0, wheat, maxWheatReceive, 0, isPathPayment, filter)
    ELSE Converted("eOK", 0, 0, l)
=============================================================================
