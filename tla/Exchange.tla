------------------------------- MODULE Exchange -------------------------------
(***************************************************************************)
(* The arithmetic of crossing two offers: util/numeric.cpp and the part of *)
(* transactions/OfferExchange.cpp that does not touch the ledger.  "Wheat" *)
(* is what the offer of the book sells, "sheep" what it buys, and a price  *)
(* n/d is in sheep per wheat.  Intermediate values are 128 bits wide in    *)
(* the code and do not overflow; an int64_t is at most INT64_MAX, which is *)
(* a constant.  A result says with "thrown" that the code throws.          *)
(***************************************************************************)
EXTENDS Integers

CONSTANT INT64_MAX

ASSUME INT64_MAXAssumption == INT64_MAX \in Nat \ {0}

\* A price: numerator and denominator are positive (checkOfferValid).
IsPrice(price) == price.n \in Nat \ {0} /\ price.d \in Nat \ {0}

Least(a, b) == IF a < b THEN a ELSE b

RoundDown(a, b) == a \div b

RoundUp(a, b) == (a + b - 1) \div b

\* bigDivide: a / b rounded; the callers say what happens above INT64_MAX.
bigDivide(a, b, rounding) ==
    IF rounding = "ROUND_DOWN" THEN RoundDown(a, b) ELSE RoundUp(a, b)

Overflows(a) == a > INT64_MAX
-----------------------------------------------------------------------------
(* Before protocol version 10. *)

exchangeV3(wheatReceived, price, maxWheatReceive, maxSheepSend) ==
    LET wheat     == Least(wheatReceived, maxWheatReceive)
        cost      == bigDivide(wheat * price.n, price.d, "ROUND_UP")
        sheepSend == Least(Least(cost, INT64_MAX), maxSheepSend)
        affords   == Least(bigDivide(sheepSend * price.d, price.n, "ROUND_DOWN"), INT64_MAX)
    IN [numWheatReceived |-> Least(wheat, affords),
        numSheepSend     |-> sheepSend,
        reduced          |-> \/ wheatReceived > maxWheatReceive
                             \/ Overflows(cost)
                             \/ Least(cost, INT64_MAX) > maxSheepSend]

\* ExchangeResult::type
ExchangeResultType(result) ==
    CASE result.numWheatReceived # 0 /\ result.numSheepSend # 0 -> "NORMAL"
      [] OTHER -> IF result.reduced THEN "REDUCED_TO_ZERO" ELSE "BOGUS"
-----------------------------------------------------------------------------
(* From protocol version 10 on. *)

\* The 1% bound on the error of the effective price.
checkPriceErrorBound(price, wheatReceive, sheepSend, canFavorWheat) ==
    LET lhs == 100 * price.n * wheatReceive
        rhs == 100 * price.d * sheepSend
    IN \/ canFavorWheat /\ rhs > lhs
       \/ (IF lhs > rhs THEN lhs - rhs ELSE rhs - lhs) =< price.n * wheatReceive

calculateOfferValue(priceN, priceD, maxSend, maxReceive) ==
    Least(maxSend * priceN, maxReceive * priceD)

\* The smaller side is used up; the amount of the more valuable asset is
\* computed first, and the rounding favours the side that stays.
exchangeV10WithoutPriceErrorThresholds(price, maxWheatSend, maxWheatReceive, maxSheepSend, maxSheepReceive, isPathPayment) ==
    LET wheatValue == calculateOfferValue(price.n, price.d, maxWheatSend, maxSheepReceive)
        sheepValue == calculateOfferValue(price.d, price.n, maxSheepSend, maxWheatReceive)
        wheatStays == wheatValue > sheepValue
        wheatFirst == price.n > price.d \/ (wheatStays /\ isPathPayment)
        wheat0     == bigDivide(Least(wheatValue, sheepValue), price.n, "ROUND_DOWN")
        sheep0     == bigDivide(Least(wheatValue, sheepValue), price.d, "ROUND_DOWN")
        wheatReceive ==
            IF wheatFirst THEN wheat0
            ELSE bigDivide(sheep0 * price.d, price.n,
                           IF wheatStays THEN "ROUND_DOWN" ELSE "ROUND_UP")
        sheepSend ==
            IF wheatFirst
            THEN bigDivide(wheat0 * price.n, price.d,
                           IF wheatStays THEN "ROUND_UP" ELSE "ROUND_DOWN")
            ELSE sheep0
    IN [numWheatReceived |-> wheatReceive,
        numSheepSend     |-> sheepSend,
        wheatStays       |-> wheatStays,
        thrown           |-> \/ Overflows(wheatReceive) \/ Overflows(sheepSend)
                             \/ wheatReceive < 0
                             \/ wheatReceive > Least(maxWheatReceive, maxWheatSend)
                             \/ sheepSend < 0
                             \/ sheepSend > Least(maxSheepReceive, maxSheepSend)]

\* No trade unless both sides get something and the price is near enough; a
\* path payment checks its price itself, so the book may be favoured.
applyPriceErrorThresholds(price, wheatReceive, sheepSend, wheatStays, isPathPayment) ==
    LET trades     == wheatReceive > 0 /\ sheepSend > 0
        wheatValue == wheatReceive * price.n
        sheepValue == sheepSend * price.d
        bounded    == checkPriceErrorBound(price, wheatReceive, sheepSend, isPathPayment)
    IN [numWheatReceived |-> IF trades /\ bounded THEN wheatReceive ELSE 0,
        numSheepSend     |-> IF trades /\ bounded THEN sheepSend ELSE 0,
        wheatStays       |-> wheatStays,
        thrown           |-> /\ trades
                             /\ \/ wheatStays /\ sheepValue < wheatValue
                                \/ ~wheatStays /\ sheepValue > wheatValue
                                \/ isPathPayment /\ ~bounded]

exchangeV10(price, maxWheatSend, maxWheatReceive, maxSheepSend, maxSheepReceive, isPathPayment) ==
    LET before == exchangeV10WithoutPriceErrorThresholds(price, maxWheatSend,
                      maxWheatReceive, maxSheepSend, maxSheepReceive, isPathPayment)
        after  == applyPriceErrorThresholds(price, before.numWheatReceived,
                      before.numSheepSend, before.wheatStays, isPathPayment)
    IN [numWheatReceived |-> after.numWheatReceived,
        numSheepSend     |-> after.numSheepSend,
        wheatStays       |-> after.wheatStays,
        thrown           |-> after.thrown \/ before.thrown]

\* What is left of an offer that a buyer without limits would take: the
\* amount is numWheatReceived of the result.
adjustOffer(price, maxWheatSend, maxSheepReceive) ==
    exchangeV10(price, maxWheatSend, INT64_MAX, INT64_MAX, maxSheepReceive, FALSE)
=============================================================================
