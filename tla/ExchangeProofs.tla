--------------------------- MODULE ExchangeProofs ---------------------------
(***************************************************************************)
(* What the comment before exchangeV10 argues in four pages, for every     *)
(* INT64_MAX, price and amount: the amounts stay within their limits, the  *)
(* rounding favours the side that stays, and nothing is thrown.            *)
(***************************************************************************)
EXTENDS Exchange, TLAPS

\* What an integer division says.
LEMMA Division ==
    ASSUME NEW a \in Nat, NEW b \in Nat \ {0}
    PROVE  /\ a \div b \in Nat
           /\ b * (a \div b) =< a
           /\ a < b * (a \div b) + b
  OBVIOUS

\* Products with a positive factor keep the order of the other factors.
LEMMA Cancel ==
    ASSUME NEW a \in Int, NEW b \in Int, NEW c \in Nat \ {0}
    PROVE  /\ c * a =< c * b <=> a =< b
           /\ c * a < c * b <=> a < b
  OBVIOUS

\* bigDivide rounds to a neighbour of the quotient, and no bound on the
\* quotient is exceeded in either direction.
LEMMA Rounding ==
    ASSUME NEW a \in Nat, NEW b \in Nat \ {0}
    PROVE  /\ RoundDown(a, b) \in Nat
           /\ RoundUp(a, b) \in Nat
           /\ b * RoundDown(a, b) =< a
           /\ a =< b * RoundUp(a, b)
           /\ \A m \in Nat : a =< b * m => RoundDown(a, b) =< m /\ RoundUp(a, b) =< m
  <1> DEFINE down == a \div b
             up   == (a + b - 1) \div b
  <1>1. down \in Nat /\ b * down =< a
    BY Division
  <1>2. up \in Nat /\ b * up =< a + b - 1 /\ a + b - 1 < b * up + b
    BY Division, a + b - 1 \in Nat
  <1>3. a =< b * up
    BY <1>2
  <1>4. ASSUME NEW m \in Nat, a =< b * m
        PROVE  down =< m /\ up =< m
    <2>1. b * down =< b * m
      BY <1>1, <1>4
    <2>2. b * up < b * (m + 1)
      BY <1>2, <1>4
    <2> QED BY <2>1, <2>2, <1>1, <1>2, Cancel
  <1> QED BY <1>1, <1>2, <1>3, <1>4 DEF RoundDown, RoundUp

\* The amount of one asset is rounded down, and from it the other amount is
\* computed.  Both respect every limit that v respects, in whatever direction
\* the second is rounded.
LEMMA TwoSteps ==
    ASSUME NEW v \in Nat, NEW x \in Nat \ {0}, NEW y \in Nat \ {0}
    PROVE  LET first == RoundDown(v, x)
               down  == RoundDown(first * x, y)
               up    == RoundUp(first * x, y)
           IN /\ first \in Nat /\ down \in Nat /\ up \in Nat
              /\ y * down =< first * x /\ first * x =< y * up
              /\ \A m \in Nat : v =< m * x => first =< m
              /\ \A m \in Nat : v =< m * y => down =< m /\ up =< m
  <1> DEFINE first == RoundDown(v, x)
  <1>1. /\ first \in Nat /\ x * first =< v
        /\ \A m \in Nat : v =< x * m => first =< m
    BY Rounding
  <1> HIDE DEF first
  <1>2. first * x \in Nat /\ first * x =< v
    BY <1>1
  <1>3. /\ RoundDown(first * x, y) \in Nat /\ RoundUp(first * x, y) \in Nat
        /\ y * RoundDown(first * x, y) =< first * x
        /\ first * x =< y * RoundUp(first * x, y)
        /\ \A m \in Nat : first * x =< y * m =>
               RoundDown(first * x, y) =< m /\ RoundUp(first * x, y) =< m
    BY <1>2, Rounding
  <1>4. ASSUME NEW m \in Nat, v =< m * y
        PROVE  RoundDown(first * x, y) =< m /\ RoundUp(first * x, y) =< m
    <2>1. first * x =< y * m
      BY <1>2, <1>4
    <2> QED BY <1>3, <2>1
  <1>5. ASSUME NEW m \in Nat, v =< m * x
        PROVE  first =< m
    BY <1>1, <1>5
  <1> QED BY <1>1, <1>3, <1>4, <1>5 DEF first

-----------------------------------------------------------------------------
\* The value of an offer is within both of its limits, and the smaller value
\* of two offers is within all four.
LEMMA Values ==
    ASSUME NEW price, IsPrice(price),
           NEW maxWheatSend \in Nat, NEW maxWheatReceive \in Nat,
           NEW maxSheepSend \in Nat, NEW maxSheepReceive \in Nat
    PROVE  LET v == Least(calculateOfferValue(price.n, price.d, maxWheatSend, maxSheepReceive),
                          calculateOfferValue(price.d, price.n, maxSheepSend, maxWheatReceive))
           IN /\ v \in Nat
              /\ v =< maxWheatSend * price.n /\ v =< maxWheatReceive * price.n
              /\ v =< maxSheepSend * price.d /\ v =< maxSheepReceive * price.d
  <1> DEFINE a == maxWheatSend * price.n
             b == maxSheepReceive * price.d
             c == maxSheepSend * price.d
             e == maxWheatReceive * price.n
  <1>1. a \in Nat /\ b \in Nat /\ c \in Nat /\ e \in Nat
    BY DEF IsPrice
  <1> HIDE DEF a, b, c, e
  <1>2. LET v == Least(Least(a, b), Least(c, e))
        IN v \in Nat /\ v =< a /\ v =< b /\ v =< c /\ v =< e
    BY <1>1 DEF Least
  <1> QED BY <1>2 DEF calculateOfferValue, a, b, c, e

\* The comment "Neither of these should ever throw": whatever the price and
\* the limits, exchangeV10WithoutPriceErrorThresholds moves no more than
\* either side allows of either asset, neither division overflows, and the
\* rounding favours the side whose offer stays in the book.
THEOREM ExchangeWithinLimits ==
    ASSUME NEW price, IsPrice(price), NEW isPathPayment \in BOOLEAN,
           NEW maxWheatSend \in 0..INT64_MAX, NEW maxWheatReceive \in 0..INT64_MAX,
           NEW maxSheepSend \in 0..INT64_MAX, NEW maxSheepReceive \in 0..INT64_MAX
    PROVE  LET res == exchangeV10WithoutPriceErrorThresholds(price, maxWheatSend,
                          maxWheatReceive, maxSheepSend, maxSheepReceive, isPathPayment)
           IN /\ res.numWheatReceived \in Nat /\ res.numSheepSend \in Nat
              /\ ~res.thrown
              /\ res.wheatStays =>
                     res.numSheepSend * price.d >= res.numWheatReceived * price.n
              /\ ~res.wheatStays =>
                     res.numSheepSend * price.d =< res.numWheatReceived * price.n
  <1> DEFINE n == price.n
             d == price.d
             wheatValue == calculateOfferValue(n, d, maxWheatSend, maxSheepReceive)
             sheepValue == calculateOfferValue(d, n, maxSheepSend, maxWheatReceive)
             v == Least(wheatValue, sheepValue)
             wheatStays == wheatValue > sheepValue
             wheatFirst == n > d \/ (wheatStays /\ isPathPayment)
             wheat0 == RoundDown(v, n)
             sheep0 == RoundDown(v, d)
             wheatDown == RoundDown(sheep0 * d, n)
             wheatUp == RoundUp(sheep0 * d, n)
             sheepDown == RoundDown(wheat0 * n, d)
             sheepUp == RoundUp(wheat0 * n, d)
             wheatReceive == IF wheatFirst THEN wheat0
                             ELSE IF wheatStays THEN wheatDown ELSE wheatUp
             sheepSend == IF wheatFirst
                          THEN IF wheatStays THEN sheepUp ELSE sheepDown
                          ELSE sheep0
             res == exchangeV10WithoutPriceErrorThresholds(price, maxWheatSend,
                        maxWheatReceive, maxSheepSend, maxSheepReceive, isPathPayment)
  <1>1. /\ INT64_MAX \in Nat
        /\ maxWheatSend \in Nat /\ maxWheatSend =< INT64_MAX
        /\ maxWheatReceive \in Nat /\ maxWheatReceive =< INT64_MAX
        /\ maxSheepSend \in Nat /\ maxSheepSend =< INT64_MAX
        /\ maxSheepReceive \in Nat /\ maxSheepReceive =< INT64_MAX
    BY INT64_MAXAssumption DEF INT64_MAXAssumption
  <1>2. n \in Nat \ {0} /\ d \in Nat \ {0}
    BY DEF IsPrice
  <1>3. /\ v \in Nat
        /\ v =< maxWheatSend * n /\ v =< maxWheatReceive * n
        /\ v =< maxSheepSend * d /\ v =< maxSheepReceive * d
    BY <1>1, Values
  <1>4. res = [numWheatReceived |-> wheatReceive,
               numSheepSend     |-> sheepSend,
               wheatStays       |-> wheatStays,
               thrown           |-> \/ Overflows(wheatReceive) \/ Overflows(sheepSend)
                                    \/ wheatReceive < 0
                                    \/ wheatReceive > Least(maxWheatReceive, maxWheatSend)
                                    \/ sheepSend < 0
                                    \/ sheepSend > Least(maxSheepReceive, maxSheepSend)]
    BY DEF exchangeV10WithoutPriceErrorThresholds, bigDivide
  <1> HIDE DEF n, d, wheatValue, sheepValue, v, res
  <1>5. /\ wheat0 \in Nat /\ sheepDown \in Nat /\ sheepUp \in Nat
        /\ d * sheepDown =< wheat0 * n /\ wheat0 * n =< d * sheepUp
        /\ wheat0 =< maxWheatSend /\ wheat0 =< maxWheatReceive
        /\ sheepDown =< maxSheepSend /\ sheepDown =< maxSheepReceive
        /\ sheepUp =< maxSheepSend /\ sheepUp =< maxSheepReceive
    BY <1>1, <1>2, <1>3, TwoSteps
  <1>6. /\ sheep0 \in Nat /\ wheatDown \in Nat /\ wheatUp \in Nat
        /\ n * wheatDown =< sheep0 * d /\ sheep0 * d =< n * wheatUp
        /\ sheep0 =< maxSheepSend /\ sheep0 =< maxSheepReceive
        /\ wheatDown =< maxWheatSend /\ wheatDown =< maxWheatReceive
        /\ wheatUp =< maxWheatSend /\ wheatUp =< maxWheatReceive
    BY <1>1, <1>2, <1>3, TwoSteps
  <1> HIDE DEF wheat0, sheep0, wheatDown, wheatUp, sheepDown, sheepUp, wheatStays, wheatFirst
  <1>7. /\ wheatReceive \in Nat /\ wheatReceive =< maxWheatSend /\ wheatReceive =< maxWheatReceive
        /\ sheepSend \in Nat /\ sheepSend =< maxSheepSend /\ sheepSend =< maxSheepReceive
    BY <1>5, <1>6
  <1>8. wheatStays => wheatReceive * n =< sheepSend * d
    <2>1. CASE wheatFirst
      BY <1>2, <1>5, <2>1
    <2>2. CASE ~wheatFirst
      BY <1>2, <1>6, <2>2
    <2> QED BY <2>1, <2>2
  <1>9. ~wheatStays => sheepSend * d =< wheatReceive * n
    <2>1. CASE wheatFirst
      BY <1>2, <1>5, <2>1
    <2>2. CASE ~wheatFirst
      BY <1>2, <1>6, <2>2
    <2> QED BY <2>1, <2>2
  <1> HIDE DEF wheatReceive, sheepSend
  <1>10. /\ ~Overflows(wheatReceive) /\ ~Overflows(sheepSend)
         /\ ~(wheatReceive < 0) /\ ~(sheepSend < 0)
         /\ ~(wheatReceive > Least(maxWheatReceive, maxWheatSend))
         /\ ~(sheepSend > Least(maxSheepReceive, maxSheepSend))
    BY <1>1, <1>7 DEF Overflows, Least
  <1>11. /\ res.numWheatReceived = wheatReceive /\ res.numSheepSend = sheepSend
         /\ res.wheatStays = wheatStays /\ ~res.thrown
    BY <1>4, <1>10, Zenon
  <1>12. wheatReceive * n \in Nat /\ sheepSend * d \in Nat
    BY <1>2, <1>7
  <1> QED BY <1>7, <1>8, <1>9, <1>11, <1>12 DEF n, d, res
-----------------------------------------------------------------------------
\* The quotient is the only number with the property of Division.
LEMMA Quotient ==
    ASSUME NEW a \in Nat, NEW b \in Nat \ {0}, NEW q \in Nat,
           b * q =< a, a < b * q + b
    PROVE  RoundDown(a, b) = q
  <1> DEFINE r == a \div b
  <1>1. r \in Nat /\ b * r =< a /\ a < b * r + b
    BY Division
  <1> HIDE DEF r
  <1>2. b * r < b * (q + 1) /\ b * q < b * (r + 1)
    BY <1>1
  <1>3. r < q + 1 /\ q < r + 1
    BY <1>1, <1>2, Cancel
  <1> QED BY <1>1, <1>3 DEF RoundDown, r

\* An adjusted offer whose whole amount is taken is exchanged for just what
\* adjustOffer found, by whomever and with whatever other limits.
LEMMA Readjusted ==
    ASSUME NEW n \in Nat \ {0}, NEW d \in Nat \ {0},
           NEW maxWheatSend \in Nat, NEW maxSheepReceive \in Nat
    PROVE  LET v == calculateOfferValue(n, d, maxWheatSend, maxSheepReceive)
           IN /\ LET w == RoundDown(v, n)
                 IN RoundDown(calculateOfferValue(n, d, w, maxSheepReceive), n) = w
              /\ ~(n > d) =>
                     LET s == RoundDown(v, d)
                         w == RoundUp(s * d, n)
                     IN RoundDown(calculateOfferValue(n, d, w, maxSheepReceive), d) = s
  <1> DEFINE v == calculateOfferValue(n, d, maxWheatSend, maxSheepReceive)
             limit == maxSheepReceive * d
  <1>1. v \in Nat /\ limit \in Nat /\ v =< limit
    BY DEF calculateOfferValue, Least
  <1> HIDE DEF v, limit
  <1>2. RoundDown(calculateOfferValue(n, d, RoundDown(v, n), maxSheepReceive), n)
            = RoundDown(v, n)
    <2> DEFINE w == RoundDown(v, n)
    <2>1. w \in Nat /\ n * w =< v
      BY <1>1, Rounding
    <2> HIDE DEF w
    <2>2. w * n \in Nat /\ w * n =< limit /\ n * w = w * n
      BY <1>1, <2>1
    <2>3. Least(w * n, limit) = w * n
      BY <1>1, <2>2 DEF Least
    <2>4. RoundDown(w * n, n) = w
      BY <2>1, <2>2, Quotient
    <2> QED BY <2>3, <2>4 DEF calculateOfferValue, limit, w
  <1>3. ASSUME ~(n > d)
        PROVE  RoundDown(calculateOfferValue(n, d, RoundUp(RoundDown(v, d) * d, n),
                                             maxSheepReceive), d) = RoundDown(v, d)
    <2> DEFINE s == RoundDown(v, d)
               w == RoundUp(s * d, n)
    <2>1. s \in Nat /\ d * s =< v
      BY <1>1, Rounding
    <2> HIDE DEF s
    <2>2. s * d \in Nat /\ d * s = s * d
      BY <2>1
    <2>3. w \in Nat /\ s * d =< n * w
      BY <2>2, Rounding
    <2>4. n * w < s * d + n
      <3>1. s * d + n - 1 \in Nat
        BY <2>2
      <3>2. n * w =< s * d + n - 1
        BY <3>1, Division DEF RoundUp
      <3> QED BY <2>2, <2>3, <3>2
    <2> HIDE DEF w
    <2>5. w * n \in Nat /\ n * w = w * n
      BY <2>3
    <2>6. /\ Least(w * n, limit) \in Nat
          /\ d * s =< Least(w * n, limit)
          /\ Least(w * n, limit) < d * s + d
      BY <1>1, <1>3, <2>1, <2>2, <2>3, <2>4, <2>5 DEF Least
    <2>7. RoundDown(Least(w * n, limit), d) = s
      BY <2>1, <2>6, Quotient
    <2> QED BY <2>7 DEF calculateOfferValue, limit, w, s
  <1> QED BY <1>2, <1>3 DEF v
-----------------------------------------------------------------------------
\* The error bound lets the seller of the wheat be favoured without limit,
\* and what it accepts without that it accepts with it.
LEMMA FavouredWheat ==
    ASSUME NEW price, IsPrice(price), NEW wheat \in Nat, NEW sheep \in Nat
    PROVE  /\ sheep * price.d >= wheat * price.n =>
                  checkPriceErrorBound(price, wheat, sheep, TRUE)
           /\ checkPriceErrorBound(price, wheat, sheep, FALSE) =>
                  checkPriceErrorBound(price, wheat, sheep, TRUE)
  <1> DEFINE lhs == 100 * price.n * wheat
             rhs == 100 * price.d * sheep
             err == price.n * wheat
  <1>1. /\ lhs \in Nat /\ rhs \in Nat /\ err \in Nat
        /\ sheep * price.d >= wheat * price.n => rhs >= lhs
    BY DEF IsPrice
  <1> HIDE DEF lhs, rhs, err
  <1>2. rhs >= lhs => rhs > lhs \/ (IF lhs > rhs THEN lhs - rhs ELSE rhs - lhs) =< err
    BY <1>1
  <1> QED BY <1>1, <1>2 DEF checkPriceErrorBound, lhs, rhs, err

\* What exchangeV10 returns, in terms of the amounts before the thresholds.
LEMMA Thresholds ==
    ASSUME NEW price, IsPrice(price), NEW isPathPayment \in BOOLEAN,
           NEW maxWheatSend \in 0..INT64_MAX, NEW maxWheatReceive \in 0..INT64_MAX,
           NEW maxSheepSend \in 0..INT64_MAX, NEW maxSheepReceive \in 0..INT64_MAX
    PROVE  LET before == exchangeV10WithoutPriceErrorThresholds(price, maxWheatSend,
                             maxWheatReceive, maxSheepSend, maxSheepReceive, isPathPayment)
               after  == exchangeV10(price, maxWheatSend, maxWheatReceive,
                             maxSheepSend, maxSheepReceive, isPathPayment)
               w      == before.numWheatReceived
               s      == before.numSheepSend
               bound  == checkPriceErrorBound(price, w, s, isPathPayment)
           IN /\ after.numWheatReceived = IF w > 0 /\ s > 0 /\ bound THEN w ELSE 0
              /\ after.numSheepSend = IF w > 0 /\ s > 0 /\ bound THEN s ELSE 0
              /\ after.thrown <=> w > 0 /\ s > 0 /\ isPathPayment /\ ~bound
  <1> DEFINE before == exchangeV10WithoutPriceErrorThresholds(price, maxWheatSend,
                           maxWheatReceive, maxSheepSend, maxSheepReceive, isPathPayment)
             after == exchangeV10(price, maxWheatSend, maxWheatReceive,
                           maxSheepSend, maxSheepReceive, isPathPayment)
             w == before.numWheatReceived
             s == before.numSheepSend
             bound == checkPriceErrorBound(price, w, s, isPathPayment)
             wn == w * price.n
             sd == s * price.d
  <1>1. /\ w \in Nat /\ s \in Nat /\ ~before.thrown
        /\ before.wheatStays => sd >= wn
        /\ ~before.wheatStays => sd =< wn
    BY ExchangeWithinLimits
  <1>2. wn \in Nat /\ sd \in Nat
    BY <1>1 DEF IsPrice
  <1>3. after = [numWheatReceived |-> IF (w > 0 /\ s > 0) /\ bound THEN w ELSE 0,
                 numSheepSend     |-> IF (w > 0 /\ s > 0) /\ bound THEN s ELSE 0,
                 wheatStays       |-> before.wheatStays,
                 thrown           |-> \/ /\ w > 0 /\ s > 0
                                         /\ \/ before.wheatStays /\ sd < wn
                                            \/ ~before.wheatStays /\ sd > wn
                                            \/ isPathPayment /\ ~bound
                                      \/ before.thrown]
    BY Zenon DEF exchangeV10, applyPriceErrorThresholds
  <1> HIDE DEF before, after, wn, sd
  <1>4. ~(before.wheatStays /\ sd < wn) /\ ~(~before.wheatStays /\ sd > wn)
    BY <1>1, <1>2
  <1> HIDE DEF w, s, bound
  <1>5. /\ after.numWheatReceived = IF w > 0 /\ s > 0 /\ bound THEN w ELSE 0
        /\ after.numSheepSend = IF w > 0 /\ s > 0 /\ bound THEN s ELSE 0
    BY <1>3, Zenon
  <1>6. after.thrown <=> \/ /\ w > 0 /\ s > 0
                            /\ \/ before.wheatStays /\ sd < wn
                               \/ ~before.wheatStays /\ sd > wn
                               \/ isPathPayment /\ ~bound
                         \/ before.thrown
    BY <1>3, Zenon
  <1>7. after.thrown <=> w > 0 /\ s > 0 /\ isPathPayment /\ ~bound
    BY <1>1, <1>4, <1>6, Zenon
  <1> QED BY <1>5, <1>7, Zenon DEF before, after, w, s, bound

\* An exchange with the book that is not a path payment (convertWithOffers of
\* an offer operation, and adjustOffer) never throws: no offer operation is
\* ended by one of the runtime_errors of exchangeV10.
THEOREM OfferExchangeNeverThrows ==
    ASSUME NEW price, IsPrice(price),
           NEW maxWheatSend \in 0..INT64_MAX, NEW maxWheatReceive \in 0..INT64_MAX,
           NEW maxSheepSend \in 0..INT64_MAX, NEW maxSheepReceive \in 0..INT64_MAX
    PROVE  ~exchangeV10(price, maxWheatSend, maxWheatReceive, maxSheepSend,
                        maxSheepReceive, FALSE).thrown
  BY Thresholds

\* What adjustOffer makes of an offer.
IsAdjusted(offer, price, maxWheatSend, maxSheepReceive) ==
    offer = adjustOffer(price, maxWheatSend, maxSheepReceive).numWheatReceived

\* What adjustOffer leaves is within the limits, and whoever takes all of it
\* exchanges exactly what adjustOffer found acceptable.
LEMMA Adjusted ==
    ASSUME NEW price, IsPrice(price), NEW isPathPayment \in BOOLEAN,
           NEW maxWheatSend \in 0..INT64_MAX, NEW maxWheatReceive \in 0..INT64_MAX,
           NEW maxSheepSend \in 0..INT64_MAX, NEW maxSheepReceive \in 0..INT64_MAX,
           NEW offer, IsAdjusted(offer, price, maxWheatSend, maxSheepReceive)
    PROVE  LET res == exchangeV10WithoutPriceErrorThresholds(price, offer,
                          maxWheatReceive, maxSheepSend, maxSheepReceive, isPathPayment)
           IN /\ offer \in 0..maxWheatSend
              /\ offer > 0 /\ ~res.wheatStays =>
                     /\ res.numWheatReceived >= offer
                     /\ res.numSheepSend > 0
                     /\ checkPriceErrorBound(price, res.numWheatReceived,
                                             res.numSheepSend, FALSE)
  <1> DEFINE n == price.n
             d == price.d
             adj == exchangeV10WithoutPriceErrorThresholds(price, maxWheatSend,
                        INT64_MAX, INT64_MAX, maxSheepReceive, FALSE)
             w == adj.numWheatReceived
             s == adj.numSheepSend
             res == exchangeV10WithoutPriceErrorThresholds(price, offer,
                        maxWheatReceive, maxSheepSend, maxSheepReceive, isPathPayment)
             v == calculateOfferValue(n, d, maxWheatSend, maxSheepReceive)
             left == calculateOfferValue(n, d, offer, maxSheepReceive)
  <1>1. /\ INT64_MAX \in 0..INT64_MAX /\ INT64_MAX \in Nat
        /\ maxWheatSend \in Nat /\ maxSheepReceive \in Nat
        /\ maxWheatReceive \in Nat /\ maxSheepSend \in Nat
    BY INT64_MAXAssumption DEF INT64_MAXAssumption
  <1>2. n \in Nat \ {0} /\ d \in Nat \ {0}
    BY DEF IsPrice
  <1>3. w \in Nat /\ s \in Nat /\ ~adj.thrown
    BY <1>1, ExchangeWithinLimits
  <1>4. offer = IF w > 0 /\ s > 0 /\ checkPriceErrorBound(price, w, s, FALSE) THEN w ELSE 0
    BY <1>1, Thresholds, ZenonT(40) DEF adjustOffer, IsAdjusted
  <1>5. w =< maxWheatSend
    <2>1. adj.thrown = \/ Overflows(w) \/ Overflows(s) \/ w < 0
                       \/ w > Least(INT64_MAX, maxWheatSend)
                       \/ s < 0 \/ s > Least(maxSheepReceive, INT64_MAX)
      BY Zenon DEF exchangeV10WithoutPriceErrorThresholds
    <2>2. ~(w > Least(INT64_MAX, maxWheatSend))
      BY <1>3, <2>1, Zenon
    <2> HIDE DEF w
    <2> QED BY <1>1, <1>3, <2>2 DEF Least
  <1>6. ~(v > calculateOfferValue(d, n, INT64_MAX, INT64_MAX))
    <2>1. /\ maxWheatSend * n =< INT64_MAX * n
          /\ maxSheepReceive * d =< INT64_MAX * d
      BY <1>1, <1>2
    <2> DEFINE a == maxWheatSend * n
               b == maxSheepReceive * d
               c == INT64_MAX * d
               e == INT64_MAX * n
    <2>2. a \in Nat /\ b \in Nat /\ c \in Nat /\ e \in Nat /\ a =< e /\ b =< c
      BY <1>1, <1>2, <2>1
    <2> HIDE DEF a, b, c, e
    <2>3. ~(Least(a, b) > Least(c, e))
      BY <2>2 DEF Least
    <2> QED BY <2>3 DEF calculateOfferValue, a, b, c, e
  <1>7. /\ n > d => w = RoundDown(v, n) /\ s = RoundDown(RoundDown(v, n) * n, d)
        /\ ~(n > d) => s = RoundDown(v, d) /\ w = RoundUp(RoundDown(v, d) * d, n)
    <2> DEFINE other == calculateOfferValue(d, n, INT64_MAX, INT64_MAX)
    <2>1. v \in Nat /\ other \in Nat
      BY <1>1, <1>2 DEF calculateOfferValue, Least
    <2> HIDE DEF v, other
    <2>2. Least(v, other) = v
      BY <1>6, <2>1 DEF Least, other
    <2> QED BY <1>6, <2>2, Zenon
            DEF exchangeV10WithoutPriceErrorThresholds, bigDivide, v, other
  <1>8. offer \in Nat /\ offer =< maxWheatSend
    <2>1. offer = w \/ offer = 0
      BY <1>4, Zenon
    <2> HIDE DEF w, s
    <2> QED BY <1>1, <1>3, <1>5, <2>1
  <1>9. ASSUME ~res.wheatStays
        PROVE  /\ n > d => /\ res.numWheatReceived = RoundDown(left, n)
                           /\ res.numSheepSend = RoundDown(RoundDown(left, n) * n, d)
               /\ ~(n > d) => /\ res.numSheepSend = RoundDown(left, d)
                              /\ res.numWheatReceived = RoundUp(RoundDown(left, d) * d, n)
    <2> DEFINE other == calculateOfferValue(d, n, maxSheepSend, maxWheatReceive)
    <2>1. res.wheatStays = (left > other)
      BY Zenon DEF exchangeV10WithoutPriceErrorThresholds
    <2>2. ~(left > other)
      BY <1>9, <2>1, Zenon
    <2>3. left \in Nat /\ other \in Nat
      BY <1>1, <1>2, <1>8 DEF calculateOfferValue, Least
    <2> HIDE DEF left, other
    <2>4. Least(left, other) = left
      BY <2>2, <2>3 DEF Least
    <2> QED BY <2>2, <2>4, Zenon
            DEF exchangeV10WithoutPriceErrorThresholds, bigDivide, left, other
  <1> HIDE DEF adj, res, n, d
  <1>10. ASSUME offer > 0
         PROVE  offer = w /\ s > 0 /\ checkPriceErrorBound(price, w, s, FALSE)
    <2>1. offer # 0
      BY <1>8, <1>10
    <2> QED BY <1>4, <2>1, Zenon
  <1>11. ASSUME offer > 0, ~res.wheatStays
         PROVE  res.numWheatReceived = w /\ res.numSheepSend = s /\ w >= offer
    <2>1. offer = w
      BY <1>10, <1>11, Zenon
    <2>2. w >= offer
      BY <1>8, <2>1
    <2>3. CASE n > d
      <3>1. RoundDown(left, n) = w
        BY <1>1, <1>2, <1>7, <2>1, <2>3, Readjusted
      <3> QED BY <1>7, <1>9, <1>11, <2>2, <2>3, <3>1, Zenon
    <2>4. CASE ~(n > d)
      <3>1. RoundDown(left, d) = s
        BY <1>1, <1>2, <1>7, <2>1, <2>4, Readjusted
      <3> QED BY <1>7, <1>9, <1>11, <2>2, <2>4, <3>1, Zenon
    <2> QED BY <2>3, <2>4
  <1>12. offer \in 0..maxWheatSend
    BY <1>1, <1>8
  <1> QED BY <1>10, <1>11, <1>12, Zenon DEF res

\* The comment in applyPriceErrorThresholds: "the offer was adjusted
\* immediately before exchangeV10, so we know that it satisfies the threshold
\* in this case".  An offer that adjustOffer has passed, as crossOfferV10 does
\* first, can be crossed by anybody, a path payment included, without an
\* exception.
THEOREM AdjustedOfferNeverThrows ==
    ASSUME NEW price, IsPrice(price), NEW isPathPayment \in BOOLEAN,
           NEW maxWheatSend \in 0..INT64_MAX, NEW maxWheatReceive \in 0..INT64_MAX,
           NEW maxSheepSend \in 0..INT64_MAX, NEW maxSheepReceive \in 0..INT64_MAX
    PROVE  LET offer == adjustOffer(price, maxWheatSend, maxSheepReceive).numWheatReceived
           IN ~exchangeV10(price, offer, maxWheatReceive, maxSheepSend,
                           maxSheepReceive, isPathPayment).thrown
  <1> DEFINE offer == adjustOffer(price, maxWheatSend, maxSheepReceive).numWheatReceived
             res == exchangeV10WithoutPriceErrorThresholds(price, offer,
                        maxWheatReceive, maxSheepSend, maxSheepReceive, isPathPayment)
             w == res.numWheatReceived
             s == res.numSheepSend
  <1>0. IsAdjusted(offer, price, maxWheatSend, maxSheepReceive)
    BY Zenon DEF IsAdjusted
  <1> HIDE DEF offer
  <1>1. /\ offer \in 0..maxWheatSend
        /\ offer > 0 /\ ~res.wheatStays =>
               w >= offer /\ s > 0 /\ checkPriceErrorBound(price, w, s, FALSE)
    BY <1>0, Adjusted, Zenon
  <1>2. offer \in 0..INT64_MAX
    BY <1>1, INT64_MAXAssumption DEF INT64_MAXAssumption
  <1>3. /\ w \in Nat /\ s \in Nat
        /\ res.wheatStays => s * price.d >= w * price.n
        /\ ~res.thrown
    BY <1>2, ExchangeWithinLimits
  <1>4. exchangeV10(price, offer, maxWheatReceive, maxSheepSend, maxSheepReceive,
                    isPathPayment).thrown
            <=> w > 0 /\ s > 0 /\ isPathPayment /\ ~checkPriceErrorBound(price, w, s, isPathPayment)
    BY <1>2, Thresholds, ZenonT(40)
  <1>5. w > 0 => offer > 0
    <2>1. res.thrown = \/ Overflows(w) \/ Overflows(s) \/ w < 0
                       \/ w > Least(maxWheatReceive, offer)
                       \/ s < 0 \/ s > Least(maxSheepReceive, maxSheepSend)
      BY Zenon DEF exchangeV10WithoutPriceErrorThresholds
    <2>2. ~(w > Least(maxWheatReceive, offer))
      BY <1>3, <2>1, Zenon
    <2> HIDE DEF w
    <2> QED BY <1>2, <1>3, <2>2 DEF Least
  <1> HIDE DEF res
  <1>6. CASE res.wheatStays
    <2>1. checkPriceErrorBound(price, w, s, TRUE)
      BY <1>3, <1>6, FavouredWheat
    <2> QED BY <1>4, <2>1, Zenon DEF offer
  <1>7. CASE ~res.wheatStays
    <2>1. w > 0 => checkPriceErrorBound(price, w, s, TRUE)
      BY <1>1, <1>3, <1>5, <1>7, FavouredWheat
    <2> QED BY <1>4, <2>1, Zenon DEF offer
  <1> QED BY <1>6, <1>7

\* adjustOffer leaves alone an offer it has already adjusted.  crossOfferV10
\* adjusts an offer before and after it is crossed and a manage-offer operation
\* the one it stores, so that an offer whose seller's limits do not change
\* keeps its amount, and with it the liabilities recorded for it.
THEOREM AdjustingTwiceChangesNothing ==
    ASSUME NEW price, IsPrice(price),
           NEW maxWheatSend \in 0..INT64_MAX, NEW maxSheepReceive \in 0..INT64_MAX
    PROVE  LET offer == adjustOffer(price, maxWheatSend, maxSheepReceive).numWheatReceived
           IN adjustOffer(price, offer, maxSheepReceive).numWheatReceived = offer
  <1> DEFINE offer == adjustOffer(price, maxWheatSend, maxSheepReceive).numWheatReceived
             res == exchangeV10WithoutPriceErrorThresholds(price, offer, INT64_MAX,
                        INT64_MAX, maxSheepReceive, FALSE)
             w == res.numWheatReceived
             s == res.numSheepSend
             again == adjustOffer(price, offer, maxSheepReceive).numWheatReceived
  <1>1. INT64_MAX \in 0..INT64_MAX /\ FALSE \in BOOLEAN
    BY INT64_MAXAssumption DEF INT64_MAXAssumption
  <1>0. IsAdjusted(offer, price, maxWheatSend, maxSheepReceive)
    BY Zenon DEF IsAdjusted
  <1> HIDE DEF offer
  <1>2. /\ offer \in 0..maxWheatSend
        /\ offer > 0 /\ ~res.wheatStays =>
               w >= offer /\ s > 0 /\ checkPriceErrorBound(price, w, s, FALSE)
    BY <1>0, <1>1, Adjusted, Zenon
  <1>3. offer \in 0..INT64_MAX
    BY <1>2, INT64_MAXAssumption DEF INT64_MAXAssumption
  <1>4. again \in 0..offer
    BY <1>1, <1>3, Adjusted, Zenon DEF IsAdjusted
  <1>5. again = IF w > 0 /\ s > 0 /\ checkPriceErrorBound(price, w, s, FALSE) THEN w ELSE 0
    BY <1>1, <1>3, Thresholds, ZenonT(40) DEF adjustOffer
  <1>6. ~res.wheatStays
    <2> DEFINE a == offer * price.n
               b == maxSheepReceive * price.d
               c == INT64_MAX * price.d
               e == INT64_MAX * price.n
    <2>1. a \in Nat /\ b \in Nat /\ c \in Nat /\ e \in Nat /\ a =< e /\ b =< c
      BY <1>1, <1>3 DEF IsPrice
    <2>2. res.wheatStays = (Least(a, b) > Least(c, e))
      BY Zenon DEF exchangeV10WithoutPriceErrorThresholds, calculateOfferValue
    <2> HIDE DEF a, b, c, e, res
    <2>3. ~(Least(a, b) > Least(c, e))
      BY <2>1 DEF Least
    <2> QED BY <2>2, <2>3, Zenon
  <1>7. CASE offer > 0
    <2>1. w >= offer /\ s > 0 /\ checkPriceErrorBound(price, w, s, FALSE)
      BY <1>2, <1>6, <1>7, Zenon
    <2>2. w \in Nat
      BY <1>1, <1>3, ExchangeWithinLimits
    <2>3. w > 0
      <3> HIDE DEF w, s, again
      <3> QED BY <1>3, <1>7, <2>1, <2>2
    <2>4. again = w
      BY <1>5, <2>1, <2>3, Zenon
    <2> HIDE DEF again, w
    <2>5. again = offer
      BY <1>3, <1>4, <2>1, <2>2, <2>4
    <2> QED BY <2>5 DEF again, offer
  <1>8. CASE ~(offer > 0)
    <2> HIDE DEF again
    <2>1. again = offer
      BY <1>3, <1>4, <1>8
    <2> QED BY <2>1 DEF again, offer
  <1> QED BY <1>7, <1>8
=============================================================================
