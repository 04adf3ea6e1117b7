--------------------------- MODULE MCLedgerClose ----------------------------
(***************************************************************************)
(* Three accounts, the issuer I of the one credit asset USD among them,    *)
(* that close a few ledgers with the transactions below.                   *)
(***************************************************************************)
EXTENDS LedgerClose

CONSTANTS
    I, A, B, USD,       \* the accounts and the credit asset
    Scenarios           \* what may happen: a set of the scenarios below

VARIABLE scenario

Accounts == {I, A, B}
Credits == {USD}
Issuers == [s \in {USD} |-> I]
AccountOrder == {<<I, A>>, <<I, B>>, <<A, B>>}

Percent(n) == [n |-> n, d |-> 100]
Ten == Percent(10)
One == Percent(1)

ToVersion10 == <<[type |-> "LEDGER_UPGRADE_VERSION", value |-> 10]>>
RaiseReserve == <<[type |-> "LEDGER_UPGRADE_BASE_RESERVE", value |-> 8]>>
LowerReserve == <<[type |-> "LEDGER_UPGRADE_BASE_RESERVE", value |-> 4]>>
OneTx == <<[type |-> "LEDGER_UPGRADE_MAX_TX_SET_SIZE", value |-> 1],
           [type |-> "LEDGER_UPGRADE_BASE_FEE", value |-> 2]>>

\* The protocol version of the first ledger, the transactions that may be
\* submitted, the upgrades that consensus may agree on, the transactions
\* received per ledger and the ledgers closed.
Scenario(version, names, upgrades, pending, ledgers) ==
    [version |-> version, names |-> names, upgrades |-> upgrades \cup {<<>>},
     pending |-> pending, ledgers |-> ledgers]

Upgrading == Scenario(9, {"sellUSD", "sellXLM", "path", "revoke"},
                      {ToVersion10, LowerReserve, OneTx}, 2, 2)
Trading == Scenario(10, {"sellUSD", "sellXLM", "passive", "update", "path", "trust"},
                    {LowerReserve}, 2, 2)
Waiting == Scenario(9, {"sellUSD", "sellMore", "sellXLM", "revoke", "payBack"},
                    {ToVersion10}, 1, 4)
Matching == Scenario(10, {"sellUSD", "sellMore", "sellXLM", "passive", "update", "path"},
                     {LowerReserve}, 1, 4)
Issuing == Scenario(10, {"payBack", "sellMore", "revoke", "allow"}, {}, 2, 3)
Returning == Scenario(10, {"bump", "leave", "create"}, {}, 2, 4)
Signing == Scenario(10, {"sign", "preauth", "vote"}, {}, 2, 3)
Raising == Scenario(10, {"sellUSD", "sellXLM"}, {RaiseReserve}, 1, 3)

AllScenarios == {Upgrading, Trading, Waiting, Matching, Issuing, Returning, Signing}
OnlyRaising == {Raising}
OnlyFull == {Scenario(10, {"sellAll", "payI"}, {}, 1, 3)}
-----------------------------------------------------------------------------
Price(n, d) == [n |-> n, d |-> d]

Sell(selling, buying, amount, price) ==
    [type |-> "MANAGE_OFFER", offerID |-> 0, selling |-> selling, buying |-> buying,
     amount |-> amount, price |-> price]

Pay(destination, asset, amount) ==
    [type |-> "PAYMENT", destination |-> destination, asset |-> asset, amount |-> amount]

PreAuth == [type |-> "PRE_AUTH_TX", id |-> <<"preauth", 0>>]

\* Source and operations of every transaction.
Transaction == [
    sellUSD     |-> <<A, <<Sell(USD, NATIVE, 20, Price(3, 2))>>>>,
    sellMore    |-> <<A, <<Sell(USD, NATIVE, 25, Price(1, 1))>>>>,
    sellXLM     |-> <<B, <<Sell(NATIVE, USD, 15, Price(2, 3))>>>>,
    passive     |-> <<B, <<[Sell(NATIVE, USD, 9, Price(2, 3)) EXCEPT !.type = "CREATE_PASSIVE_OFFER"]>>>>,
    sellAll     |-> <<I, <<Sell(USD, NATIVE, 130, Price(2, 1))>>>>,
    update      |-> <<A, <<[Sell(USD, NATIVE, 8, Price(2, 1)) EXCEPT !.offerID = 1],
                          [Sell(USD, NATIVE, 0, Price(2, 1)) EXCEPT !.offerID = 1]>>>>,
    payI        |-> <<B, <<Pay(I, NATIVE, 10)>>>>,
    payBack     |-> <<A, <<Pay(I, USD, 12), Pay(B, USD, 3)>>>>,
    path        |-> <<B, <<[type |-> "PATH_PAYMENT", destination |-> A, path |-> <<>>,
                            sendAsset |-> NATIVE, sendMax |-> 20, destAsset |-> USD,
                            destAmount |-> 7]>>>>,
    revoke      |-> <<I, <<[type |-> "ALLOW_TRUST", trustor |-> A, asset |-> USD,
                            authorize |-> FALSE]>>>>,
    allow       |-> <<I, <<[type |-> "ALLOW_TRUST", trustor |-> A, asset |-> USD,
                            authorize |-> TRUE], [type |-> "INFLATION"]>>>>,
    trust       |-> <<B, <<[type |-> "CHANGE_TRUST", line |-> USD, limit |-> 30],
                          [type |-> "MANAGE_DATA", dataName |-> "x", dataValue |-> "v"]>>>>,
    leave       |-> <<A, <<Pay(I, USD, 30), [type |-> "CHANGE_TRUST", line |-> USD, limit |-> 0],
                          [type |-> "ACCOUNT_MERGE", destination |-> B]>>>>,
    bump        |-> <<A, <<[type |-> "BUMP_SEQUENCE", bumpTo |-> 12]>>>>,
    create      |-> <<B, <<[type |-> "CREATE_ACCOUNT", destination |-> A, startingBalance |-> 20]>>>>,
    vote        |-> <<A, <<[type |-> "SET_OPTIONS", inflationDest |-> A],
                          [type |-> "MANAGE_DATA", dataName |-> "y"]>>>>,
    sign        |-> <<A, <<[type |-> "SET_OPTIONS", inflationDest |-> B, masterWeight |-> 2,
                            signer |-> [key |-> PreAuth, weight |-> 2]]>>>>,
    preauth     |-> <<A, <<[type |-> "SET_OPTIONS", medThreshold |-> 2,
                            setFlags |-> {"AUTH_IMMUTABLE"}]>>>>]

\* The transaction for its source's next number, or one after.
Envelope(name, seqNum) ==
    LET t == Transaction[name]
    IN [contents |-> <<name, IF name = "preauth" THEN 0 ELSE seqNum>>,
        sourceAccount |-> t[1], fee |-> Len(t[2]) * 2, seqNum |-> seqNum, operations |-> t[2],
        signatures |-> IF name = "preauth" THEN <<>> ELSE <<Key("ED25519", t[1])>>]

Received(name) ==
    LET a == Transaction[name][1]
    IN IF a \notin DOMAIN ledger.account THEN {}
       ELSE {Envelope(name, ledger.account[a].seqNum + i) : i \in 1 .. 2}

\* Sets of received transactions that can all be valid.
Pending ==
    LET next(e) == ledger.account[e.sourceAccount].seqNum + 1
    IN {S \in UNION {kSubset(k, UNION {Received(n) : n \in scenario.names}) :
                    k \in 0 .. scenario.pending} :
          \A e \in S : /\ \A f \in S \ {e} : f.sourceAccount = e.sourceAccount => f.seqNum # e.seqNum
                       /\ e.seqNum > next(e) => \E f \in S : /\ f.sourceAccount = e.sourceAccount
                                                            /\ f.seqNum = next(e)}
-----------------------------------------------------------------------------
FirstAccount(balance, flags) ==
    [balance |-> balance, seqNum |-> SeqPerLedger, numSubEntries |-> 0,
     inflationDest |-> NoAccount, flags |-> flags, signers |-> [k \in {} |-> 0],
     thresholds |-> [master |-> 1, low |-> 0, med |-> 0, high |-> 0],
     buying |-> 0, selling |-> 0]

Init ==
    /\ scenario \in Scenarios
    /\ ledger =
         [header    |-> [ledgerVersion |-> scenario.version, ledgerSeq |-> 1, baseFee |-> 1,
                         baseReserve |-> 5, feePool |-> 0, totalCoins |-> 160, idPool |-> 0,
                         inflationSeq |-> 0, closeTime |-> 0, maxTxSetSize |-> 2],
          account   |-> (I :> FirstAccount(40, {"AUTH_REQUIRED", "AUTH_REVOCABLE"}))
                        @@ (A :> [FirstAccount(60, {}) EXCEPT !.numSubEntries = 1])
                        @@ (B :> [FirstAccount(60, {}) EXCEPT !.numSubEntries = 1]),
          trustLine |-> (<<A, USD>> :> [balance |-> 30, limit |-> 80, authorized |-> TRUE,
                                        buying |-> 0, selling |-> 0])
                        @@ (<<B, USD>> :> [balance |-> 20, limit |-> 45, authorized |-> TRUE,
                                           buying |-> 0, selling |-> 0]),
          offer     |-> [id \in {} |-> 0],
          data      |-> {}]
    /\ applied = <<>>
    /\ outcome = [broken |-> {}, codes |-> {}]

Next ==
    /\ ledger.header.ledgerSeq =< scenario.ledgers
    /\ \E upgrades \in scenario.upgrades :
           /\ \A i \in DOMAIN upgrades : isUpgradeValid(ledger, upgrades[i], 10)
           /\ \E pending \in Pending :
                  CloseLedger(pending, AccountOrder, ledger.header.closeTime + 1, upgrades)
    /\ UNCHANGED scenario

Spec == Init /\ [][Next]_<<vars, scenario>>
=============================================================================
