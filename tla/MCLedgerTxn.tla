---------------------------- MODULE MCLedgerTxn ----------------------------
(***************************************************************************)
(* Small instances of LedgerTxn, without a bound on the number of calls.   *)
(* Each scenario has the entries, the first tables, the calls and the      *)
(* nesting that one question needs:                                        *)
(*   "offers"    offers of one pair, two of them at one price;             *)
(*   "votes"     accounts whose balances vote for inflation destinations;  *)
(*   "handles"   one account, every call on it;                            *)
(*   "nesting"   one account, nested three deep, written and erased;       *)
(*   "tables"    an entry of each table, written in batches.               *)
(***************************************************************************)
EXTENDS LedgerTxn

CONSTANTS Scenarios, MaxWinners, MinVotes

VARIABLES scenario

Offer(id, price) ==
  [type |-> "offer", id |-> 1 + (id % 2), offerID |-> id, selling |-> "USD", buying |-> "XLM",
   price |-> price, lastModified |-> 1]
Account(id, balance, dest) ==
  [type |-> "account", id |-> id, balance |-> balance, inflationDest |-> dest,
   lastModified |-> 1]
Line == [type |-> "trustline", id |-> 1, asset |-> "USD", balance |-> 5, lastModified |-> 1]
Datum == [type |-> "data", id |-> 1, name |-> "d", value |-> 1, lastModified |-> 1]

Touched(s) ==
  CASE s = "offers" -> {Offer(1, <<2, 1>>), Offer(2, <<4, 2>>)}
    [] s = "votes" -> {Account(1, 6, 1), Account(1, 6, 2), Account(3, 5, 3)}
    [] s \in {"handles", "nesting"} -> {Account(1, 6, 1), Account(1, 3, 1)}
    [] s = "tables" -> {Line, Datum, Offer(1, <<1, 1>>), Account(1, 6, 1)}

AllEntries == UNION {Touched(s) : s \in {"offers", "votes", "handles", "tables"}}
                \cup {Account(2, 4, 3), Offer(3, <<3, 1>>)}
XlmForUsd == {[buying |-> "XLM", selling |-> "USD"]}

Stored(es) ==
  LET of(type) == {[e EXCEPT !.lastModified = 1] : e \in {e \in es : e.type = type}}
  IN bulkUpsertAccountData(bulkUpsertOffers(bulkUpsertTrustLines(
       bulkUpsertAccounts(EmptyTables, of("account")), of("trustline")), of("offer")), of("data"))

FirstTables(s) ==
  CASE s = "offers" -> {Stored({Offer(1, <<5, 1>>), Offer(2, <<4, 2>>), Offer(3, <<3, 1>>)})}
    [] s = "votes" -> {Stored({Account(1, 6, 1), Account(2, 4, 3), Account(3, 5, 3)})}
    [] s \in {"handles", "nesting"} -> {Stored({Account(1, 6, 1)}), EmptyTables}
    [] s = "tables" -> {Stored({Line, Datum}), EmptyTables}

Calls(s) ==
  CASE s = "offers" -> {"EraseWithoutLoading", "CreateOrUpdateWithoutLoading", "BestOffer"}
    [] s = "votes" -> {"CreateOrUpdateWithoutLoading", "EraseWithoutLoading", "Winners"}
    [] s = "handles" -> {"Create", "Modify", "Load", "LoadWithoutRecord", "Deactivate", "Erase",
                         "Header", "Seal"}
    [] s = "nesting" -> {"Create", "CreateOrUpdateWithoutLoading", "Erase", "EraseWithoutLoading"}
    [] s = "tables" -> {"CreateOrUpdateWithoutLoading", "EraseWithoutLoading", "AllOffers", "Wipe"}

MaxNesting(s) == CASE s = "nesting" -> 3 [] s = "tables" -> 1 [] OTHER -> 2

MCInit ==
  /\ scenario \in Scenarios
  /\ \E t \in FirstTables(scenario) : Init(t)

Has(call) == call \in Calls(scenario) /\ UNCHANGED scenario

\* The steps of LedgerTxn!Next that belong to the scenario.
MCNext ==
  \/ /\ Depth < MaxNesting(scenario) /\ UNCHANGED scenario
     /\ \E stamp \in {TRUE, scenario # "handles"} : Open(stamp)
  \/ \E e \in Touched(scenario) :
       \/ Has("Create") /\ Create(e)
       \/ Has("CreateOrUpdateWithoutLoading") /\ CreateOrUpdateWithoutLoading(e)
       \/ Has("Modify") /\ \E seq \in 0..MaxLedgerSeq : Modify([e EXCEPT !.lastModified = seq])
  \/ \E k \in {LedgerEntryKey(e) : e \in Touched(scenario)} :
       \/ Has("Load") /\ Load(k)
       \/ Has("LoadWithoutRecord") /\ LoadWithoutRecord(k)
       \/ Has("Deactivate") /\ Deactivate(k)
       \/ Has("Erase") /\ Erase(k)
       \/ Has("EraseWithoutLoading") /\ EraseWithoutLoading(k)
  \/ Has("Header") /\ LoadHeader
  \/ Has("Header") /\ AdvanceHeader
  \/ Has("Header") /\ DeactivateHeader
  \/ \E p \in Pairs : Has("BestOffer") /\ LoadBestOffer(p)
  \/ \E p \in Pairs, seller \in 1..2 :
       Has("AllOffers") /\ LoadOffersByAccountAndAsset(seller, p.selling)
  \/ Has("AllOffers") /\ LoadAllOffers
  \/ Has("Winners") /\ QueryInflationWinners
  \/ Has("Seal") /\ SealForEntries
  \/ Has("Seal") /\ SealForDelta
  \/ Has("Seal") /\ UnsealHeader
  \/ CommitToRoot /\ UNCHANGED scenario
  \/ CommitToParent /\ UNCHANGED scenario
  \/ \E i \in 1..Depth : Rollback(i) /\ UNCHANGED scenario
  \/ Restart /\ UNCHANGED scenario
  \/ \E ledger \in 1..MaxLedgerSeq : Has("Wipe") /\ DeleteObjectsModifiedOnOrAfterLedger(ledger)
  \/ \E type \in DOMAIN db : Has("Wipe") /\ Drop(type)

MCSpec == MCInit /\ [][MCNext]_<<vars, scenario>>

\* Every read sees the view, and so does the inflation operation, where as many
\* may win as there are destinations.
ReadsAreRight == ReadsSeeTheView /\ WinnersAreRight(MaxWinners, MinVotes)
=============================================================================
