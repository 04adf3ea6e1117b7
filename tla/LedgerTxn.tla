----------------------------- MODULE LedgerTxn -----------------------------
(***************************************************************************)
(* Nested ledger transactions (src/src/ledger/LedgerTxn.cpp): a stack of   *)
(* LedgerTxn objects over a LedgerTxnRoot, which owns the database, the    *)
(* entry cache and the best-offers cache.                                  *)
(*                                                                         *)
(* levels is the chain of children of the root, outermost first; the last  *)
(* one is the only LedgerTxn without a child.  A call that the code        *)
(* answers with an exception (sealed, has a child, key is active, ...)     *)
(* leaves the object as it was; here the action is not enabled.            *)
(***************************************************************************)
EXTENDS LedgerTxnSQL

CONSTANTS
  Entries,                        \* the entries a client writes
  Pairs,                          \* [buying, selling] of the best-offer queries
  MaxDepth,                       \* bound: how deep transactions nest
  MaxLedgerSeq,                   \* bound: the last ledger a client opens
  BATCH_SIZE,                     \* best offers fetched by one query
  LEDGER_ENTRY_BATCH_COMMIT_SIZE, \* entries written by one statement
  EntryCacheSize, BestOffersCacheSize

ASSUME BoundsAssumption ==
  /\ MaxDepth \in Nat \ {0} /\ BATCH_SIZE \in Nat \ {0}
  /\ LEDGER_ENTRY_BATCH_COMMIT_SIZE \in Nat

VARIABLES
  db,                \* the committed tables
  mHeader,           \* the root's header, reduced to its ledgerSeq
  mEntryCache,       \* key -> entry or NoEntry
  mBestOffersCache,  \* pair -> [bestOffers, allLoaded]
  levels,            \* the open LedgerTxns
  aborted            \* printErrorAndAbort was called

vars == <<db, mHeader, mEntryCache, mBestOffersCache, levels, aborted>>
root == <<db, mHeader>>

Keys == {LedgerEntryKey(e) : e \in Entries}
Depth == Len(levels)
top == levels[Depth]

-----------------------------------------------------------------------------
(* Reading through the levels.  Level 0 is the root.                       *)

rootNewestVersion(k) == IF k \in DOMAIN mEntryCache THEN mEntryCache[k] ELSE loadEntry(db, k)

Holding(i, k) == {j \in 1..i : k \in DOMAIN levels[j].mEntry}

RECURSIVE getNewestVersion(_, _)
getNewestVersion(i, k) ==
  IF i = 0 THEN rootNewestVersion(k)
  ELSE IF k \in DOMAIN levels[i].mEntry THEN levels[i].mEntry[k]
  ELSE getNewestVersion(i - 1, k)

\* The entry cache after the root was asked for the keys of ks: each is put
\* into the cache, and beyond the capacity the cache drops the oldest.  Which
\* those are is left open.
putInEntryCache(cache, ks) ==
  LET all == cache @@ [k \in ks |-> rootNewestVersion(k)]
      size == Min({EntryCacheSize, Cardinality(DOMAIN all)})
  IN {Restrict(all, S) : S \in kSubset(size, DOMAIN all)}

\* Reading the keys of ks at level i asks the root for those no level holds.
ReadAt(i, ks) == mEntryCache' \in putInEntryCache(mEntryCache, {k \in ks : Holding(i, k) = {}})

getHeader(i) == IF i = 0 THEN mHeader ELSE levels[i].mHeader

IsOffer(k) == k.type = "offer"

getAllOffersKeys(i) ==
  LET inDb == {LedgerEntryKey(o) : o \in loadAllOffers(db)}
      held == {k \in UNION {DOMAIN levels[j].mEntry : j \in 1..i} : IsOffer(k)}
  IN (inDb \ held) \cup {k \in held : getNewestVersion(i, k) # NoEntry}

\* An offer that a level holds is decided there, whatever the parents say.
getOffersByAccountAndAsset(i, account, asset) ==
  LET step[j \in 0..i] ==
        IF j = 0 THEN {LedgerEntryKey(o) : o \in loadOffersByAccountAndAsset(db, account, asset)}
        ELSE LET mine == {k \in DOMAIN levels[j].mEntry : IsOffer(k)}
                 kept == {k \in mine : LET e == levels[j].mEntry[k]
                                       IN /\ e # NoEntry
                                          /\ e.id = account
                                          /\ e.selling = asset \/ e.buying = asset}
             IN (step[j - 1] \ mine) \cup kept
  IN step[i]

-----------------------------------------------------------------------------
(* The best offer of an asset pair.                                        *)

EmptyBestOffers == [bestOffers |-> <<>>, allLoaded |-> FALSE]

getFromBestOffersCache(p) ==
  IF p \in DOMAIN mBestOffersCache THEN mBestOffersCache[p] ELSE EmptyBestOffers

findIncludedOffer(offers, exclude) ==
  LET included == SelectSeq(offers, LAMBDA o : LedgerEntryKey(o) \notin exclude)
  IN IF included = <<>> THEN NoEntry ELSE Head(included)

\* LedgerTxnRoot::Impl::getBestOffer: fetch batches until one offer is not
\* excluded.  The answer, and the list the cache then holds.
RECURSIVE rootBestOffer(_, _, _)
rootBestOffer(p, cached, exclude) ==
  LET res == findIncludedOffer(cached.bestOffers, exclude)
      offset == Len(cached.bestOffers)
      more == loadBestOffers(db, cached.bestOffers, p.buying, p.selling, BATCH_SIZE, offset)
  IN IF res # NoEntry \/ cached.allLoaded THEN [res |-> res, cached |-> cached]
     ELSE rootBestOffer(p, [bestOffers |-> more, allLoaded |-> Len(more) - offset < BATCH_SIZE],
                        exclude)

\* The best of two offers either of which may be missing.
BetterOf(o, parent) ==
  IF o = NoEntry THEN parent
  ELSE IF parent = NoEntry THEN o
  ELSE IF isBetterOffer(o, parent) THEN o ELSE parent

OffersHeld(j) == {k \in DOMAIN levels[j].mEntry : IsOffer(k)}

\* The offers that level i hides from level j, the loop's exclude set.
Excluded(j, i) == UNION {OffersHeld(l) : l \in (j + 1)..i}

\* The loop of LedgerTxn::Impl::getBestOffer over the level's own offers.
ownBestOffer(j, i, p) ==
  LET mine == {levels[j].mEntry[k] : k \in OffersHeld(j) \ Excluded(j, i)} \ {NoEntry}
      book == {o \in mine : o.buying = p.buying /\ o.selling = p.selling}
  IN IF book = {} THEN NoEntry
     ELSE CHOOSE o \in book : \A q \in book \ {o} : isBetterOffer(o, q)

rootBest(i, p) == rootBestOffer(p, getFromBestOffersCache(p), Excluded(0, i))

getBestOffer(i, p) ==
  LET best[j \in 0..i] == IF j = 0 THEN rootBest(i, p).res
                          ELSE BetterOf(ownBestOffer(j, i, p), best[j - 1])
  IN best[i]

\* What a best-offer query leaves in the two caches.
BestOfferRead(i, p) ==
  LET found == rootBest(i, p)
      all == (p :> found.cached) @@ mBestOffersCache
      kept == {S \in kSubset(Min({BestOffersCacheSize, Cardinality(DOMAIN all)}), DOMAIN all) :
                 p \in S}
      seen == IF found.res = NoEntry THEN {} ELSE {LedgerEntryKey(found.res)}
  IN /\ mBestOffersCache' \in {Restrict(all, S) : S \in kept}
     /\ mEntryCache' \in putInEntryCache((IF seen = {} THEN <<>>
                                            ELSE [k \in seen |-> found.res]) @@ mEntryCache, {})

-----------------------------------------------------------------------------
(* The inflation winners.                                                  *)

IsVote(e) == e # NoEntry /\ e.inflationDest # NULL /\ e.balance >= MIN_VOTES_TO_INCLUDE

VotesFor(d, es) == MapThenSumSet(LAMBDA e : e.balance, {e \in es : IsVote(e) /\ e.inflationDest = d})

AccountsHeld(i) == {k \in DOMAIN levels[i].mEntry : k.type = "account"}

\* What level i adds to or takes from the votes its parent counts.
getDeltaVotes(i) ==
  LET now == {levels[i].mEntry[k] : k \in AccountsHeld(i)}
      previous == {getNewestVersion(i - 1, k) : k \in AccountsHeld(i)}
      dests == {e.inflationDest : e \in {e \in now \cup previous : IsVote(e)}}
  IN [d \in dests |-> VotesFor(d, now) - VotesFor(d, previous)]

getTotalVotes(parentWinners, deltaVotes, minVotes) ==
  LET loaded == [d \in {w.id : w \in Range(parentWinners)} |->
                   (CHOOSE w \in Range(parentWinners) : w.id = d).votes]
      counted == {d \in DOMAIN deltaVotes : d \in DOMAIN loaded \/ deltaVotes[d] >= minVotes}
      base(d) == IF d \in DOMAIN loaded THEN loaded[d] ELSE 0
      change(d) == IF d \in counted THEN deltaVotes[d] ELSE 0
  IN [d \in DOMAIN loaded \cup counted |-> base(d) + change(d)]

enumerateInflationWinners(totalVotes, maxWinners, minVotes) ==
  LET winners == {[id |-> d, votes |-> totalVotes[d]] :
                    d \in {d \in DOMAIN totalVotes : totalVotes[d] >= minVotes}}
      sorted == SetToSortSeq(winners, MoreVotes)
  IN SubSeq(sorted, 1, Min({maxWinners, Len(sorted)}))

\* The threshold and the number of winners to ask the parent for.
newMaxWinners(deltaVotes, maxWinners) ==
  maxWinners + Cardinality({d \in DOMAIN deltaVotes : deltaVotes[d] # 0})

newMinVotes(deltaVotes, minVotes) ==
  Max({0, minVotes - Max({0} \cup Range(deltaVotes))})

RECURSIVE getInflationWinners(_, _, _)
getInflationWinners(i, maxWinners, minVotes) ==
  IF i = 0 THEN loadInflationWinners(db, maxWinners, minVotes)
  ELSE LET delta == getDeltaVotes(i)
           parents == getInflationWinners(i - 1, newMaxWinners(delta, maxWinners),
                                          newMinVotes(delta, minVotes))
       IN enumerateInflationWinners(getTotalVotes(parents, delta, minVotes), maxWinners, minVotes)

-----------------------------------------------------------------------------
(* Opening and using a LedgerTxn.  Every action below is one call, on the  *)
(* LedgerTxn that has no child.                                            *)

NewLedgerTxn(header, stamp) ==
  [mEntry |-> <<>>, mHeader |-> header, mActive |-> <<>>, mActiveHeader |-> FALSE,
   mIsSealed |-> FALSE, mShouldUpdateLastModified |-> stamp, mConsistency |-> "EXACT"]

Usable == Depth > 0 /\ ~top.mIsSealed /\ ~aborted

\* The constructor: addChild of the parent deactivates what the parent had.
Open(stamp) ==
  /\ ~aborted /\ Depth < MaxDepth
  /\ Depth > 0 => ~top.mIsSealed
  /\ LET below == [i \in 1..Depth |-> IF i < Depth THEN levels[i]
                      ELSE [levels[i] EXCEPT !.mActive = <<>>, !.mActiveHeader = FALSE]]
     IN levels' = Append(below, NewLedgerTxn(getHeader(Depth), stamp))
  /\ UNCHANGED <<root, mEntryCache, mBestOffersCache, aborted>>

SetTop(lvl) == levels' = [levels EXCEPT ![Depth] = lvl]

Record(lvl, k, e) == [lvl EXCEPT !.mEntry = (k :> e) @@ @]
Forget(lvl, k) == [lvl EXCEPT !.mEntry = Restrict(@, DOMAIN @ \ {k})]
Activate(lvl, k, handle) == [lvl EXCEPT !.mActive = (k :> handle) @@ @]
Deactivated(lvl, k) == [lvl EXCEPT !.mActive = Restrict(@, DOMAIN @ \ {k})]

Create(e) ==
  LET k == LedgerEntryKey(e) IN
  /\ Usable
  /\ getNewestVersion(Depth, k) = NoEntry
  /\ SetTop(Record(Activate(top, k, "rw"), k, e))
  /\ ReadAt(Depth, {k})
  /\ UNCHANGED <<root, mBestOffersCache, aborted>>

CreateOrUpdateWithoutLoading(e) ==
  LET k == LedgerEntryKey(e) IN
  /\ Usable
  /\ k \notin DOMAIN top.mActive
  /\ SetTop(Record(top, k, e))
  /\ UNCHANGED <<root, mEntryCache, mBestOffersCache, aborted>>

Load(k) ==
  /\ Usable
  /\ k \notin DOMAIN top.mActive
  /\ LET newest == getNewestVersion(Depth, k)
     IN IF newest = NoEntry THEN UNCHANGED levels
        ELSE SetTop(Record(Activate(top, k, "rw"), k, newest))
  /\ ReadAt(Depth, {k})
  /\ UNCHANGED <<root, mBestOffersCache, aborted>>

LoadWithoutRecord(k) ==
  /\ Usable
  /\ k \notin DOMAIN top.mActive
  /\ IF getNewestVersion(Depth, k) = NoEntry THEN UNCHANGED levels
     ELSE SetTop(Activate(top, k, "ro"))
  /\ ReadAt(Depth, {k})
  /\ UNCHANGED <<root, mBestOffersCache, aborted>>

\* A client writes through the LedgerTxnEntry that Load or Create gave it.
Modify(e) ==
  LET k == LedgerEntryKey(e) IN
  /\ Usable
  /\ k \in DOMAIN top.mActive /\ top.mActive[k] = "rw"
  /\ e.lastModified = top.mEntry[k].lastModified
  /\ SetTop(Record(top, k, e))
  /\ UNCHANGED <<root, mEntryCache, mBestOffersCache, aborted>>

\* The handle goes out of scope.
Deactivate(k) ==
  /\ Usable
  /\ k \in DOMAIN top.mActive
  /\ SetTop(Deactivated(top, k))
  /\ UNCHANGED <<root, mEntryCache, mBestOffersCache, aborted>>

\* Erased from the map when no parent has it, a tombstone otherwise.
Erased(lvl, k) ==
  IF getNewestVersion(Depth - 1, k) = NoEntry THEN Forget(lvl, k) ELSE Record(lvl, k, NoEntry)

Erase(k) ==
  /\ Usable
  /\ getNewestVersion(Depth, k) # NoEntry
  /\ SetTop(Deactivated(Erased(top, k), k))
  /\ ReadAt(Depth - 1, {k})
  /\ UNCHANGED <<root, mBestOffersCache, aborted>>

EraseWithoutLoading(k) ==
  /\ Usable
  /\ SetTop([Deactivated(Record(top, k, NoEntry), k) EXCEPT !.mConsistency = "EXTRA_DELETES"])
  /\ UNCHANGED <<root, mEntryCache, mBestOffersCache, aborted>>

LoadHeader ==
  /\ Usable
  /\ ~top.mActiveHeader
  /\ SetTop([top EXCEPT !.mActiveHeader = TRUE])
  /\ UNCHANGED <<root, mEntryCache, mBestOffersCache, aborted>>

\* A client opens the next ledger through its LedgerTxnHeader.
AdvanceHeader ==
  /\ Usable
  /\ top.mActiveHeader
  /\ top.mHeader.ledgerSeq < MaxLedgerSeq
  /\ SetTop([top EXCEPT !.mHeader.ledgerSeq = @ + 1])
  /\ UNCHANGED <<root, mEntryCache, mBestOffersCache, aborted>>

DeactivateHeader ==
  /\ Usable
  /\ top.mActiveHeader
  /\ SetTop([top EXCEPT !.mActiveHeader = FALSE])
  /\ UNCHANGED <<root, mEntryCache, mBestOffersCache, aborted>>

\* When the best offer is active load throws, but the caches have changed.
LoadBestOffer(p) ==
  /\ Usable
  /\ LET best == getBestOffer(Depth, p)
         k == LedgerEntryKey(best)
     IN IF best = NoEntry \/ k \in DOMAIN top.mActive THEN UNCHANGED levels
        ELSE SetTop(Record(Activate(top, k, "rw"), k, getNewestVersion(Depth, k)))
  /\ BestOfferRead(Depth, p)
  /\ UNCHANGED <<root, aborted>>

\* Loads every key of ks; when one of them is active the map is put back as
\* it was and the handles made so far are destroyed.
LoadEach(ks) ==
  /\ IF ks \cap DOMAIN top.mActive # {} THEN UNCHANGED levels
     ELSE SetTop([top EXCEPT !.mEntry = [k \in ks |-> getNewestVersion(Depth, k)] @@ @,
                             !.mActive = [k \in ks |-> "rw"] @@ @])
  /\ ReadAt(Depth, ks)

LoadAllOffers ==
  /\ Usable
  /\ LoadEach(getAllOffersKeys(Depth))
  /\ UNCHANGED <<root, mBestOffersCache, aborted>>

LoadOffersByAccountAndAsset(account, asset) ==
  /\ Usable
  /\ LoadEach(getOffersByAccountAndAsset(Depth, account, asset))
  /\ UNCHANGED <<root, mBestOffersCache, aborted>>

\* The query itself changes nothing but the entry cache.
QueryInflationWinners ==
  /\ Usable
  /\ ReadAt(0, UNION {AccountsHeld(i) : i \in 1..Depth})
  /\ UNCHANGED <<root, mBestOffersCache, levels, aborted>>

-----------------------------------------------------------------------------
(* Sealing, committing and rolling back.                                   *)

maybeUpdateLastModified(lvl) ==
  [k \in DOMAIN lvl.mEntry |->
     IF lvl.mEntry[k] = NoEntry \/ ~lvl.mShouldUpdateLastModified THEN lvl.mEntry[k]
     ELSE [lvl.mEntry[k] EXCEPT !.lastModified = lvl.mHeader.ledgerSeq]]

\* maybeUpdateLastModifiedThenInvokeThenSeal, but for the call it invokes.
Sealed(lvl) ==
  IF lvl.mIsSealed THEN lvl
  ELSE [lvl EXCEPT !.mEntry = maybeUpdateLastModified(lvl), !.mActive = <<>>,
                   !.mActiveHeader = FALSE, !.mIsSealed = TRUE]

\* The lists the callers get from a sealed LedgerTxn.
getLiveEntries(i) == Range(Sealed(levels[i]).mEntry) \ {NoEntry}

getDeadEntries(i) == {k \in DOMAIN levels[i].mEntry : levels[i].mEntry[k] = NoEntry}

getDelta(i) ==
  [k \in DOMAIN levels[i].mEntry |->
     [current |-> Sealed(levels[i]).mEntry[k], previous |-> getNewestVersion(i - 1, k)]]

\* The kinds of change getChanges reports; "ASSERT" where assert(entry) fails.
getChanges(i) ==
  [k \in DOMAIN levels[i].mEntry |->
     LET d == getDelta(i)[k] IN
     CASE d.previous # NoEntry /\ d.current # NoEntry -> "UPDATED"
       [] d.previous # NoEntry /\ d.current = NoEntry -> "REMOVED"
       [] d.previous = NoEntry /\ d.current # NoEntry -> "CREATED"
       [] d.previous = NoEntry /\ d.current = NoEntry -> "ASSERT"]

SealForEntries ==
  /\ Depth > 0 /\ ~aborted
  /\ ~top.mIsSealed
  /\ SetTop(Sealed(top))
  /\ UNCHANGED <<root, mEntryCache, mBestOffersCache, aborted>>

SealForDelta ==
  /\ Depth > 0 /\ ~aborted
  /\ top.mConsistency = "EXACT"
  /\ SetTop(Sealed(top))
  /\ ReadAt(Depth - 1, DOMAIN top.mEntry)
  /\ UNCHANGED <<root, mBestOffersCache, aborted>>

\* f writes the bucket list hash of the ledger into the header.
UnsealHeader ==
  /\ Depth > 0 /\ ~aborted
  /\ top.mIsSealed /\ ~top.mActiveHeader
  /\ SetTop([top EXCEPT !.mHeader.bucketListHash = top.mHeader.ledgerSeq])
  /\ UNCHANGED <<root, mEntryCache, mBestOffersCache, aborted>>

joinConsistencyLevels(c1, c2) == IF c1 = "EXACT" THEN c2 ELSE "EXTRA_DELETES"

commitChild_DropsTombstones(parent, child) ==
  LET dead == {k \in DOMAIN child.mEntry : child.mEntry[k] = NoEntry}
      changed == Restrict(child.mEntry, DOMAIN child.mEntry \ dead)
  IN [parent EXCEPT
        !.mConsistency = joinConsistencyLevels(@, child.mConsistency),
        !.mEntry = changed @@ Restrict(@, DOMAIN @ \ dead),
        !.mHeader = child.mHeader]

commitChild_KeepsTombstones(parent, child) ==
  [parent EXCEPT
     !.mConsistency = joinConsistencyLevels(@, child.mConsistency),
     !.mEntry = child.mEntry @@ @,
     !.mHeader = child.mHeader]

\* LedgerTxn::Impl::commitChild of the parent, the level below the top.
commitChild(parent, child) ==
  LET live == {k \in DOMAIN child.mEntry : child.mEntry[k] # NoEntry}
      dead == DOMAIN child.mEntry \ live
      created == {k \in dead : getNewestVersion(Depth - 2, k) = NoEntry}
      changed == Restrict(child.mEntry, DOMAIN child.mEntry \ created)
  IN [parent EXCEPT
        !.mConsistency = joinConsistencyLevels(@, child.mConsistency),
        !.mEntry = changed @@ Restrict(@, DOMAIN @ \ created),
        !.mHeader = child.mHeader]

-----------------------------------------------------------------------------
(* LedgerTxnRoot::Impl::commitChild: the entries are gathered into one     *)
(* buffer of upserts and one of deletes for each table; a buffer above the *)
(* batch size is written at once, and the last entry flushes them all.     *)

NoBuffers == [type \in DOMAIN EmptyTables |-> [upsert |-> {}, delete |-> {}]]

bulkUpsert(d, type, es) ==
  CASE type = "account" -> bulkUpsertAccounts(d, es)
    [] type = "trustline" -> bulkUpsertTrustLines(d, es)
    [] type = "offer" -> bulkUpsertOffers(d, es)
    [] type = "data" -> bulkUpsertAccountData(d, es)

bulkDelete(d, type, ks, cons) ==
  CASE type = "account" -> bulkDeleteAccounts(d, ks, cons)
    [] type = "trustline" -> bulkDeleteTrustLines(d, ks, cons)
    [] type = "offer" -> bulkDeleteOffers(d, ks, cons)
    [] type = "data" -> bulkDeleteAccountData(d, ks, cons)

\* BulkLedgerEntryChangeAccumulator::accumulate
accumulate(bleca, k, e) ==
  IF e = NoEntry THEN [bleca EXCEPT ![k.type].delete = @ \cup {k}]
  ELSE [bleca EXCEPT ![k.type].upsert = @ \cup {e}]

\* One table of bulkApply.  st is [db, bleca, ok].
applyBuffers(st, type, threshold, cons) ==
  LET up == st.bleca[type].upsert
      del == st.bleca[type].delete
      upserted == IF Cardinality(up) > threshold
                  THEN [st EXCEPT !.db = bulkUpsert(@, type, up), !.bleca[type].upsert = {}]
                  ELSE st
      d == bulkDelete(upserted.db, type, del, cons)
  IN IF Cardinality(del) > threshold
     THEN [upserted EXCEPT !.db = d.db, !.ok = @ /\ d.ok, !.bleca[type].delete = {}]
     ELSE upserted

bulkApply(st, threshold, cons) ==
  FoldLeft(LAMBDA s, type : applyBuffers(s, type, threshold, cons), st,
           <<"account", "trustline", "offer", "data">>)

\* The loop over the child's entries, in the order of the sequence ks.
writeEntries(entries, cons) ==
  LET ks == SetToSeq(DOMAIN entries)
      write(st, i) ==
        bulkApply([st EXCEPT !.bleca = accumulate(@, ks[i], entries[ks[i]])],
                  IF i < Len(ks) THEN LEDGER_ENTRY_BATCH_COMMIT_SIZE ELSE 0, cons)
  IN FoldLeft(write, [db |-> db, bleca |-> NoBuffers, ok |-> TRUE], [i \in 1..Len(ks) |-> i])

CommitToRoot_KeepsBestOffers ==
  /\ Depth = 1 /\ ~aborted
  /\ LET child == Sealed(top)
         written == writeEntries(child.mEntry, child.mConsistency)
     IN IF written.ok
        THEN /\ db' = written.db
             /\ mHeader' = child.mHeader
             /\ mEntryCache' = <<>>
             /\ UNCHANGED <<aborted, mBestOffersCache>>
        ELSE /\ aborted' = TRUE
             /\ UNCHANGED <<root, mEntryCache, mBestOffersCache>>
  /\ levels' = <<>>

\* The SQL transaction commits all of it or, when a statement fails, the
\* process aborts and the database keeps none of it.
CommitToRoot ==
  /\ Depth = 1 /\ ~aborted
  /\ LET child == Sealed(top)
         written == writeEntries(child.mEntry, child.mConsistency)
     IN IF written.ok
        THEN /\ db' = written.db
             /\ mHeader' = child.mHeader
             /\ mEntryCache' = <<>> /\ mBestOffersCache' = <<>>
             /\ UNCHANGED aborted
        ELSE /\ aborted' = TRUE
             /\ UNCHANGED <<root, mEntryCache, mBestOffersCache>>
  /\ levels' = <<>>

CommitToParent ==
  /\ Depth > 1 /\ ~aborted
  /\ LET child == Sealed(top)
         dead == {k \in DOMAIN child.mEntry : child.mEntry[k] = NoEntry}
     IN /\ levels' = [Front(levels) EXCEPT ![Depth - 1] = commitChild(@, child)]
        /\ ReadAt(Depth - 2, dead)
  /\ UNCHANGED <<root, mBestOffersCache, aborted>>

\* rollback of level i, explicit or by the destructor: its children first.
\* The root rolls its SQL transaction back and keeps its caches.
Rollback(i) ==
  /\ ~aborted
  /\ levels' = SubSeq(levels, 1, i - 1)
  /\ UNCHANGED <<root, mEntryCache, mBestOffersCache, aborted>>

\* The process dies, or aborted, and starts again on what is in the database.
Restart ==
  /\ Depth > 0 \/ aborted
  /\ levels' = <<>> /\ mEntryCache' = <<>> /\ mBestOffersCache' = <<>>
  /\ aborted' = FALSE
  /\ UNCHANGED root

\* What catchup does to the tables before it applies buckets: only without
\* children, and the caches are emptied.
DeleteObjectsModifiedOnOrAfterLedger(ledger) ==
  /\ Depth = 0 /\ ~aborted
  /\ db' = deleteObjectsModifiedOnOrAfterLedger(db, ledger)
  /\ mEntryCache' = <<>> /\ mBestOffersCache' = <<>>
  /\ UNCHANGED <<mHeader, levels, aborted>>

Drop(type) ==
  /\ Depth = 0 /\ ~aborted
  /\ db' = dropTable(db, type)
  /\ mEntryCache' = <<>> /\ mBestOffersCache' = <<>>
  /\ UNCHANGED <<mHeader, levels, aborted>>

Init(tables) ==
  /\ db = tables
  /\ mHeader = [ledgerSeq |-> 1, bucketListHash |-> 1]
  /\ mEntryCache = <<>> /\ mBestOffersCache = <<>>
  /\ levels = <<>>
  /\ aborted = FALSE

Next ==
  \/ \E stamp \in BOOLEAN : Open(stamp)
  \/ \E e \in Entries : Create(e) \/ CreateOrUpdateWithoutLoading(e) \/ Modify(e)
  \/ \E k \in Keys : \/ Load(k) \/ LoadWithoutRecord(k) \/ Deactivate(k)
                     \/ Erase(k) \/ EraseWithoutLoading(k)
  \/ LoadHeader \/ AdvanceHeader \/ DeactivateHeader
  \/ \E p \in Pairs : \/ LoadBestOffer(p)
                      \/ \E k \in Keys : LoadOffersByAccountAndAsset(k.id, p.selling)
  \/ LoadAllOffers \/ QueryInflationWinners
  \/ SealForEntries \/ SealForDelta \/ UnsealHeader
  \/ CommitToRoot \/ CommitToParent
  \/ \E i \in 1..Depth : Rollback(i)
  \/ Restart
  \/ \E ledger \in 1..MaxLedgerSeq : DeleteObjectsModifiedOnOrAfterLedger(ledger)
  \/ \E type \in DOMAIN db : Drop(type)

-----------------------------------------------------------------------------
(* Properties.                                                             *)

\* The ledger as level i should see it, caches left out.
View(i, k) ==
  LET own == Holding(i, k)
  IN IF own = {} THEN loadEntry(db, k) ELSE levels[Max(own)].mEntry[k]

OffersIn(i) == {View(i, k) : k \in {k \in Keys : IsOffer(k)}} \ {NoEntry}
AccountsIn(i) == {View(i, k) : k \in {k \in Keys : k.type = "account"}} \ {NoEntry}

BestIn(i, p) ==
  LET book == {o \in OffersIn(i) : o.buying = p.buying /\ o.selling = p.selling}
  IN IF book = {} THEN NoEntry
     ELSE CHOOSE o \in book : \A q \in book \ {o} : isBetterOffer(o, q)

BulkLoad(type, ks) ==
  CASE type = "account" -> bulkLoadAccounts(db, ks)
    [] type = "trustline" -> bulkLoadTrustLines(db, ks)
    [] type = "offer" -> bulkLoadOffers(db, ks)
    [] type = "data" -> bulkLoadData(db, ks)

\* Every way to read the ledger gives what the overlaid maps say, at every
\* level and whatever the caches hold: a single key, all offers, the offers of
\* an account in an asset, the best offer of a pair (with its batches and
\* exclusions), and the bulk loads of the tables.
ReadsSeeTheView ==
  \A i \in 0..Depth :
    /\ \A k \in Keys : getNewestVersion(i, k) = View(i, k)
    /\ getAllOffersKeys(i) = {LedgerEntryKey(o) : o \in OffersIn(i)}
    /\ \A p \in Pairs :
         /\ getBestOffer(i, p) = BestIn(i, p)
         /\ \A a \in {k.id : k \in Keys} :
              getOffersByAccountAndAsset(i, a, p.selling)
                = {LedgerEntryKey(o) : o \in {o \in OffersIn(i) :
                     o.id = a /\ (o.selling = p.selling \/ o.buying = p.selling)}}
    /\ i = 0 => \A type \in DOMAIN db :
                  LET ks == {k \in Keys : k.type = type}
                  IN BulkLoad(type, ks) = [k \in ks |-> View(0, k)]

\* The inflation winners found by adding each level's change of votes to the
\* parent's winners are those of a count over all accounts of the view.
WinnersAreRight(maxWinners, minVotes) ==
  \A i \in 0..Depth :
    LET accounts == AccountsIn(i)
        dests == {e.inflationDest : e \in {e \in accounts : IsVote(e)}}
        all == [d \in dests |-> VotesFor(d, accounts)]
    IN getInflationWinners(i, maxWinners, minVotes)
         = enumerateInflationWinners(all, maxWinners, minVotes)

\* A LedgerTxn that only loaded what it erased holds no tombstone for a key
\* its parent does not have: the assert of getChanges holds, and a commit to
\* the database deletes as many rows as it expects, so it never aborts.
ExactMeansExact ==
  /\ ~aborted
  /\ \A i \in 1..Depth : levels[i].mConsistency = "EXACT" => "ASSERT" \notin Range(getChanges(i))

Content(e) == IF e = NoEntry THEN e ELSE [e EXCEPT !.lastModified = 0]
LedgerAt(i) == [entries |-> [k \in Keys |-> Content(getNewestVersion(i, k))], header |-> getHeader(i)]

Nested == INSTANCE NestedTransactions
            WITH committed <- LedgerAt(0), views <- [i \in 1..Depth |-> LedgerAt(i)]

\* The stack of maps over caches and tables behaves as a stack of ledgers:
\* opening copies, committing and rolling back replace or drop exactly one
\* ledger (or the rolled-back level's children with it), and nothing a client
\* does in the innermost transaction shows in another.
ImplementsNesting == Nested!Spec
=============================================================================
