------------------------------- MODULE Catchup ------------------------------
(***************************************************************************)
(* A node that closes ledgers, publishes checkpoints, falls behind,        *)
(* catches up from an archive, and stops at any point: the ledger manager  *)
(* over the bucket list and its files, with CatchupWork and its children   *)
(* and PublishWork as the works that run next to it.                       *)
(*                                                                         *)
(*   lm      the ledger manager; its store is the record bm of BucketList  *)
(*   cw      CatchupWork: its phase and what the phases hand on            *)
(*   heard   the last slot the herder handed over                          *)
(*   gaps, failures, restarts   how many there were, for the bounds        *)
(***************************************************************************)
EXTENDS LedgerManager, BucketList

CONSTANTS
    NetworkData(_),        \* the close data of a slot
    Batch(_),              \* the entries a ledger writes: [live, dead]
    ArchiveLedgers(_, _),  \* the headers of a checkpoint, in an archive with a flaw
    ArchiveTxSet(_, _),    \* the transaction set of a ledger, in an archive with a flaw
    ArchiveState(_),       \* the HistoryArchiveState of a checkpoint
    Flaws,                 \* what can be wrong with an archive
    GenesisHeader,         \* the first ledger
    LastSlot, MaxGaps, MaxFailures, MaxRestarts   \* bounds

\* The network numbers its ledgers from 1, and what a node publishes of its
\* bucket list has the output of every merge: ResolveSnapshotWork waits for them.
ASSUME NetworkAssumption ==
    /\ LastSlot \in Nat /\ CatchupCount \in Nat /\ GenesisHeader.seq = 1
    /\ \A slot \in 1 .. LastSlot : NetworkData(slot).seq = slot

ASSUME ArchiveAssumption ==
    \A seq \in 1 .. LastSlot :
        LET has == ArchiveState(seq)
        IN /\ has.seq \in Nat
           /\ has.levels = [i \in Levels |-> [curr |-> has.levels[i].curr, snap |-> has.levels[i].snap,
                                             next |-> has.levels[i].next]]
           /\ \A i \in Levels : has.levels[i].next \in {ClearFuture, setHashOutput(has.levels[i].next.output)}

VARIABLES lm, cw, heard, gaps, failures, restarts

vars == <<lm, cw, heard, gaps, failures, restarts>>

NoCatchup == [phase |-> "NONE"]
Catchups == [phase : {"LEDGERS", "VERIFY", "BUCKETS", "APPLY", "APPLIED", "TRANSACTIONS", "REPLAY"},
             range : [first : 1 .. LastSlot, last : 1 .. LastSlot, buckets : BOOLEAN],
             flaw : Flaws \cup {"none"}, level : Levels, applying : BOOLEAN, next : 1 .. LastSlot]
-----------------------------------------------------------------------------
\* LedgerManagerImpl::ledgerClosed and storeCurrentLedger: the batch goes to
\* the bucket list at once, the rest is part of the transaction.
ledgerClosed(bm, header, batch) ==
    LET added == adoptFilesAsBuckets([bm EXCEPT !.levels = addBatch(@, header.seq, batch)],
                                     batchFiles(bm.levels, header.seq, batch))
    IN [added EXCEPT !.db.lcl = header, !.db.has = HistoryArchiveState(header.seq, added.levels),
                     !.db.entries = batch.live @@ Restrict(@, DOMAIN @ \ DOMAIN batch.dead)]

maybeQueueHistoryCheckpoint(bm, lcl) ==
    IF lcl + 1 = nextCheckpointLedger(lcl + 1) THEN queueCurrentHistory(bm) ELSE bm

\* The end of closeLedger: the checkpoint is queued within the transaction, the
\* transaction committed, and only then are checkpoints published and files
\* forgotten.  A crash leaves the files of the batch and the database of
\* either before or after the commit.
closeStore(bm, header, d) ==
    LET closed    == ledgerClosed(bm, header, Batch(header.seq))
        committed == maybeQueueHistoryCheckpoint(closed, header.seq)
        forgotten == forgetUnreferencedBuckets(publishQueuedHistory(committed))
    IN [forgotten EXCEPT !.trail = {[files |-> committed.files, db |-> bm.db],
                                    [files |-> committed.files, db |-> committed.db]}]

\* historyCaughtup(APPLIED_BUCKETS): the applied ledger is stored as the last closed.
assumeStore(bm, lastClosed) ==
    [bm EXCEPT !.db.lcl = lastClosed, !.db.has = HistoryArchiveState(lastClosed.seq, bm.levels),
               !.torn = FALSE]

\* The main thread is done with the handler: a crash finds what is stored now.
settled(l) == [l EXCEPT !.store.trail = {}]

Running == lm.failed = "" /\ lm.store.failed = ""
-----------------------------------------------------------------------------
\* VerifyLedgerChainWork.  A header is [seq, prev, value, hash].
verifyLedgerHistoryEntry(h) == h.hash = LedgerHash(h.prev, h.value)

verifyLedgerHistoryLink(prev, h) == verifyLedgerHistoryEntry(h) /\ h.prev = prev

\* The file of a checkpoint is read up to the end of the range.
lastRead(file, range) ==
    LET ends == {i \in DOMAIN file : file[i].seq = range.last}
    IN IF ends = {} THEN Len(file) ELSE Min(ends)

verifyHistoryOfSingleCheckpoint_NotAhead(file, checkpoint, range, lastClosed, ahead) ==
    LET n == lastRead(file, range)
    IN /\ file # <<>>
       /\ \A i \in 1 .. n :
             /\ i = 1 => verifyLedgerHistoryEntry(file[i])
             /\ i > 1 => /\ file[i].seq = file[i - 1].seq + 1
                         /\ verifyLedgerHistoryLink(file[i - 1].hash, file[i])
       /\ file[n].seq \in {checkpoint, range.last}

\* ahead is the hash that the
\* next checkpoint, or the trusted target, names for the last ledger read.
verifyHistoryOfSingleCheckpoint(file, checkpoint, range, lastClosed, ahead) ==
    LET n == lastRead(file, range)
    IN /\ file # <<>>
       /\ \A i \in 1 .. n :
             /\ file[i].seq = lastClosed.seq =>
                    LedgerHash(file[i].prev, file[i].value) = lastClosed.hash
             /\ file[i].seq = lastClosed.seq + 1 =>
                    verifyLedgerHistoryLink(lastClosed.hash, file[i])
             /\ i = 1 => verifyLedgerHistoryEntry(file[i])
             /\ i > 1 => /\ file[i].seq = file[i - 1].seq + 1
                         /\ verifyLedgerHistoryLink(file[i - 1].hash, file[i])
       /\ file[n].seq \in {checkpoint, range.last}
       /\ file[n].hash = ahead

\* From the last checkpoint of the range to the first.
verifyLedgers(range, lastClosed, trusted, flaw) ==
    LET first == checkpointContainingLedger(range.first)
        last  == checkpointContainingLedger(range.last)
        ahead(c) == IF c = last THEN trusted
                    ELSE Head(ArchiveLedgers(c + CheckpointFrequency, flaw)).prev
    IN \A c \in {x \in first .. last : (last - x) % CheckpointFrequency = 0} :
          verifyHistoryOfSingleCheckpoint(ArchiveLedgers(c, flaw), c, range, lastClosed, ahead(c))

\* mVerifiedLedgerRangeStart: the last header read of the first checkpoint.
verifiedLedgerRangeStart(range, flaw) ==
    LET file == ArchiveLedgers(checkpointContainingLedger(range.first), flaw)
    IN file[lastRead(file, range)]

\* Where a header is in the file of its checkpoint.
archiveHeader(seq, flaw) ==
    LET file == ArchiveLedgers(checkpointContainingLedger(seq), flaw)
    IN file[CHOOSE i \in DOMAIN file : file[i].seq = seq]

closedAs(h) == [seq |-> h.seq, hash |-> h.hash, closeTime |-> h.value.closeTime]

\* ApplyLedgerChainWork: the ledger is closed again and has to come out as it
\* is in the archive.  The header just before the last closed ledger is
\* skipped too: that it is linked to it was verified.
applyHistoryOfSingleLedger(l, h, txSet) ==
    IF h.seq <= l.lcl.seq THEN l
    ELSE closeLedger(l, [seq |-> h.seq, txSet |-> txSet, value |-> h.value])

replayThrows(l, h, txSet) ==
    \/ h.seq = l.lcl.seq /\ h.hash # l.lcl.hash
    \/ h.seq > l.lcl.seq + 1
    \/ h.seq = l.lcl.seq + 1 /\ (h.prev # l.lcl.hash \/ txSet # h.value.txSet)
-----------------------------------------------------------------------------
\* ApplyBucketsWork: from the last level up.  The first level that differs
\* has the entries deleted that are as young as its oldest ledger; from there
\* on every bucket is applied.
applyBucket(entries, b) ==
    LET live == {k \in DOMAIN b : b[k] # DEAD}
    IN Restrict(b, live) @@ Restrict(entries, DOMAIN entries \ DOMAIN b)

applyLevel_NothingDeleted(bm, has, i, applying) ==
    LET target    == has.levels[i]
        applySnap == target.snap # bm.levels[i].snap
        applyCurr == target.curr # bm.levels[i].curr
        snapped   == IF applying \/ applySnap THEN applyBucket(bm.db.entries, target.snap)
                     ELSE bm.db.entries
    IN [bm EXCEPT !.db.entries = IF applying \/ applySnap \/ applyCurr
                                 THEN applyBucket(snapped, target.curr) ELSE snapped]

applyLevel(bm, has, i, applying) ==
    LET target    == has.levels[i]
        applySnap == target.snap # bm.levels[i].snap
        applyCurr == target.curr # bm.levels[i].curr
        oldest    == IF applySnap THEN oldestLedgerInSnap(has.seq, i) ELSE oldestLedgerInCurr(has.seq, i)
        old       == bm.db.entries
        deleted   == IF applying \/ ~(applySnap \/ applyCurr) THEN old
                     ELSE Restrict(old, {k \in DOMAIN old : old[k] < oldest})
        snapped   == IF applying \/ applySnap THEN applyBucket(deleted, target.snap) ELSE deleted
    IN [bm EXCEPT !.db.entries = IF applying \/ applySnap \/ applyCurr
                                 THEN applyBucket(snapped, target.curr) ELSE snapped]

levelDiffers(bm, has, i) ==
    has.levels[i].snap # bm.levels[i].snap \/ has.levels[i].curr # bm.levels[i].curr
-----------------------------------------------------------------------------
\* A handler of the main thread changes lm to l.
Handled(l) == lm' = l

\* The herder hands over the next slot, or after a gap a later one.
Externalize(slot) ==
    /\ Running
    /\ slot \in heard + 1 .. LastSlot
    /\ slot > heard + 1 => gaps < MaxGaps
    /\ gaps' = IF slot > heard + 1 THEN gaps + 1 ELSE gaps
    /\ heard' = slot
    /\ Handled(ledgerExternalized(settled(lm), NetworkData(slot)))
    /\ UNCHANGED <<cw, failures, restarts>>

ApplyBufferedLedger ==
    /\ Running
    /\ lm.applying
    /\ Handled(applyBufferedLedger(settled(lm)))
    /\ UNCHANGED <<cw, heard, gaps, failures, restarts>>

\* Worker threads finish merges of the bucket list and of the snapshot.
FinishMerge(i) ==
    /\ Running
    /\ isMerging(lm.store.levels[i].next) /\ ~lm.store.levels[i].next.ready
    /\ Handled([settled(lm) EXCEPT !.store = finishMerge(@, i)])
    /\ UNCHANGED <<cw, heard, gaps, failures, restarts>>

FinishSnapshotMerge(i) ==
    /\ Running
    /\ lm.store.pub # NoSnapshot
    /\ isMerging(lm.store.pub.levels[i].next) /\ ~lm.store.pub.levels[i].next.ready
    /\ Handled([settled(lm) EXCEPT !.store = finishSnapshotMerge(@, i)])
    /\ UNCHANGED <<cw, heard, gaps, failures, restarts>>
-----------------------------------------------------------------------------
ResolveSnapshot ==
    /\ Running
    /\ snapshotIsReady(lm.store, lm.lcl.seq)
    /\ Handled([settled(lm) EXCEPT !.store = resolveSnapshot(@)])
    /\ UNCHANGED <<cw, heard, gaps, failures, restarts>>

HistoryPublished ==
    /\ Running
    /\ lm.store.pub # NoSnapshot /\ lm.store.pub.resolved
    /\ Handled([settled(lm) EXCEPT !.store = historyPublished(@, TRUE)])
    /\ UNCHANGED <<cw, heard, gaps, failures, restarts>>

PublishFails ==
    /\ Running
    /\ failures < MaxFailures
    /\ lm.store.pub # NoSnapshot /\ lm.store.pub.resolved
    /\ failures' = failures + 1
    /\ Handled([settled(lm) EXCEPT !.store = historyPublished(@, FALSE)])
    /\ UNCHANGED <<cw, heard, gaps, restarts>>

PostedPublish ==
    /\ Running
    /\ lm.store.posted
    /\ Handled([settled(lm) EXCEPT !.store = publishQueuedHistory([@ EXCEPT !.posted = FALSE])])
    /\ UNCHANGED <<cw, heard, gaps, failures, restarts>>
-----------------------------------------------------------------------------
\* CatchupWork::onReset, and onSuccess after the archive's state was loaded.  The
\* last closed ledger and the stored state that it keeps do not change before
\* they are used: no ledger is closed until buckets are applied.
GetHistoryArchiveState ==
    LET to       == lm.work.to
        remote   == checkpointContainingLedger(to)
        range    == makeCatchupRange(lm.lcl.seq, to, lm.work.count)
    IN /\ Running
       /\ lm.work # NoWork
       /\ cw = NoCatchup
       /\ IF lm.lcl.seq <= remote
          THEN /\ cw' = [phase |-> "LEDGERS", range |-> range, flaw |-> "none",
                         level |-> kNumLevels - 1, applying |-> FALSE,
                         next |-> Max({1, checkpointContainingLedger(range.first)
                                            - CheckpointFrequency + 1})]
               /\ Handled(settled(lm))
          ELSE /\ cw' = NoCatchup
               /\ Handled(historyFailed(settled(lm)))
       /\ UNCHANGED <<heard, gaps, failures, restarts>>

DownloadLedgers(flaw) ==
    /\ Running
    /\ cw.phase = "LEDGERS"
    /\ flaw # "none" => failures < MaxFailures
    /\ failures' = IF flaw # "none" THEN failures + 1 ELSE failures
    /\ cw' = [cw EXCEPT !.phase = "VERIFY", !.flaw = flaw]
    /\ Handled(settled(lm))
    /\ UNCHANGED <<heard, gaps, restarts>>

VerifyLedgers ==
    LET verified == verifyLedgers(cw.range, lm.lcl, lm.work.hash, cw.flaw)
    IN /\ Running
       /\ cw.phase = "VERIFY"
       /\ cw' = IF ~verified THEN NoCatchup
                ELSE [cw EXCEPT !.phase = IF cw.range.buckets THEN "BUCKETS" ELSE "TRANSACTIONS"]
       /\ Handled(IF ~verified THEN historyFailed(settled(lm)) ELSE settled(lm))
       /\ UNCHANGED <<heard, gaps, failures, restarts>>

\* Every bucket that the database's state does not name is downloaded.
DownloadBuckets ==
    LET buckets == differingBuckets(ArchiveState(cw.range.first), lm.store.db.has)
    IN /\ Running
       /\ cw.phase = "BUCKETS"
       /\ cw' = [cw EXCEPT !.phase = "APPLY"]
       /\ Handled([settled(lm) EXCEPT !.store = [adoptFilesAsBuckets(@, buckets) EXCEPT !.held = buckets]])
       /\ UNCHANGED <<heard, gaps, failures, restarts>>

\* CatchupWork::applyBuckets and one level of ApplyBucketsWork.
ApplyBuckets ==
    LET has     == ArchiveState(cw.range.first)
        start   == verifiedLedgerRangeStart(cw.range, cw.flaw)
        found   == getBucketsByHash(settled(lm).store,
                       UNION {{has.levels[i].curr, has.levels[i].snap} : i \in Levels})
        applied == [applyLevel(found, has, cw.level, cw.applying) EXCEPT !.torn = TRUE]
    IN /\ Running
       /\ cw.phase = "APPLY"
       /\ cw' = [cw EXCEPT !.applying = @ \/ levelDiffers(found, has, cw.level),
                           !.level = IF @ = 0 THEN 0 ELSE @ - 1,
                           !.phase = IF cw.level = 0 THEN "APPLIED" ELSE "APPLY"]
       /\ Handled(CASE has.seq # start.seq -> Fail(lm, "CatchupWork::applyBuckets")
                    [] has.seq = start.seq /\ start.seq < lm.lcl.seq ->
                           Fail(lm, "Catchup MINIMAL applying ledger earlier than local LCL")
                    [] has.seq = start.seq /\ start.seq >= lm.lcl.seq /\ found.failed # "" ->
                           [lm EXCEPT !.store = found]
                    [] OTHER -> [lm EXCEPT !.store = IF cw.level = 0 THEN assumeState(applied, has)
                                                     ELSE applied])
       /\ UNCHANGED <<heard, gaps, failures, restarts>>

\* CatchupWork::onSuccess runs again, in a later turn of the main thread.
AppliedBuckets ==
    /\ Running
    /\ cw.phase = "APPLIED"
    /\ cw' = [cw EXCEPT !.phase = "TRANSACTIONS"]
    /\ Handled(historyCaughtup(settled(lm), "APPLIED_BUCKETS",
                               closedAs(verifiedLedgerRangeStart(cw.range, cw.flaw))))
    /\ UNCHANGED <<heard, gaps, failures, restarts>>

DownloadTransactions ==
    /\ Running
    /\ cw.phase = "TRANSACTIONS"
    /\ cw' = [cw EXCEPT !.phase = "REPLAY"]
    /\ Handled(settled(lm))
    /\ UNCHANGED <<heard, gaps, failures, restarts>>

\* The work and its buckets are gone.
released(l) == [l EXCEPT !.store.held = {}]

\* One turn of ApplyLedgerChainWork.  A replay that throws is retried with the
\* same files, which throws again, and then gives up.
ReplayLedger ==
    LET h      == archiveHeader(cw.next, cw.flaw)
        txSet  == ArchiveTxSet(cw.next, cw.flaw)
        thrown == replayThrows(lm, h, txSet)
        closed == applyHistoryOfSingleLedger(settled(lm), h, txSet)
        ended  == closed.lcl.seq = cw.range.last
    IN /\ Running
       /\ cw.phase = "REPLAY"
       /\ cw' = IF thrown \/ ended THEN NoCatchup ELSE [cw EXCEPT !.next = @ + 1]
       /\ Handled(CASE thrown -> released(historyFailed(settled(lm)))
                    [] ~thrown /\ ended ->
                           released(historyCaughtup(historyCaughtup(closed, "APPLIED_TRANSACTIONS",
                                                                    closed.lcl),
                                                    "FINISHED", closed.lcl))
                    [] OTHER -> closed)
       /\ UNCHANGED <<heard, gaps, failures, restarts>>

\* A download is given up after its retries.
DownloadFails ==
    /\ Running
    /\ cw.phase \in {"LEDGERS", "BUCKETS", "TRANSACTIONS"}
    /\ failures < MaxFailures
    /\ failures' = failures + 1
    /\ cw' = NoCatchup
    /\ Handled(released(historyFailed(settled(lm))))
    /\ UNCHANGED <<heard, gaps, restarts>>
-----------------------------------------------------------------------------
\* ApplicationImpl::gracefulStop, as far as it touches the buckets.
GracefulStop ==
    /\ Running
    /\ restarts < MaxRestarts
    /\ Handled([settled(lm) EXCEPT !.store = forgetUnreferencedBuckets(@)])
    /\ UNCHANGED <<cw, heard, gaps, failures, restarts>>

\* What the database names: its state and the queued checkpoints.
Named(db) == UNION {allBuckets(h.levels) : h \in {db.has} \cup Range(db.queue)}

\* LedgerManagerImpl::loadLastKnownLedger and what ApplicationImpl::start does
\* after it.  Missing files would be downloaded; they are a failure here.
loadLastKnownLedger(files, db, torn) ==
    LET bm    == [levels |-> EmptyLevels, files |-> files, shared |-> {}, held |-> {},
                  queued |-> loadBucketsReferencedByPublishQueue(db.queue),
                  pub |-> NoSnapshot, posted |-> FALSE, db |-> db, torn |-> torn,
                  trail |-> {}, failed |-> ""]
    IN IF Named(db) \subseteq files \cup {Empty} THEN publishQueuedHistory(assumeState(bm, db.has))
       ELSE [bm EXCEPT !.failed = "Some buckets are missing"]

\* The process ends at any point, in the middle of the last handler too.
CrashAndRestart ==
    /\ Running
    /\ restarts < MaxRestarts
    /\ restarts' = restarts + 1
    /\ cw' = NoCatchup
    /\ \E image \in lm.store.trail \cup {[files |-> lm.store.files, db |-> lm.store.db]} :
          Handled(LedgerManagerInit(image.db.lcl,
                                    loadLastKnownLedger(image.files, image.db, lm.store.torn)))
    /\ UNCHANGED <<heard, gaps, failures>>

\* LedgerManagerImpl::startNewLedger
startNewLedger(header, batch) ==
    LET nothing == [seq |-> 0, levels |-> EmptyLevels]
        bm      == [levels |-> EmptyLevels, files |-> {}, shared |-> {}, held |-> {},
                    queued |-> EmptyBag, pub |-> NoSnapshot, posted |-> FALSE,
                    db |-> [lcl |-> header, has |-> nothing, queue |-> <<>>, entries |-> <<>>],
                    torn |-> FALSE, trail |-> {}, failed |-> ""]
    IN ledgerClosed(bm, header, batch)

\* Steps of the node that nothing outside it decides.
CatchupStep ==
    \/ GetHistoryArchiveState
    \/ DownloadLedgers("none")
    \/ VerifyLedgers
    \/ DownloadBuckets
    \/ ApplyBuckets
    \/ AppliedBuckets
    \/ DownloadTransactions
    \/ ReplayLedger
    \/ ApplyBufferedLedger

\* The catchup goes on: what every step of it does to cw.
CatchupTurn ==
    /\ Running
    /\ cw # NoCatchup \/ lm.work # NoWork
    /\ cw' \in {NoCatchup} \cup Catchups

PublishStep ==
    \/ \E i \in Levels : FinishSnapshotMerge(i)
    \/ ResolveSnapshot
    \/ HistoryPublished
    \/ PostedPublish

Next ==
    \/ \E slot \in heard + 1 .. LastSlot : Externalize(slot)
    \/ \E i \in Levels : FinishMerge(i)
    \/ CatchupStep
    \/ PublishStep
    \/ \E flaw \in Flaws : DownloadLedgers(flaw)
    \/ DownloadFails
    \/ PublishFails
    \/ GracefulStop
    \/ CrashAndRestart

\* The node starts with the first ledger, and with some failures and restarts
\* behind it.
Init ==
    /\ lm = LedgerManagerInit(GenesisHeader, startNewLedger(GenesisHeader, Batch(1)))
    /\ cw = NoCatchup
    /\ heard = 1
    /\ gaps = 0
    /\ failures \in 0 .. MaxFailures
    /\ restarts \in 0 .. MaxRestarts

Spec == Init /\ [][Next]_vars
-----------------------------------------------------------------------------
\* Garbage collection never takes a bucket that is still needed: what the
\* bucket list and its merges use, and at every point where the process can
\* stop, what the stored state and the queued checkpoints name.  So no bucket
\* that is looked for is ever missing.
FilesAreKept ==
    LET bm == lm.store
    IN /\ bm.failed = ""
       /\ inUse(bm) \subseteq bm.files \cup {Empty}
       /\ \A image \in bm.trail \cup {[files |-> bm.files, db |-> bm.db]} :
             Named(image.db) \subseteq image.files \cup {Empty}

\* Whatever is not finished is underway, so nothing waits for a step that
\* nobody will make: history is applied by a work, buffered ledgers by a posted
\* callback, and a checkpoint that was queued before the last ledger closed is
\* being published, or will be looked for, across failures and restarts.
NothingIsStranded ==
    Running =>
        /\ lm.catchupState = "APPLYING_HISTORY" => lm.work # NoWork
        /\ lm.catchupState = "APPLYING_BUFFERED_LEDGERS" => lm.applying
        /\ DOMAIN lm.store.db.queue # {} => lm.store.posted \/ lm.store.pub # NoSnapshot
=============================================================================
