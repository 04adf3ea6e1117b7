--------------------------- MODULE LedgerManager ----------------------------
(***************************************************************************)
(* LedgerManagerImpl: what a node does with the value of each slot.  It    *)
(* closes the next ledger, skips an old one, and when it is behind it      *)
(* buffers what it hears, has history replayed up to the first buffered    *)
(* ledger and then closes the buffered ones.                               *)
(*                                                                         *)
(* The operators work on a record lm:                                      *)
(*   state, catchupState   mState and mCatchupState                        *)
(*   lcl                   mLastClosedLedger: [seq, hash, closeTime]       *)
(*   trigger               mCatchupTriggerLedger                           *)
(*   syncing               mSyncingLedgers, a sequence of close data       *)
(*   work                  the configuration of the CatchupManager's work, *)
(*                         or NoWork                                       *)
(*   applying              applyBufferedLedgers is posted                  *)
(*   store                 what closing a ledger writes, see CloseStore    *)
(*   failed                the assertion or exception that ends the node   *)
(* Close data is [seq, txSet, value]; a transaction set is [prev, txs] and *)
(* stands for its own hash; a value is [txSet, closeTime, upgrades].       *)
(***************************************************************************)
EXTENDS Integers, Sequences, TLAPS

CONSTANTS
    CheckpointFrequency,      \* getCheckpointFrequency
    CatchupCount,             \* getCatchupCount
    LedgerHash(_, _),         \* the hash of the ledger closed on a hash with a value
    CloseStore(_, _, _),      \* store after a ledger (its header and data) closed
    AssumeStore(_, _)         \* store after buckets were applied for a header

ASSUME FrequencyAssumption == CheckpointFrequency \in Nat \ {0, 1}

NoWork == [to |-> 0, hash |-> 0, count |-> 0, manual |-> FALSE]
CURRENT == 0
GENESIS_LEDGER_SEQ == 1

LedgerManagerInit(lcl, store) ==
    [state |-> "BOOTING", catchupState |-> "NONE", lcl |-> lcl, trigger |-> 0,
     syncing |-> <<>>, work |-> NoWork, applying |-> FALSE, store |-> store, failed |-> ""]

\* An assertion or an exception nobody catches: nothing more happens.
Fail(lm, what) == [lm EXCEPT !.failed = what]
-----------------------------------------------------------------------------
\* HistoryManagerImpl's arithmetic.  Checkpoints end at k * frequency - 1.
nextCheckpointLedger(ledger) ==
    IF ledger = 0 THEN CheckpointFrequency
    ELSE ((ledger + CheckpointFrequency - 1) \div CheckpointFrequency) * CheckpointFrequency

checkpointContainingLedger(ledger) == nextCheckpointLedger(ledger + 1) - 1

prevCheckpointLedger(ledger) == (ledger \div CheckpointFrequency) * CheckpointFrequency
-----------------------------------------------------------------------------
\* CatchupWork's choice of the ledgers to download, and of whether to start
\* from the buckets of a checkpoint.
firstNotFinishedCheckpoint(lastClosed) ==
    LET checkpoint == checkpointContainingLedger(lastClosed)
    IN IF lastClosed < checkpoint THEN checkpoint ELSE checkpoint + CheckpointFrequency

\* The first of the last count ledgers; a count of 0 means 1.
firstNeededLedger(to, count) ==
    LET needed == IF count = 0 THEN 1 ELSE count
    IN IF to > needed THEN to - needed + 1 ELSE GENESIS_LEDGER_SEQ

computeCatchupStart(smallest, smallestBucketApplyCheckpoint) ==
    LET checkpoint == checkpointContainingLedger(smallest)
        previous   == checkpoint - CheckpointFrequency
    IN CASE smallest = checkpoint -> [buckets |-> TRUE, first |-> checkpoint]
         [] smallest # checkpoint /\ smallest >= CheckpointFrequency - 1
              /\ previous >= smallestBucketApplyCheckpoint -> [buckets |-> TRUE, first |-> previous]
         [] OTHER -> [buckets |-> FALSE, first |-> smallest]

\* From the first ledger to the target; buckets just after the last closed
\* ledger are not worth applying.
makeCatchupRange(lastClosed, to, count) ==
    LET needed   == firstNeededLedger(to, count)
        smallest == IF needed < lastClosed THEN lastClosed ELSE needed
        start    == computeCatchupStart(smallest, firstNotFinishedCheckpoint(lastClosed))
    IN [first   |-> start.first,
        last    |-> to,
        buckets |-> start.buckets /\ start.first > lastClosed + 1]
-----------------------------------------------------------------------------
\* Leaving LM_CATCHING_UP_STATE ends the catchup.
setState(lm, s) ==
    [lm EXCEPT !.state = s,
               !.catchupState = IF s # lm.state /\ s # "CATCHING_UP" THEN "NONE" ELSE @]

setCatchupState(lm, s) == setState([lm EXCEPT !.catchupState = s], "CATCHING_UP")

bootstrap(lm) == setState(lm, "SYNCED")

isSynced(lm) == lm.state = "SYNCED"

\* The ledger is closed on the last closed one, and what it writes is stored.
closeLedger(lm, d) ==
    LET header == [seq       |-> lm.lcl.seq + 1,
                   hash      |-> LedgerHash(lm.lcl.hash, d.value),
                   closeTime |-> d.value.closeTime]
    IN CASE d.txSet.prev # lm.lcl.hash -> Fail(lm, "txset mismatch")
         [] d.txSet.prev = lm.lcl.hash /\ d.txSet # d.value.txSet ->
                Fail(lm, "corrupt transaction set")
         [] OTHER -> [lm EXCEPT !.lcl = header, !.store = CloseStore(@, header, d)]

\* SyncingLedgerChain::push: only the next ledger is kept.
push(chain, d) ==
    IF chain = <<>> \/ d.seq = chain[Len(chain)].seq + 1 THEN Append(chain, d) ELSE chain

addToSyncingLedgers(lm, d) == [lm EXCEPT !.syncing = push(@, d)]

\* CatchupManagerImpl::catchupHistory
catchupHistory(lm, configuration) ==
    IF lm.work # NoWork THEN Fail(lm, "Catchup already in progress")
    ELSE [lm EXCEPT !.work = configuration]

startCatchup(lm, configuration) ==
    LET started == setCatchupState(lm, "APPLYING_HISTORY")
    IN CASE configuration.to # CURRENT /\ configuration.to <= lm.lcl.seq ->
                Fail(lm, "Target ledger is not newer than LCL")
         [] (configuration.to = CURRENT \/ configuration.to > lm.lcl.seq)
              /\ configuration.manual # (lm.syncing = <<>>) -> Fail(started, "startCatchup")
         [] OTHER -> catchupHistory(started, configuration)

\* Once the trigger ledger was heard of, history is caught up to the ledger
\* before the first buffered one, whose hash the buffered one names.
startCatchupIf(lm, lastReceived) ==
    LET front == lm.syncing[1]
    IN CASE lm.syncing = <<>> \/ lm.catchupState = "NONE" -> Fail(lm, "startCatchupIf")
         [] lm.syncing # <<>> /\ lm.catchupState = "WAITING_FOR_TRIGGER_LEDGER"
              /\ lastReceived >= lm.trigger ->
                startCatchup(setCatchupState(lm, "APPLYING_HISTORY"),
                             [to |-> front.seq - 1, hash |-> front.txSet.prev,
                              count |-> CatchupCount, manual |-> FALSE])
         [] OTHER -> lm

initializeCatchup(lm, d) ==
    LET waiting == setCatchupState([lm EXCEPT !.trigger = nextCheckpointLedger(d.seq) + 1],
                                   "WAITING_FOR_TRIGGER_LEDGER")
    IN IF lm.state = "CATCHING_UP" \/ lm.catchupState # "NONE" \/ lm.syncing # <<>>
       THEN Fail(lm, "initializeCatchup")
       ELSE startCatchupIf(addToSyncingLedgers(waiting, d), d.seq)

continueCatchup(lm, d) == startCatchupIf(addToSyncingLedgers(lm, d), d.seq)

\* CLOSED, TOO_OLD or TOO_NEW
closeLedgerIfResult(lm, d) ==
    CASE d.seq = lm.lcl.seq + 1 -> "CLOSED"
      [] d.seq <= lm.lcl.seq -> "TOO_OLD"
      [] OTHER -> "TOO_NEW"

closeLedgerIf(lm, d) ==
    CASE closeLedgerIfResult(lm, d) # "CLOSED" -> lm
      [] closeLedgerIfResult(lm, d) = "CLOSED" /\ d.txSet.prev # lm.lcl.hash ->
             Fail(lm, "Network consensus inconsistency")
      [] OTHER -> closeLedger(lm, d)

finalizeCatchup(lm, d) ==
    LET closed == closeLedgerIf(lm, d)
    IN CASE lm.syncing # <<>> -> Fail(lm, "finalizeCatchup")
         [] lm.syncing = <<>> /\ closed.failed # "" -> closed
         [] OTHER ->
            CASE closeLedgerIfResult(lm, d) = "CLOSED" -> setState(closed, "SYNCED")
              [] closeLedgerIfResult(lm, d) = "TOO_OLD" -> lm
              [] closeLedgerIfResult(lm, d) = "TOO_NEW" ->
                     initializeCatchup(setState(lm, "BOOTING"), d)

\* LedgerManagerImpl::valueExternalized
ledgerExternalized(lm, d) ==
    LET closed == closeLedgerIf(lm, d)
    IN CASE lm.state # "CATCHING_UP" /\ closed.failed # "" -> closed
         [] lm.state # "CATCHING_UP" /\ closed.failed = "" ->
            (CASE closeLedgerIfResult(lm, d) = "CLOSED" -> setState(closed, "SYNCED")
               [] closeLedgerIfResult(lm, d) = "TOO_OLD" -> lm
               [] closeLedgerIfResult(lm, d) = "TOO_NEW" -> initializeCatchup(lm, d))
         [] lm.state = "CATCHING_UP" /\ lm.catchupState = "WAITING_FOR_CLOSING_LEDGER" ->
                finalizeCatchup(lm, d)
         [] OTHER -> continueCatchup(lm, d)
-----------------------------------------------------------------------------
\* The buffered ledgers are closed one per turn of the main thread.
applyBufferedLedgers(lm) ==
    CASE lm.catchupState # "APPLYING_BUFFERED_LEDGERS" -> Fail(lm, "applyBufferedLedgers")
      [] lm.catchupState = "APPLYING_BUFFERED_LEDGERS" /\ lm.syncing = <<>> ->
             setCatchupState(lm, "WAITING_FOR_CLOSING_LEDGER")
      [] OTHER -> [lm EXCEPT !.applying = TRUE]

\* What applyBufferedLedgers posted.
applyBufferedLedger(lm) ==
    LET d      == Head(lm.syncing)
        popped == [lm EXCEPT !.applying = FALSE, !.syncing = Tail(@)]
        closed == closeLedger(popped, d)
    IN CASE d.seq # lm.lcl.seq + 1 -> Fail(popped, "applyBufferedLedgers")
         [] d.seq = lm.lcl.seq + 1 /\ closed.failed # "" -> closed
         [] OTHER -> applyBufferedLedgers(closed)

\* CatchupManagerImpl::historyCaughtup
forgetWork(lm) == [lm EXCEPT !.work = NoWork]

historyFailed_StaysInCatchup(lm) ==
    IF lm.catchupState # "APPLYING_HISTORY" THEN Fail(lm, "historyCaughtup")
    ELSE [forgetWork(lm) EXCEPT !.syncing = <<>>]

historyFailed(lm) ==
    IF lm.catchupState # "APPLYING_HISTORY" THEN Fail(lm, "historyCaughtup")
    ELSE [forgetWork(setState(lm, "BOOTING")) EXCEPT !.syncing = <<>>]

\* progress is APPLIED_BUCKETS, APPLIED_TRANSACTIONS or FINISHED.
historyCaughtup(lm, progress, lastClosed) ==
    CASE lm.catchupState # "APPLYING_HISTORY" -> Fail(lm, "historyCaughtup")
      [] lm.catchupState = "APPLYING_HISTORY" /\ progress = "APPLIED_BUCKETS" ->
             [lm EXCEPT !.lcl = lastClosed, !.store = AssumeStore(@, lastClosed)]
      [] lm.catchupState = "APPLYING_HISTORY" /\ progress = "APPLIED_TRANSACTIONS" ->
             IF lastClosed = lm.lcl THEN lm ELSE Fail(lm, "historyCaughtup")
      [] OTHER ->
             applyBufferedLedgers(setCatchupState(forgetWork(lm), "APPLYING_BUFFERED_LEDGERS"))
-----------------------------------------------------------------------------
\* A checkpoint ends one before a multiple of the frequency, and a ledger is
\* at most one frequency from the end of its checkpoint.
LEMMA CheckpointEnd ==
    ASSUME NEW ledger \in Nat
    PROVE  \E k \in Nat \ {0} :
               /\ checkpointContainingLedger(ledger) = k * CheckpointFrequency - 1
               /\ ledger =< k * CheckpointFrequency - 1
               /\ k * CheckpointFrequency =< ledger + CheckpointFrequency
  <1> DEFINE f == CheckpointFrequency
             k == (ledger + f) \div f
  <1>1. f \in Nat \ {0}
    BY FrequencyAssumption DEF FrequencyAssumption
  <1>2. k \in Nat /\ f * k =< ledger + f /\ ledger + f < f * k + f
    BY <1>1
  <1>3. checkpointContainingLedger(ledger) = k * f - 1
    <2>1. ledger + 1 # 0 /\ ledger + 1 + f - 1 = ledger + f
      BY <1>1
    <2> QED BY <2>1 DEF checkpointContainingLedger, nextCheckpointLedger
  <1> HIDE DEF f, k
  <1>4. k # 0 /\ ledger =< k * f - 1 /\ k * f =< ledger + f
    BY <1>1, <1>2
  <1> QED BY <1>2, <1>3, <1>4 DEF f

\* What makeCatchupRange promises the works that download and apply, for any
\* frequency, last closed ledger, target and count.  Buckets are applied at a
\* checkpoint boundary after the ledgers that are already there, and not after
\* the first ledger whose history is wanted or the target.  Without buckets
\* the first checkpoint downloaded holds the ledger after the last closed one
\* or an earlier one, so that the replay has no gap.
THEOREM CatchupRangeHasNoGap ==
    ASSUME NEW lastClosed \in Nat \ {0}, NEW count \in Nat,
           NEW to \in Nat, to >= lastClosed
    PROVE  LET range == makeCatchupRange(lastClosed, to, count)
           IN /\ range.buckets =>
                     /\ \E k \in Nat \ {0} : range.first = k * CheckpointFrequency - 1
                     /\ range.first > lastClosed + 1
                     /\ range.first =< firstNeededLedger(to, count)
                     /\ range.first =< to
              /\ ~range.buckets =>
                     checkpointContainingLedger(range.first) - CheckpointFrequency + 1
                         =< lastClosed + 1
  <1> DEFINE f == CheckpointFrequency
             needed == firstNeededLedger(to, count)
             smallest == IF needed < lastClosed THEN lastClosed ELSE needed
             checkpoint == checkpointContainingLedger(smallest)
             next == firstNotFinishedCheckpoint(lastClosed)
             start == computeCatchupStart(smallest, next)
             range == makeCatchupRange(lastClosed, to, count)
  <1>1. f \in Nat \ {0}
    BY FrequencyAssumption DEF FrequencyAssumption
  <1>2. needed \in Nat /\ needed =< to
    BY DEF firstNeededLedger, GENESIS_LEDGER_SEQ
  <1> HIDE DEF needed
  <1>3. /\ smallest \in Nat /\ smallest =< to /\ lastClosed =< smallest
        /\ smallest = needed \/ smallest = lastClosed
    BY <1>2
  <1> HIDE DEF smallest
  <1>4. PICK k \in Nat \ {0} : /\ checkpoint = k * f - 1
                               /\ smallest =< k * f - 1 /\ k * f =< smallest + f
    BY <1>3, CheckpointEnd
  <1>5. PICK j \in Nat \ {0} : next = j * f - 1 /\ j * f - 1 =< lastClosed + f
    <2>1. PICK i \in Nat \ {0} :
              /\ checkpointContainingLedger(lastClosed) = i * f - 1
              /\ lastClosed =< i * f - 1 /\ i * f =< lastClosed + f
      BY CheckpointEnd
    <2>2. CASE lastClosed < i * f - 1
      <3>1. next = i * f - 1
        BY <2>1, <2>2 DEF firstNotFinishedCheckpoint
      <3> QED BY <1>1, <2>1, <3>1
    <2>3. CASE ~(lastClosed < i * f - 1)
      <3>1. next = i * f - 1 + f
        BY <2>1, <2>3 DEF firstNotFinishedCheckpoint
      <3>2. next = (i + 1) * f - 1 /\ (i + 1) * f - 1 =< lastClosed + f /\ i + 1 \in Nat \ {0}
        BY <1>1, <2>1, <2>3, <3>1
      <3> QED BY <3>2
    <2> QED BY <2>2, <2>3
  <1> HIDE DEF checkpoint, next
  <1>6. \/ smallest = checkpoint /\ start = [buckets |-> TRUE, first |-> checkpoint]
        \/ /\ smallest # checkpoint /\ smallest >= f - 1 /\ checkpoint - f >= next
           /\ start = [buckets |-> TRUE, first |-> checkpoint - f]
        \/ /\ smallest # checkpoint /\ ~(smallest >= f - 1 /\ checkpoint - f >= next)
           /\ start = [buckets |-> FALSE, first |-> smallest]
    BY DEF computeCatchupStart, checkpoint
  <1> HIDE DEF f, start
  <1>7. range.first = start.first /\ (range.buckets <=> start.buckets /\ start.first > lastClosed + 1)
    BY DEF makeCatchupRange, start, next, smallest, needed
  <1> HIDE DEF range
  <1> SUFFICES /\ range.buckets =>
                      /\ \E m \in Nat \ {0} : range.first = m * f - 1
                      /\ range.first > lastClosed + 1
                      /\ range.first =< needed
                      /\ range.first =< to
               /\ ~range.buckets =>
                      checkpointContainingLedger(range.first) - f + 1 =< lastClosed + 1
    BY DEF range, needed, f
  <1>8. CASE smallest = checkpoint /\ start = [buckets |-> TRUE, first |-> checkpoint]
    <2>1. range.first = smallest /\ (range.buckets <=> smallest > lastClosed + 1)
      BY <1>7, <1>8
    <2>2. checkpointContainingLedger(smallest) = smallest
      BY <1>8 DEF checkpoint
    <2> QED BY <1>1, <1>2, <1>3, <1>4, <1>8, <2>1, <2>2
  <1>9. CASE /\ smallest # checkpoint /\ smallest >= f - 1 /\ checkpoint - f >= next
             /\ start = [buckets |-> TRUE, first |-> checkpoint - f]
    <2>1. range.first = checkpoint - f /\ (range.buckets <=> checkpoint - f > lastClosed + 1)
      BY <1>7, <1>9
    <2>2. checkpoint - f = (k - 1) * f - 1 /\ checkpoint - f < smallest
      BY <1>1, <1>3, <1>4
    <2>3. k - 1 \in Nat \ {0}
      <3>1. checkpoint - f >= j * f - 1 /\ j * f >= f
        BY <1>1, <1>5, <1>9
      <3>2. CASE k = 1
        <4>1. checkpoint - f = 0 - 1
          BY <1>1, <2>2, <3>2
        <4> QED BY <1>1, <1>5, <3>1, <4>1
      <3> QED BY <3>2
    <2>4. checkpoint - f \in Nat /\ checkpoint - f >= 0
      BY <1>1, <2>2, <2>3
    <2>5. PICK i \in Nat \ {0} :
              /\ checkpointContainingLedger(checkpoint - f) = i * f - 1
              /\ i * f =< checkpoint - f + f
      BY <2>4, CheckpointEnd DEF f
    <2>6. ~range.buckets =>
              checkpointContainingLedger(range.first) - f + 1 =< lastClosed + 1
      BY <1>1, <2>1, <2>2, <2>4, <2>5
    <2>7. range.buckets => range.first =< needed /\ range.first =< to
      BY <1>2, <1>3, <2>1, <2>2, <2>4
    <2> QED BY <2>1, <2>2, <2>3, <2>6, <2>7
  <1>10. CASE /\ smallest # checkpoint /\ ~(smallest >= f - 1 /\ checkpoint - f >= next)
              /\ start = [buckets |-> FALSE, first |-> smallest]
    <2>1. range.first = smallest /\ ~range.buckets
      BY <1>7, <1>10
    <2>2. checkpoint - f + 1 =< lastClosed + 1
      <3>1. CASE smallest < f - 1
        BY <1>1, <1>3, <1>4, <3>1
      <3>2. CASE ~(smallest < f - 1)
        <4>1. checkpoint - f < next
          BY <1>1, <1>3, <1>4, <1>5, <1>10, <3>2
        <4>2. k * f < (j + 1) * f
          BY <1>1, <1>4, <1>5, <4>1
        <4>3. k =< j
          BY <1>1, <4>2
        <4>4. k * f =< j * f
          BY <1>1, <4>3
        <4> QED BY <1>1, <1>4, <1>5, <4>4
      <3> QED BY <1>1, <1>3, <3>1, <3>2
    <2> QED BY <2>1, <2>2 DEF checkpoint
  <1> QED BY <1>6, <1>8, <1>9, <1>10
=============================================================================
