------------------------------ MODULE BucketList ----------------------------
(***************************************************************************)
(* The bucket list, the bucket files and the queue of checkpoints to       *)
(* publish.  The ledger is kept as levels of buckets; every other ledger   *)
(* level 0 spills into level 1, every eighth level 1 into level 2, and so  *)
(* on.  The buckets of a spill are merged by a worker thread and the       *)
(* result is needed only at the next spill, so a node that stops in        *)
(* between has to find the inputs, or the output, of every merge on disk.  *)
(*                                                                         *)
(* A bucket maps keys to the ledger that last wrote them, or to DEAD; it   *)
(* stands for its own hash.  The operators work on a record bm:            *)
(*   levels     mBucketList: [curr, snap, next] per level                  *)
(*   files      the bucket directory                                       *)
(*   shared     mSharedBuckets                                             *)
(*   held       the buckets a download holds                               *)
(*   queued     mPublishQueueBuckets, a bag                                *)
(*   pub        the snapshot of mPublishWork, or NoSnapshot                *)
(*   posted     publishQueuedHistory is posted                             *)
(*   db         the database: [lcl, has, queue, entries]; queue is the     *)
(*              table publishqueue, from ledgers to HASes                  *)
(*   torn       buckets were applied to db.entries, and db.lcl is older    *)
(*   trail      what a crash during the last handler can leave: [files, db]*)
(*   failed     the assertion or exception that ends the node              *)
(* The state of an archive, a HAS, is [seq, levels], where a level's next  *)
(* has hashes only.                                                        *)
(***************************************************************************)
EXTENDS Integers, Sequences, Bags, FiniteSetsExt, Functions, TLC

CONSTANT kNumLevels        \* BucketList::kNumLevels

ASSUME LevelsAssumption == kNumLevels \in Nat \ {0}

Levels == 0 .. kNumLevels - 1
DEAD == 0
Empty == <<>>
NoSnapshot == [seq |-> 0]
-----------------------------------------------------------------------------
\* Bucket::merge: the new entry of a key wins, an entry with a shadow is
\* dropped, and so is a dead one in the last level.
merge(oldBucket, newBucket, shadows, keepDead) ==
    LET all       == newBucket @@ oldBucket
        put       == {k \in DOMAIN all : keepDead \/ all[k] # DEAD}
        shadowed  == UNION {DOMAIN s : s \in shadows}
    IN Restrict(all, put \ shadowed)

\* Bucket::fresh
fresh(live, dead) == merge(live, dead, {}, TRUE)

levelSize(level) == 4 ^ (level + 1)

levelHalf(level) == levelSize(level) \div 2

mask(v, m) == v - (v % m)

levelShouldSpill(ledger, level) ==
    /\ level # kNumLevels - 1
    /\ ledger = mask(ledger, levelHalf(level)) \/ ledger = mask(ledger, levelSize(level))

keepDeadEntries(level) == level < kNumLevels - 1

\* How many ledgers the buckets of a level span.
sizeOf[x \in (Nat \ {0}) \X Nat] ==
    LET ledger  == x[1]
        level   == x[2]
        half    == levelHalf(level)
        size    == levelSize(level)
        younger == MapThenSumSet(LAMBDA l : sizeOf[<<ledger, l>>].curr + sizeOf[<<ledger, l>>].snap,
                                 0 .. level - 1)
        delta   == 2 ^ (2 * level - 1)
        prev    == Max({mask(ledger - 1, levelHalf(level - 1)), mask(ledger - 1, levelSize(level - 1)),
                        mask(ledger - 1, half), mask(ledger - 1, size)})
        before  == sizeOf[<<prev, level>>].curr
        sizeOfCurr ==
            CASE level = 0 -> IF ledger = 1 THEN 1 ELSE 1 + (ledger % 2)
              [] level # 0 /\ (level = kNumLevels - 1 \/ mask(ledger, half) = 0) -> ledger - younger
              [] OTHER ->
                 CASE ledger = mask(ledger, half) -> delta
                   [] ledger # mask(ledger, half)
                        /\ ledger = mask(ledger, levelHalf(level - 1)) -> before + delta
                   [] OTHER -> before
        sizeOfSnap ==
            CASE level = kNumLevels - 1 -> 0
              [] level # kNumLevels - 1 /\ mask(ledger, size) # 0 -> half
              [] OTHER -> ledger - younger - sizeOfCurr
    IN [curr |-> sizeOfCurr, snap |-> sizeOfSnap]

youngerLedgers(ledger, level) ==
    MapThenSumSet(LAMBDA l : sizeOf[<<ledger, l>>].curr + sizeOf[<<ledger, l>>].snap, 0 .. level - 1)

\* An empty bucket has no oldest ledger: the largest number stands for it, and
\* nothing in the database is as young as the ledger after the current one.
oldestLedgerInCurr(ledger, level) ==
    LET size == sizeOf[<<ledger, level>>].curr
    IN IF size = 0 THEN ledger + 1 ELSE ledger + 1 - youngerLedgers(ledger, level) - size

oldestLedgerInSnap(ledger, level) ==
    LET size == sizeOf[<<ledger, level>>].snap
    IN IF size = 0 THEN ledger + 1 ELSE ledger + 1 - youngerLedgers(ledger, level + 1)
-----------------------------------------------------------------------------
\* FutureBucket.  ready: the worker has finished the merge.
ClearFuture == [state |-> "CLEAR", curr |-> Empty, snap |-> Empty, shadows |-> {},
                output |-> Empty, ready |-> FALSE]

startMerge(curr, snap, shadows) ==
    [ClearFuture EXCEPT !.state = "LIVE_INPUTS", !.curr = curr, !.snap = snap, !.shadows = shadows]

setLiveOutput(output) == [ClearFuture EXCEPT !.state = "LIVE_OUTPUT", !.output = output]

setHashOutput(output) == [ClearFuture EXCEPT !.state = "HASH_OUTPUT", !.output = output]

isLive(f) == f.state \in {"LIVE_INPUTS", "LIVE_OUTPUT"}
isMerging(f) == f.state = "LIVE_INPUTS"
hasHashes(f) == f.state \in {"HASH_INPUTS", "HASH_OUTPUT"}

\* What the worker computes, or has computed.
resolve(f, level) ==
    IF isMerging(f) THEN merge(f.curr, f.snap, f.shadows, keepDeadEntries(level)) ELSE f.output

getHashes(f) ==
    CASE f.state \in {"LIVE_INPUTS", "HASH_INPUTS"} -> {f.curr, f.snap} \cup f.shadows
      [] f.state \in {"LIVE_OUTPUT", "HASH_OUTPUT"} -> {f.output}
      [] OTHER -> {}

\* What the database keeps of it: the output once there is one.
saved(f, level) ==
    CASE f.state = "LIVE_OUTPUT" \/ (isMerging(f) /\ f.ready) ->
             setHashOutput(resolve(f, level))
      [] isMerging(f) /\ ~f.ready -> [f EXCEPT !.state = "HASH_INPUTS"]
      [] OTHER -> f

\* The merge is taken up again, or its output found.
makeLive(f) ==
    IF f.state = "HASH_OUTPUT" THEN setLiveOutput(f.output)
    ELSE startMerge(f.curr, f.snap, f.shadows)

\* BucketList::restartMerges, and StateSnapshot::makeLive for a snapshot
restartMerges(levels) ==
    [i \in Levels |-> [levels[i] EXCEPT !.next = IF hasHashes(@) THEN makeLive(@) ELSE @]]
-----------------------------------------------------------------------------
\* BucketLevel
setCurr(level, b) == [level EXCEPT !.curr = b, !.next = ClearFuture]

commit(level, i) == IF isLive(level.next) THEN setCurr(level, resolve(level.next, i)) ELSE level

\* A curr that is about to be snapped is left out of the merge.
prepare(level, i, currLedger, snap, shadows) ==
    LET spillsNext == i # 0 /\ levelShouldSpill(currLedger + levelHalf(i - 1), i)
    IN [level EXCEPT !.next = startMerge(IF spillsNext THEN Empty ELSE level.curr, snap, shadows)]

snapLevel(level) == [level EXCEPT !.snap = level.curr, !.curr = Empty]

\* The buckets that shadow a merge into level i: the levels two above and younger.
Shadows(levels, i) == UNION {{levels[j].curr, levels[j].snap} : j \in 0 .. i - 2}

\* BucketList::addBatch, from the last level down: each level reads the one
\* above before that one is changed.
addBatch(levels, currLedger, batch) ==
    LET kept(i) == IF levelShouldSpill(currLedger, i) THEN snapLevel(levels[i]) ELSE levels[i]
    IN [i \in Levels |->
          CASE i = 0 -> commit(prepare(kept(0), 0, currLedger, fresh(batch.live, batch.dead), {}), 0)
            [] i # 0 /\ levelShouldSpill(currLedger, i - 1) ->
                   prepare(commit(kept(i), i), i, currLedger, levels[i - 1].curr, Shadows(levels, i))
            [] OTHER -> kept(i)]

\* The files the batch leaves: its own buckets and what the commits waited for.
batchFiles(levels, currLedger, batch) ==
    {batch.live, batch.dead, fresh(batch.live, batch.dead), addBatch(levels, currLedger, batch)[0].curr}
      \cup {resolve(levels[i].next, i) : i \in {j \in Levels \ {0} :
                levelShouldSpill(currLedger, j - 1) /\ isLive(levels[j].next)}}
-----------------------------------------------------------------------------
\* HistoryArchiveState::allBuckets
allBuckets(levels) ==
    UNION {{levels[i].curr, levels[i].snap} \cup getHashes(levels[i].next) : i \in Levels}

\* The state of the list as it is stored: finished merges as their output.
HistoryArchiveState(seq, levels) ==
    [seq |-> seq, levels |-> [i \in Levels |-> [levels[i] EXCEPT !.next = saved(@, i)]]]

\* HistoryArchiveState::differingBuckets: what other does not have.
differingBuckets(has, other) ==
    LET outputs(h) == {h.levels[i].next.output :
                         i \in {j \in Levels : h.levels[j].next.state = "HASH_OUTPUT"}}
        buckets(h) == (UNION {{h.levels[i].curr, h.levels[i].snap} : i \in Levels}) \cup outputs(h)
    IN buckets(has) \ (buckets(other) \cup {Empty})

EmptyLevels == [i \in Levels |-> [curr |-> Empty, snap |-> Empty, next |-> ClearFuture]]

\* A bucket is in use while a level, a live merge, a worker or a download points at it.
pointers(f, level) ==
    CASE isMerging(f) -> {f.curr, f.snap} \cup f.shadows
                           \cup (IF f.ready THEN {resolve(f, level)} ELSE {})
      [] f.state = "LIVE_OUTPUT" -> {f.output}
      [] OTHER -> {}

inUse(bm) ==
    bm.held
      \cup (UNION {{bm.levels[i].curr, bm.levels[i].snap} \cup pointers(bm.levels[i].next, i) :
                     i \in Levels})
      \cup (IF bm.pub = NoSnapshot THEN {}
            ELSE UNION {pointers(bm.pub.levels[i].next, i) : i \in Levels})

\* adoptFileAsBucket, for several buckets
adoptFilesAsBuckets(bm, buckets) ==
    [bm EXCEPT !.files = @ \cup (buckets \ {Empty}), !.shared = @ \cup (buckets \ {Empty})]

\* getBucketByHash, for several buckets, which are expected to be found
getBucketsByHash(bm, buckets) ==
    IF buckets \subseteq bm.shared \cup bm.files \cup {Empty}
    THEN [bm EXCEPT !.shared = @ \cup (buckets \ {Empty})]
    ELSE [bm EXCEPT !.failed = "Missing bucket files"]

getReferencedBuckets_NotLastClosed(bm) == allBuckets(bm.levels) \cup BagToSet(bm.queued)

getReferencedBuckets(bm) ==
    allBuckets(bm.levels) \cup allBuckets(bm.db.has.levels) \cup BagToSet(bm.queued)

cleanupStaleFiles(bm) == [bm EXCEPT !.files = @ \cap (getReferencedBuckets(bm) \cup bm.shared)]

forgetUnreferencedBuckets(bm) ==
    LET forgotten == bm.shared \ (getReferencedBuckets(bm) \cup inUse(bm))
    IN [bm EXCEPT !.files = @ \ forgotten, !.shared = @ \ forgotten]

assumeState(bm, has) ==
    LET found == getBucketsByHash(bm, allBuckets(has.levels))
    IN IF found.failed # "" THEN found
       ELSE cleanupStaleFiles([found EXCEPT !.levels = restartMerges(has.levels)])

\* A worker has merged: the output is a file, and the future is ready.
finishMerge(bm, i) ==
    [adoptFilesAsBuckets(bm, {resolve(bm.levels[i].next, i)}) EXCEPT !.levels[i].next.ready = TRUE]
-----------------------------------------------------------------------------
\* HistoryManagerImpl: the queue of checkpoints is a table of the database,
\* with the ledger as its key.
queueCurrentHistory(bm) ==
    LET has == bm.db.has
    IN IF has.seq \in DOMAIN bm.db.queue THEN [bm EXCEPT !.failed = "publishqueue"]
       ELSE [bm EXCEPT !.db.queue = [s \in DOMAIN @ \cup {has.seq} |->
                                        IF s = has.seq THEN has ELSE @[s]],
                       !.queued = @ (+) SetToBag(allBuckets(has.levels))]

\* How many checkpoints of the queue name each bucket.
loadBucketsReferencedByPublishQueue(queue) ==
    LET naming(b) == {s \in DOMAIN queue : b \in allBuckets(queue[s].levels)}
    IN [b \in UNION {allBuckets(queue[s].levels) : s \in DOMAIN queue} |-> Cardinality(naming(b))]

\* StateSnapshot and PublishWork: the snapshot's merges are run again.
takeSnapshotAndPublish(bm, has) ==
    IF bm.pub # NoSnapshot THEN bm
    ELSE [getBucketsByHash(bm, UNION {getHashes(has.levels[i].next) : i \in Levels})
            EXCEPT !.pub = [seq |-> has.seq, levels |-> restartMerges(has.levels),
                            original |-> allBuckets(has.levels), resolved |-> FALSE]]

publishQueuedHistory(bm) ==
    IF DOMAIN bm.db.queue = {} THEN bm
    ELSE takeSnapshotAndPublish(bm, bm.db.queue[Min(DOMAIN bm.db.queue)])

\* A worker has merged for the snapshot.
finishSnapshotMerge(bm, i) ==
    [adoptFilesAsBuckets(bm, {resolve(bm.pub.levels[i].next, i)})
        EXCEPT !.pub.levels[i].next.ready = TRUE]

\* ResolveSnapshotWork, which is retried until all merges are finished and
\* the ledger after the checkpoint is closed.
snapshotIsReady(bm, lcl) ==
    /\ bm.pub # NoSnapshot
    /\ ~bm.pub.resolved
    /\ lcl > bm.pub.seq
    /\ \A i \in Levels : isMerging(bm.pub.levels[i].next) => bm.pub.levels[i].next.ready

resolveSnapshot(bm) ==
    LET levels == [i \in Levels |-> [bm.pub.levels[i] EXCEPT
                     !.next = IF isMerging(@) THEN setLiveOutput(resolve(@, i)) ELSE @]]
    IN [bm EXCEPT !.pub.resolved = TRUE, !.pub.levels = levels]

historyPublished_NotPosted(bm, success) ==
    IF ~success THEN [bm EXCEPT !.pub = NoSnapshot]
    ELSE [bm EXCEPT !.pub = NoSnapshot, !.posted = TRUE,
                    !.db.queue = Restrict(@, DOMAIN @ \ {bm.pub.seq}),
                    !.queued = @ (-) SetToBag(bm.pub.original)]

\* PublishWork::onSuccess and onFailureRaise.  The files were put by then:
\* PutSnapshotFilesWork expects to find every bucket of the snapshot.
historyPublished(bm, success) ==
    LET put   == getBucketsByHash(bm, allBuckets(bm.pub.levels))
        ended == [put EXCEPT !.pub = NoSnapshot, !.posted = TRUE]
    IN IF ~success THEN [bm EXCEPT !.pub = NoSnapshot, !.posted = TRUE]
       ELSE [ended EXCEPT !.db.queue = Restrict(@, DOMAIN @ \ {bm.pub.seq}),
                          !.queued = @ (-) SetToBag(bm.pub.original)]
=============================================================================
