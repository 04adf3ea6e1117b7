--------------------------- MODULE MCLedgerManager --------------------------
(***************************************************************************)
(* The instances of Catchup and of Work that are model-checked, one per    *)
(* scenario.  "node": each ledger writes a fixed batch of keys; a is       *)
(* created and deleted all the time, b lives in ledger 2 only, c is        *)
(* updated, and the keys of Genesis are there from the start.  A hash is   *)
(* the number of its ledger, plus ForkOffset on a chain that is not the    *)
(* network's.  "works": the tree of works of a catchup, and a publication. *)
(***************************************************************************)
EXTENDS Catchup

VARIABLES scenario, ws, started, pending, running, orphans, broken, shutdown

CONSTANTS
    ForkAt,      \* the first ledger that a flawed archive gets wrong
    Genesis,     \* the keys that the first ledger writes
    Gaps,        \* pairs of slots that may be heard one after the other
    Unheard      \* slots that are never heard

MCGaps == {<<1, 5>>, <<1, 9>>, <<4, 6>>, <<4, 10>>, <<2, 21>>}
MCUnheard == 13 .. 20

ForkOffset == 100

OnFork(hash) == hash > ForkOffset

MCLedgerHash(hash, value) ==
    (hash % ForkOffset) + 1 + (IF OnFork(hash) \/ value.txSet.txs # "net" THEN ForkOffset ELSE 0)

Value(seq, prev, txs) == [txSet |-> [prev |-> prev, txs |-> txs], closeTime |-> seq, upgrades |-> {}]

MCNetworkData(seq) ==
    LET v == Value(seq, seq - 1, "net") IN [seq |-> seq, txSet |-> v.txSet, value |-> v]

Header(seq, prev, txs) ==
    LET v == Value(seq, prev, txs) IN [seq |-> seq, prev |-> prev, value |-> v, hash |-> MCLedgerHash(prev, v)]

MCBatch(seq) ==
    [live |-> [k \in (IF seq = 1 THEN Genesis ELSE {}) \cup (IF seq % 4 = 1 THEN {"a"} ELSE {})
                       \cup (IF seq = 2 THEN {"b"} ELSE {})
                       \cup (IF seq % 2 = 0 THEN {"c"} ELSE {}) |-> seq],
     dead |-> [k \in (IF seq % 4 = 3 THEN {"a"} ELSE {}) \cup (IF seq = 3 THEN {"b"} ELSE {}) |-> DEAD]]

\* The ledger after each number of batches.
Ledgers[n \in Nat] ==
    IF n = 0 THEN <<>>
    ELSE LET before == Ledgers[n - 1]
             old    == IF n = 1 THEN Empty ELSE before[n - 1]
         IN Append(before, MCBatch(n).live @@ Restrict(old, DOMAIN old \ DOMAIN MCBatch(n).dead))

LedgerTable == Ledgers[LastSlot]

\* The bucket list of the network after each ledger.
NetworkLevels[n \in Nat] ==
    IF n = 0 THEN <<>>
    ELSE LET before == NetworkLevels[n - 1]
         IN Append(before, addBatch(IF n = 1 THEN EmptyLevels ELSE before[n - 1], n, MCBatch(n)))

NetworkTable == NetworkLevels[LastSlot]

\* An archive has the outputs of all merges.
MCArchiveState(seq) ==
    [seq    |-> seq,
     levels |-> [i \in Levels |-> [NetworkTable[seq][i] EXCEPT
                    !.next = IF isLive(@) THEN setHashOutput(resolve(@, i)) ELSE @]]]

MCArchiveLedgers(checkpoint, flaw) ==
    LET first   == Max({1, checkpoint - CheckpointFrequency + 1})
        all     == [j \in 1 .. checkpoint - first + 1 |->
                      LET seq == first + j - 1
                      IN CASE flaw = "fork" /\ seq > ForkAt -> Header(seq, seq - 1 + ForkOffset, "other")
                           [] flaw = "fork" /\ seq = ForkAt -> Header(seq, seq - 1, "other")
                           [] flaw = "hash" /\ seq = ForkAt ->
                                  [Header(seq, seq - 1, "net") EXCEPT !.hash = @ + ForkOffset]
                           [] OTHER -> Header(seq, seq - 1, "net")]
    IN CASE flaw = "short" /\ ForkAt \in first .. checkpoint -> SubSeq(all, 1, Len(all) - 1)
         [] flaw = "gap" /\ ForkAt \in first .. checkpoint -> <<all[1]>> \o SubSeq(all, 3, Len(all))
         [] OTHER -> all

MCArchiveTxSet(seq, flaw) ==
    IF flaw = "txs" /\ seq >= ForkAt THEN [prev |-> seq - 1, txs |-> "other"]
    ELSE archiveHeader(seq, flaw).value.txSet

MCGenesisHeader == [seq |-> 1, hash |-> 1, closeTime |-> 1]
-----------------------------------------------------------------------------
\* A catchup that downloads three files, two at a time, and applies them, next
\* to a publication with a command of its own.
MCWorks == {"catchup", "batch", "get1", "get2", "get3", "apply", "publish"}
MCRoots == {"catchup", "publish"}
MCParent == [w \in MCWorks |-> CASE w \in MCRoots -> w
                                 [] w \in {"batch", "apply"} -> "catchup"
                                 [] OTHER -> "batch"]
MCKind == [w \in MCWorks |-> CASE w = "catchup" -> "stages"
                               [] w = "batch" -> "batch"
                               [] w = "apply" -> "chain"
                               [] OTHER -> "command"]
MCYield == [batch |-> <<"get1", "get2", "get3">>]
MCStages == [catchup |-> <<"batch", "apply">>]

W == INSTANCE Work WITH
        Works <- MCWorks, Roots <- MCRoots, Parent <- MCParent, Kind <- MCKind, Yield <- MCYield,
        Stages <- MCStages, MaxRetries <- 1, MaxConcurrent <- 2, MaxBroken <- 1

workVars == <<ws, started, pending, running, orphans, broken, shutdown>>

MCInit ==
    /\ scenario \in {"node", "works"}
    /\ Init
    /\ \/ failures = 0 /\ restarts = MaxRestarts
       \/ failures = MaxFailures /\ restarts = 0 /\ scenario = "node"
    /\ W!WorkInit

Node ==
    \/ \E slot \in (heard + 1 .. LastSlot) \ Unheard :
          (slot > heard + 1 => <<heard, slot>> \in Gaps) /\ Externalize(slot)
    \/ \E i \in Levels : FinishMerge(i)
    \/ CatchupStep
    \/ PublishStep
    \/ \E flaw \in Flaws : DownloadLedgers(flaw)
    \/ DownloadFails
    \/ PublishFails
    \/ GracefulStop
    \/ CrashAndRestart

MCNext ==
    \/ scenario = "node" /\ Node /\ UNCHANGED <<scenario, workVars>>
    \/ scenario = "works" /\ W!WorkNext /\ UNCHANGED <<scenario, vars>>

\* The main thread takes the works up again after every step of theirs.
MCSpec == MCInit /\ [][MCNext]_<<vars, workVars, scenario>> /\ WF_cw(CatchupTurn)
-----------------------------------------------------------------------------
\* A node that closes ledgers itself, replays them or takes them from buckets,
\* from archives that may be wrong, and stops anywhere in between, is on the
\* chain of the network: no assertion of LedgerManagerImpl fails, nothing is
\* missing, the last closed ledger, the stored one and the bucket list are the
\* network's.  Between ApplyBucketsWork and historyCaughtup the bucket list is
\* already that of the applied checkpoint.
OnTheNetworkChain ==
    /\ Running
    /\ ~OnFork(lm.lcl.hash)
    /\ lm.store.db.lcl = lm.lcl
    /\ LET seq == IF cw.phase = "APPLIED" THEN cw.range.first ELSE lm.lcl.seq
       IN \A i \in Levels : /\ lm.store.levels[i].curr = NetworkTable[seq][i].curr
                            /\ lm.store.levels[i].snap = NetworkTable[seq][i].snap

\* The youngest entry of every key, top down.
Lookup(levels) ==
    LET Over[i \in 0 .. kNumLevels] ==
            IF i = kNumLevels THEN Empty ELSE levels[i].curr @@ levels[i].snap @@ Over[i + 1]
    IN Restrict(Over[0], {k \in DOMAIN Over[0] : Over[0][k] # DEAD})

\* "the BucketList and Database are in a consistent state after a bucket apply":
\* unless buckets are being applied, or a crash interrupted that, the database
\* has the entries of the bucket list, no more and no less.
ConsistentWithDatabase == ~lm.store.torn => lm.store.db.entries = Lookup(lm.store.levels)

\* The bucket list, whose merges drop what younger levels shadow and forget the
\* dead in the last level, holds the ledger, no more and no less; and so does
\* the database, whether its entries were written ledger by ledger or replaced
\* by those of applied buckets.
BucketListIsTheLedger ==
    LET seq == IF cw.phase = "APPLIED" THEN cw.range.first ELSE lm.lcl.seq
    IN Lookup(lm.store.levels) = LedgerTable[seq] /\ ConsistentWithDatabase

\* Applying history ends, with success or with a failure.
CatchupEnds == []<>(lm.catchupState # "APPLYING_HISTORY")

\* No work waits for something that never comes, see Work.
NoStrandedWork == W!NoStrandedWork
=============================================================================
