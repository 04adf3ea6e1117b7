# TLA+ models of essa-core

essa-core is a replicated ledger. The nodes of a network agree, ledger by
ledger, on a set of transactions (SCP, driven by the herder), apply it to a
database of ledger entries (ledger, transactions), fold the changed entries into
a list of content-addressed buckets (bucket), and publish the result to history
archives, from which a node that fell behind catches up (history, catchup,
work, process). Nodes talk over a flooding overlay of authenticated connections
(overlay). One node runs on one thread: every message, timer and completion is a
callback that runs to its end, so the granularity of an action in these modules
is a callback, or less where a callback calls itself through the protocol or
where a crash may come between two of its writes.

The modules model these parts down to the code's control flow. TLC checks them on
small instances, and TLAPS proves, for all values of the constants, that the ballot
protocol implements the rules of federated voting and that nodes agree, what its
statements are to their receivers, the arithmetic of offer exchange and the range of a catchup.

## Modules

| module | models | from `src/src/` |
|---|---|---|
| `Ballots`, `Statements` | ballots and their order; PREPARE, CONFIRM, EXTERNALIZE: newer, sane, what a statement votes for and accepts | `scp/BallotProtocol.cpp` |
| `QuorumSets` | slices, v-blocking sets, quorums, closest v-blocking set; sanity and normal form | `scp/LocalNode.cpp`, `scp/QuorumSetUtils.cpp` |
| `QuorumSetPromises` | what the operators on quorum sets promise, over enumerated inputs | |
| `BallotProtocol` | the ballot protocol of one slot on a set of nodes, with network, timers and restarts | `scp/BallotProtocol.cpp`, `scp/Slot.cpp` |
| `FederatedVoting` | what the nodes promise one another, without messages: the abstract specification | the rules behind the attempt* methods |
| `BallotVotes` | `BallotProtocol` with the votes of each node in history variables; the refinement of `FederatedVoting` | |
| `Nomination` | the nomination protocol of one slot | `scp/NominationProtocol.cpp` |
| `Slot` | nomination and ballot protocol of a slot together; weights, priorities and leaders of a round | `scp/Slot.cpp`, `scp/NominationProtocol.cpp`, `scp/LocalNode.cpp` |
| `PendingEnvelopes` | envelopes that wait for their items, item fetchers and trackers | `herder/PendingEnvelopes.cpp`, `overlay/ItemFetcher.cpp`, `overlay/Tracker.cpp` |
| `Herder` | HerderImpl and its SCP driver over `PendingEnvelopes` and `LedgerManager` | `herder/HerderImpl.cpp`, `herder/HerderSCPDriver.cpp`, `scp/SCP.cpp` |
| `LedgerManager` | closing, skipping and buffering ledgers; catchup ranges and checkpoints | `ledger/LedgerManagerImpl.cpp`, `ledger/SyncingLedgerChain.cpp`, `catchup/CatchupManagerImpl.cpp`, `history/HistoryManagerImpl.cpp` |
| `BucketList` | levels, spills, merges, bucket files and their references, the publish queue | `bucket/*`, `history/StateSnapshot.cpp`, `history/HistoryArchive.cpp` |
| `Catchup` | a node over its buckets, database and archives, with the works of catchup and publication and crashes | `catchup/*`, `historywork/PublishWork.cpp` |
| `Work` | trees of works, retries, callbacks, subprocesses | `work/*`, `process/ProcessManagerImpl.cpp`, `historywork/BatchWork.cpp` |
| `PeerRecords`, `TCPPeer`, `Peer`, `Overlay` | the peer database; one end of a connection and the lists of peers; handshake, messages and flooding; the overlay of a few nodes | `overlay/*` |
| `LedgerTxnSQL`, `LedgerTxn` | the tables and the statements on them; nested ledger transactions over two caches | `ledger/LedgerTxn*.cpp` |
| `NestedTransactions` | a stack of whole ledgers: the abstract specification of `LedgerTxn` | |
| `LedgerEntries` | balances, limits, liabilities, reserves, sub-entries | `transactions/TransactionUtils.cpp`, `ledger/TrustLineWrapper.cpp` |
| `Exchange`, `OfferExchange` | the arithmetic of crossing two offers; crossing the book | `transactions/OfferExchange.cpp` |
| `Operations` | every operation | `transactions/*OpFrame.cpp` |
| `Transactions` | signature checking; validity and application of a transaction | `transactions/SignatureChecker.cpp`, `transactions/TransactionFrame.cpp` |
| `LedgerCloseData` | upgrades with prepareLiabilities; trimming, surge pricing and order of a set | `herder/Upgrades.cpp`, `herder/TxSetFrame.cpp` |
| `Invariants` | the checks the node makes of every operation | `invariant/*.cpp` |
| `LedgerClose` | proposing and closing one ledger after another | `ledger/LedgerManagerImpl.cpp` closeLedger |
| `FederatedVotingProofs` | agreement of the abstract rules | |
| `BallotFacts` | facts on the operators of the ballot modules that the next four share | |
| `BallotProtocolProofs` | the invariants about types, sanity and order of what the ballot protocol records and sends | |
| `BallotRulesProofs`, `BallotStepsProofs` | every attempt, and then every step, obeys the voting rules | |
| `BallotVotesProofs` | the inductive invariant of the votes and the theorems: types, sanity, order, refinement, agreement | |
| `ExchangeProofs`, end of `LedgerManager` | exchange arithmetic; catchup ranges | |
| `MC*`, `*.cfg` | instances for TLC | |

They are layered: an operator of a lower module takes the record of its object and
returns the changed one, and the actions at the top compose them as the code's
calls do. `Herder` extends `PendingEnvelopes` and uses `LedgerManager`; `Catchup`
extends `LedgerManager` and `BucketList`; `Overlay` extends `Peer`, `TCPPeer` and
`PeerRecords`; `LedgerClose` sits on `LedgerCloseData`, `Transactions`,
`Operations`, `OfferExchange` and `LedgerEntries`. Constants named `Handle*`, `Close*`,
`Propose` or `Drop` are given, in a configuration, the operator of the same module
that the code calls there; they stand where one operator is used by several actions.

### How `BallotProtocol` corresponds to the code

`local[n]` holds the members of a BallotProtocol object: `phase`, `b` (mCurrentBallot),
`p` and `pp` (mPrepared, mPreparedPrime), `h` (mHighBallot), `c` (mCommit),
`z` (mValueOverride), `heard` (mHeardFromQuorum), `timer` (whether the slot's ballot
timer is set), `fullyValidated` (Slot's mFullyValidated) and `failed`, which
stands for an assertion that failed or an exception that left the protocol.
`latest`, `last` and `emitted` are mLatestEnvelopes, mLastEnvelope and
mLastEnvelopeEmit; `emitted` is also what a restart reads back, because
emitEnvelope persists a statement before it broadcasts it. `candidate` is
mLatestCompositeCandidate. `sent` holds every statement ever broadcast: the
network may deliver each of them to anybody, any number of times, in any order,
or never.

`advanceSlot` tries attemptPreparedAccept, attemptPreparedConfirmed,
attemptAcceptCommit, attemptConfirmCommit and, in the outermost call,
attemptBump. An attempt that does something emits a statement, which the
node processes itself; that starts an advanceSlot inside the first one, with
the new statement as its hint, after which the outer one goes on with its old
hint on the changed state. `calls[n]` is this stack of calls, and the actions
`AcceptPrepared` ... `Bump` and `ReturnFromAdvanceSlot` are its steps: an attempt
with the statement it emits, and a return, which records the statement as
mLastEnvelope, sends it when the outermost call returns, and runs
checkHeardFromQuorum where the code does. Attempts that find nothing to do are
passed over (`NextAttempt`). Handlers of different nodes touch different state,
so a handler runs to its end before another starts (`Ready`).

The handlers are `processEnvelope` (a statement of another node),
`NewCandidate` (nomination has a composite candidate), `ballotProtocolTimerExpired`
and `Restart`. What the code computes by loops over sorted sets is written as
sets: the candidates of getPrepareCandidates, the highest accepted ballot, the
interval of findExtendedInterval.

Abstractions: values are numbers, so that their order is kept (the code orders
ballots by counter, then value), and quorum sets are constants, found by sender
instead of by hash. An EXTERNALIZE stands for the singleton quorum set of its
sender, as in the code. `NoBallot` is both the null pointer and the ballot
(0, empty). In a configuration in which a single node that has no ballot is a
quorum, the code could store (0, empty) as a prepared ballot; that case
is not modelled. In this module a node restarts between handlers only: a handler of the
ballot protocol persists once, in the outermost call, so a crash before that is a restart before
the handler, and one between persisting and broadcasting is a restart after it whose message is lost.
A handler of nomination that starts the ballot protocol persists twice; `Slot` has the crash in
between. A restart is a launch with FORCE_SCP, after which the node takes part in the slot; `Slot`
has the other kind too.
Counters are capped by `UINT32_MAX`, which is small in the runs, and wrap there
as 32-bit counters do.

### How `Nomination` and `Slot` correspond to the code

`nomination[n]` holds the members of a NominationProtocol object: `round`, `votes`,
`accepted`, `candidates`, `leaders`, `started` (mNominationStarted) and `timer`, the
value nominate is to be called with again. `nominations`, `lastNomination` and
`emittedNomination` are mLatestNominations, mLastEnvelope and what of it was persisted.
A handler that changes votes or accepted values emits a statement and processes
it itself, which may make it emit again. `pending[n]` is what the calls on the stack have yet to do, innermost
first, and an action does one of these: `processOwnEnvelope` processes the node's own statement,
`recordOwnNomination` is the rest of emitNomination (mLastEnvelope, persisting and sending), and
`combineCandidates` the end of processEnvelope, which makes the composite of new candidates and bumps the ballot. The levels
above the innermost find their statement no newer than mLastEnvelope and send
nothing, so one statement leaves a handler. The order is the code's: when the innermost call finds the
candidate, the ballot is persisted and sent before the nomination that backs it. `synced` is isSynced of
LedgerManager, without which the herder does not nominate. A statement that arrives before
nomination has started is recorded and nothing more. The rounds' hashes of nodes and values are constants.

`Slot` is `BallotProtocol` with `Nomination` in place of the free choice in
`NewCandidate`: a new composite candidate calls bumpState inside the nomination handler
(`bumpStateWithCandidate`), what that sets off runs before the handler goes on (`BallotStep`), confirming a commit stops
nomination, and `RestartSlot` restores both from what was persisted, be it between two steps
of a handler. A node launched with FORCE_SCP takes itself to be in sync and nominates again, with a
later close time, which the model takes from `Proposals`. One launched without it is not in sync before it
has caught up: what it validates is at most maybe valid, so it follows the slot, and neither nominates nor sends.

### How `Herder` and `PendingEnvelopes` correspond to the code

`st` is one node; its fields are listed at the head of `Herder`. The calls nest in the
code (an item makes an envelope ready, which lets SCP externalize, which closes a
ledger, which lets the envelopes of the next slot through), and so do the
operators. `trail` holds what was on disk and what was sent at every write or
broadcast within a handler, so that `CrashAndRestart` can pick any of them: a crash
is not confined to the end of a handler.

SCP is abstract here: a slot externalizes the value that all peers have
externalized, its own votes are in `scp`, and nomination and ballots emit what the
protocol modules would emit, at the points where the driver is called. Peers
answer requests, do not have an item, lose the request, leave and come back. The
hash of a ledger is a function of the previous hash and the value.

What the code does that may surprise and is kept: a cancelled tracker without
listeners stays in the map (`overlay/ItemFetcher.cpp:40-43`); SCP keeps a slot whose
transaction sets were erased already; the transaction set that combineCandidates trims is not
stored under its new hash; a timer that fires while the node is at another slot puts itself
off (timerCallbackWrapper).

### How `LedgerManager`, `BucketList`, `Catchup` and `Work` correspond to the code

`lm` is LedgerManagerImpl with CatchupManager's work and the buffered ledgers, `bm`
(its `store`) the bucket list, the bucket directory and the database, `cw` the phase
of CatchupWork and what the phases hand on. A bucket is a map from keys to the
ledger that wrote them, and is its own hash. Merges run on worker threads and finish
at any time (`FinishMerge`); a spill that needs an unfinished one waits for it, as
FutureBucket::resolve does. The publish queue is the
table publishqueue, a function from ledgers to states, beside the counts of the buckets its rows
name that the node keeps in memory (`queued`). `trail` holds what a crash within the last handler can
leave of files and database, at every commit and every file operation. A crash while
ApplyBucketsWork writes leaves entries that are newer than the last closed ledger
(`torn`), which the restarted catchup overwrites.

An archive has the right state of every checkpoint (its hash is checked against
headers that SCP confirmed), but the ledger files of one download may be wrong in one
of five ways (`Flaws`): another chain from some ledger on, a wrong hash, a file that
ends early, a missing ledger, other transactions than the header says. Downloads and
publications fail; the node restarts and resumes.

`Work` is the scheduler below: states, callbacks posted to the main thread that are
dropped when their work is gone, retries, aborts, batches that yield more works and
processes beyond the limit that wait. Behaviour kept because the code has it: a retry
of a plain Work does not reset children that failed; a fatal failure is ignored when a sibling's raise has
already scheduled one; a batch that has failed still yields works while it waits for
its retry; a process that cannot be spawned cancels its timer before anybody waits on
it, so its work is never called (`process/ProcessManagerImpl.cpp:623-648`, `cmd = "lost"`).
`NoStrandedWork` exempts that last case, and says so.

Not modelled here: catchups started by hand, orphaned merges (they only add
files), deleteOldEntries. The branch of hasAnyLedgersToCatchupTo that fails is not reachable for
catchups the node starts itself. The comment in computeCatchupStart that its result
"is always greater than LCL" does not hold when the last closed ledger ends a
checkpoint; the guard `<= lastClosedLedger + 1` makes that harmless, which is part of what
`CatchupRangeHasNoGap` proves.

### How the overlay modules correspond to the code

`ends[e]` is one end of a connection (a Peer object), `node[n]` the overlay manager of a
node with its peer database, `wire[e]` what an end has sent and `taken[e]` how far the
other has read. The completions that asio calls later (a write, a flush, a connect, a
read of a header or a body, the posted second half of shutdown, the idle timer) are
actions of their own, so a drop may come between any two of them. Keys are
terms built from public keys, nonces and the direction; a MAC is valid under the
receiver's key only. Time is counted in expirations of the idle timer.

Kept because the code has it: two nodes that dial each other at the same time can
drop both connections; an authenticated peer is evicted before a move that may still fail;
`force` of Floodgate::broadcast has no effect; the straggler timeout fires with an
empty queue as well; an SCP envelope goes to the herder, which may flood it, before its sender is recorded, so it may be sent
back to the peer it came from (`FloodOnce` is about transactions, which are recorded
first); a copy that is delayed until the node has forgotten the transaction is flooded
again (in the run all copies arrive before that, which takes four ledgers in the code).

### How the transaction modules correspond to the code

`ledger` is the whole ledger: header, accounts, trust lines, offers, data. An operation
is a function from ledgers to an outcome (applied, failed with a code, thrown), and a
failed one leaves the ledger it was given, as the nested LedgerTxn does. `LedgerTxn`
models that nesting itself, separately, with the entry cache, the best-offers cache,
the SQL statements and batched commits, and is shown to implement `NestedTransactions`.
Protocol versions 9 and 10 and the upgrade between them are modelled; amounts have the
width `INT64_MAX`, which is 300 in the run and free in the proofs. `outcome` has the
result codes of the last ledger and the run-time invariants that an operation broke.

## What the runs check

| run | instance | shows |
|---|---|---|
| `ballot_timeouts` | 2 nodes, two timeouts, candidates that change, any delivery | `Agreement`, `NoFailure`, `TimerRunning`, `TimeoutKeepsCommitValue` |
| `ballot_restart` | 3 nodes, one may propose either value, one the first and one none, so that both values get votes and either may be prepared; a restart at any point | `TypeOK`, `SentIsSane`, `NeverStuck`, `SentIsNewer`; the refinement `FollowsFederatedVoting` |
| `slot` | 2 nodes that need each other, two values each, two rounds of nomination, a restart with or without FORCE_SCP at any point of a handler, an early timeout, under fairness | `NoBadNomination`, `BallotsAreNominated`, `SlotExternalizes` |
| `federated_voting` | 3 nodes, up to exchanging them, two values at one counter, the abstract rules; all sane quorum sets over a few nodes, nested as deep as sanity allows | `IInv`, `CommitAgreement`; `QuorumsAndBlockingSetsAgree`, `NormalFormKeepsSlices` |
| `herder` | one node, two peers, ledgers 2 to 5, one lost request or peer, two losses of sync, one crash within any handler | `NoFailure`, `QueueIsDrained`, `SentIsPersisted`, `CurrentLedgerAdvances`, `TimersRunOrExpire`, `EnvelopesAreProcessed` |
| `ledger_manager` | one node, 25 ledgers, 3 bucket levels, checkpoints of 4; one gap, one failure or one restart, five kinds of flawed archives; a tree of seven works with two processes | `OnTheNetworkChain`, `BucketListIsTheLedger`, `FilesAreKept`, `NothingIsStranded`, `NoStrandedWork`, `CatchupEnds` |
| `overlay` | up to three of four nodes, up to three connections, ten scenarios | `ListsAreRight`, `HonestPeersAuthenticate`, `FloodOnce`, `ConnectionsEnd` |
| `ledger_txn` | three levels of transactions, caches and batches of size one, five scenarios | `ReadsAreRight`, `ExactMeansExact`; the refinement `ImplementsNesting` |
| `ledger_close` | three accounts, one credit asset, up to four ledgers of one or two transactions, seven scenarios | `InvariantsHold`, `LumensAreConserved`, `LiabilitiesAreOffers`, `NoReplay`, `NoException` |
| `ballot_falls_behind` | 3 nodes, four timeouts, one constrained family of behaviours | `NoFailure` fails: first finding |
| `ballot_forgets_value` | 3 nodes, one timeout, one restart | `TimeoutKeepsCommitValue` fails: second finding |
| `apply_buckets` | as `ledger_manager`, without failures, and with nothing in the last level | `ConsistentWithDatabase` fails: third finding |

### Bounds

*Ballots.* `Value = {1, 2}`; three nodes of which any two are a quorum, or two nodes that need each other;
`MaxTimeouts` and `MaxRestarts` count events in the whole system. With three nodes it takes two to block one,
which are a quorum as well, so acceptance by a blocking set and by a quorum differ in what
must be said (accepted, or voted for) and not in who; with two nodes one alone blocks the other, and
`ballot_timeouts` and `slot` are the runs that tell the two apart. Two values are enough for every conflict (rules
compare a ballot with one that is incompatible); three nodes are the smallest
network in which a node is absent from a quorum that decides, and three counters the
fewest with which a node votes to commit, is overtaken and comes back. Where
`Reordering` is FALSE only the last statement of a node can arrive, as when the herder
rebroadcasts it. `MCBallotVotes` uses a VIEW that hides what nothing reads any more: the
statements and the candidate of a node that has externalized and is between handlers.
Every value is fully valid; `Validation` is a constant for instances in which it is not.
The recursion limit of advanceSlot is the code's 50.

*Slot.* The hashes are one choice of many: the first round is led by n1, the second by n2 as well. What the run shows
is for this order of leaders, and not for two nodes that lead in different orders. Two rounds are needed for
liveness, not only for interest: a restarted node whose votes already hold what the
leader offers, and which heard the leader before its nomination started, looks at
those statements again only when it leads a round itself and adds a value. Two ballot timeouts
can be used up before the nodes have all they need, four cannot. A VIEW hides the statements in `sent`
that can no longer arrive, on which neither a step nor a property depends. The second value of each node is
the later close time it proposes after a restart.

*Herder.* Scenarios keep the product of independent causes small: slow, lost and refused
items (`fetch`, and `bad` with a quorum set that is not sane); slots that externalize in any order, lost sync and
history (`track`); taking part in consensus, with upgrades set beforehand or not, and crashing (`vote`); closing, rebroadcasting and
crashing (`restart`). Five ledgers reach past MAX_SLOTS_TO_REMEMBER (2) and the
validity bracket (2), so that slots are erased while envelopes for them arrive.

*Ledger manager.* Checkpoints of 4 ledgers and three levels make the last level take
three spills in 25 ledgers. `Gaps` are the places where the
node may miss ledgers: within a checkpoint, over one boundary, over several, so that both catchup by
replay and by buckets happen, with the trigger before, at and after a boundary. Slots 13 to 20 are never
heard (`Unheard`): a node hears up to 12 slots, with a short gap or none, or the last five after the long gap.

*Overlay.* One slot for inbound connections, two targets and one extra make every limit
bite with three connections. Scenarios: `crossing`, `ban`, `slots`, `race`, `idle`, `self`,
`tick`, `promote`, `flood`, `envelopes`; the head of `MCOverlay` says what each allows.

*Ledger transactions.* Caches that hold one entry evict at once and batches of one entry split every
commit. Depth three has a transaction whose parent is not the root.

*Ledger close.* The amounts are such that offers round, cross partly, run into a limit of either side
and are erased; `INT64_MAX` is small enough that balances come close to it.

Deadlock is not checked: a slot ends, a bounded number of ledgers closes, and events
outside the node are bounded.

### Fairness

*Slot* (`Fairness`): a running handler ends, the herder of a node in sync triggers nomination,
nomination timers fire (up to `MaxRounds`), the last statement of a node reaches every
other node because the herder broadcasts it again as long as the slot is not
externalized, and ballot timers fire. It is weak fairness of all steps but restarts;
`CanProgress` is written out in place of ENABLED, which TLC evaluates slowly on these
actions, and was compared with ENABLED on every state of a smaller instance. Ballot
timeouts grow with the counter (computeTimeout), so all but the first `MaxEarlyTimeouts`
come when everything under way has been handled (`TimelyTimeout`). In the run that
constant is 1, so one timeout may come at any time. `SlotExternalizes` makes two exceptions. A node that came back
without FORCE_SCP takes no part in the slot, and the other needs it. And a node that came back without the value
it votes to commit (`LostCommitValue`, the second finding) may leave both stuck; without that
exception TLC finds a behaviour with a restart and an early timeout in which they are.

*Herder*: a request is answered or lost in the end, and the timer of a tracker goes off.
Losses are bounded by `MaxLost`, peers come back.

*Ledger manager*: the main thread takes up the works again after every step of theirs
(`WF_cw(CatchupTurn)`). Nothing is assumed of downloads but that they end, with success
or failure, as processes do.

*Overlay*: the event loop runs what is posted and the timers that expire, and the kernel
ends each write, with success or with an error. Nothing is assumed of the other node, nor
that a read ends.

### Findings

1. **A node that fell behind fails its own assertion.** `setPreparedConfirmed` calls
   `updateCurrentIfNeeded(newH)`; `bumpToBallot` resets h when the value changes
   but not c. With b = c = h = (1,1) and p = (3,1), ratifying (2,2) leaves c
   without h. `checkInvariants` asserts against it, and without assertions the
   statement (nC = 1, nH = 0) is not sane and the node throws "moved to a bad
   state". Agreement is not at stake: the node stops.
2. **A restarted node forgets the value it votes to commit.** `setStateFromEnvelope`
   does not restore mValueOverride. When a different composite candidate
   is nominated and the timer fires, bumpState asks for a ballot with that value,
   updateCurrentValue refuses it because of c, and the node is left on its ballot
   without a timer. It moves again only when others do. In `slot`, with two nodes that
   need each other, a restart and one early timeout, both may
   stay where they are: the other has moved to a higher counter, and attemptBump
   runs into the same refusal.
3. **An entry that was deleted comes to stay.** `ApplyBucketsWork::onStart` passes over levels that equal the
   local ones and deletes, at the first that differs, only what is as young as that level.
   Tombstones are dropped in the last level. When a node missed the deletion of an
   entry, and the last level of the checkpoint has forgotten it again and
   equals the node's own, the entry stays in the database although no bucket holds it. It takes
   a spill that leaves the last level as it was: one of tombstones only. In
   `ledger_manager` the last level holds an entry from the start (`Genesis`), the
   spill changes it, and the database is right (`BucketListIsTheLedger`).

### Other observations

Two more disagreements have an instance but no run of their own; the scenarios of
`ledger_close` leave them out, and its properties are to be read with that exception.

- With `OnlyRaising` in place of `AllScenarios`, `LiabilitiesAreOffers` fails: when the
  reserve is raised, prepareLiabilities erases offers and sets the liabilities of the assets of
  the offers that remain (`herder/Upgrades.cpp:551,562`). An asset none of whose offers
  remains keeps the liabilities it had, although the comment promises to "Update liabilities
  to reflect offers remaining in the book" (line 579).
- With `OnlyFull`, `PaymentsHaveCodes` fails: from version 10 on, a native payment to an account whose
  buying liabilities leave no room makes the path payment MALFORMED, which
  PaymentOpFrame has no code for and throws (`transactions/PaymentOpFrame.cpp:99`). The
  transaction fails with an internal error; the ledger is not affected.

Seen while modelling, and kept in the models as the code has it:
getInflationWinners can miss a destination that a child transaction lifts over one beyond the limit of the
parent's query (`ledger/LedgerTxn.cpp`; `WinnersAreRight` is checked where as many may win as there are destinations); and
LiabilitiesMatchOffers::shouldCheckAccount compares the current entry with itself
(`invariant/LiabilitiesMatchOffers.cpp`), so `Invariants` checks less than its comment says, and
`LiabilitiesAreOffers` states the sum for the whole ledger instead.

## What is proved

`FederatedVotingProofs` proves `Spec => []CommitAgreement` for the abstract rules,
from `QuorumAssumption` (quorums are sets of nodes that pairwise intersect),
`ValueAssumption` and `CounterAssumption`. Agreement is not inductive. The
invariant `IInv` adds: a node that votes against a ballot it voted to commit does
so because that ballot was aborted (`VotesAreHonest`); behind every aborted
ballot stands a quorum that voted against it and can no longer vote to commit
it (`AbortedByQuorum`); only ballots that a quorum accepted as prepared, or whose value is
decided, are voted for (`CommitVotesPrepared`); every accepted commit has a decided value
(`CommitsDecided`), one for which a quorum voted to commit a prepared ballot. Of two ballots with
different values, each with a quorum of votes, the higher is prepared and aborts the lower, and the
quorum that voted against the lower meets the quorum that voted for it. The second alternative
in `MayVoteCommit` is there because of EXTERNALIZE: a node that sent one counts for
every ballot with its value, with itself as its only slice, so that others confirm such
ballots as prepared on its word, without a quorum of acceptances.

The next theorems are about the detailed module itself, for every set of nodes and
values, all quorum sets and all bounds: `Spec => []TypeOK` and
`Spec => []SentIsSane`. They are stated in `BallotVotesProofs` and rest on `BallotProtocolProofs`, which shows that
each step preserves the invariants. Both come from `IInv` of `BallotProtocol`: statements a node
has recorded or is processing are well formed (`RecordedWellFormed`), and the
last statement of a node has a ballot (`LastHasBallot`). The type theorem says more than it
seems to, because the code picks elements of sets computed from what it received:
it needs that candidates taken from well-formed statements are ballots with
a value, that the interval search answers with boundaries it was given, that
attemptBump always finds a counter to move to (the highest counter in
sight has nobody ahead of it, and the empty set blocks nobody), and that a sane
statement restores a proper state.

`Spec => SentIsNewer` is proved in the same way, from `RInv`. A node has four
records of what it said (mLatestEnvelopes, mLastEnvelope, mLastEnvelopeEmit and
the hints of the calls on its stack), and they are written at different depths of the re-entrant
advanceSlot. `RInv` orders them: sent before emitted, emitted before last, last and
every hint before latest (`InOrder`); the recorded statement is the one createStatement makes of the local state
(`Current`); and what was recorded last is on its way to be sent (`OnItsWay`). Order is not kept by the first
conjunct alone: a return overwrites mLastEnvelope with its hint only if that is newer, and it is the
other conjuncts that say the statement so recorded is the newest when the outermost call returns.

`BallotVotesProofs` proves that the detailed ballot protocol implements `FederatedVoting`
(`ImplementsFederatedVoting`: `SpecVotes => FollowsFederatedVoting`) and that
no two nodes externalize different values (`NodesAgree`: `SpecVotes => []Agreement`).
`SpecVotes` is `Spec` with four history variables, the votes of each node, which only collect
what the node's own statements say. The argument has three layers.
`BallotRulesProofs` shows, attempt by attempt, that the state an attempt function moves to
is allowed by the rules, given the statements its quorum or blocking set was found in (`Follows`,
`Allowed`): setPrepared keeps enough in p and p' to account for every ballot accepted, a lowered c or h is
lowered because of a ballot that aborts it, the interval of attemptAcceptCommit is supported at every counter in it.
`BallotStepsProofs` carries this from attempts to steps: a new statement made from an allowed state adds only votes that `Speak` permits
(`VotesBehind` says what the current statement tells of all votes ever made, since only the newest is
kept). `BallotVotesProofs` shows `VInv` inductive: `RInv`, the invariant of `FederatedVoting`, and that everything
recorded, kept or sent is in the history of its author (`StatementsRecorded`).
The assumptions are those of the model and two more. `QuorumIntersection`: any two quorums of the configuration
share a node, which is what operators have to ensure. `RestartsRemember`: there are no restarts, or no value is
one that can only be maybe valid. A node that is not fully validated processes its own statements
and does not send or persist them; when it restarts, it forgets votes others cannot have seen, but
its history still has them, so that the refinement would not hold for these votes. TLC checks the same refinement in
`ballot_restart`, where every value is fully valid.

`ExchangeProofs` is about the arithmetic of `exchangeV10` for every price, limit and width of integers
(`INT64_MAX` any positive number). `ExchangeWithinLimits`: no division
overflows, no limit of either side is exceeded, and rounding favours the side whose
offer stays. `OfferExchangeNeverThrows`: outside path payments the price error
thresholds cancel an exchange and never throw. `AdjustedOfferNeverThrows`: an offer that went through adjustOffer,
as crossOfferV10 makes it do first, satisfies the thresholds when it is taken whole
or favours the right side when it is not, so that a path payment does not throw either.
`AdjustingTwiceChangesNothing`: adjustOffer is idempotent, so that an offer in the book does not
shrink by being looked at. The argument is a chain of lemmas on
rounded division: a value rounded up, then down, comes back where it was
(`TwoSteps`, `Readjusted`), and the threshold of 1 % holds for amounts that favour the wheat
(`FavouredWheat`, `Thresholds`). They need products of variables, which the prover gets one at a time.

`LedgerManager` proves `CatchupRangeHasNoGap` from `FrequencyAssumption` (a checkpoint has
at least two ledgers): for every last closed ledger, target and count, a catchup that applies buckets does so at the end of a
checkpoint past the next ledger and not past the first ledger to be replayed, and one that does not starts replay in a
checkpoint that contains the next ledger or an earlier one.

Only model-checked: liveness (fairness is out of the prover's reach), with `TimerRunning` and
`NeverStuck`, which say when a node still has a step to take; `NoFailure` of the ballot protocol, which the first finding
shows not to hold in general; `Slot` (its votes and candidates are folds over the nodes, in the order the code visits
them); `LedgerTxn` and its refinement of `NestedTransactions`, `LedgerClose` and the
modules below it, `Herder` and `Work`, whose nested calls are RECURSIVE operators, which the prover does not take;
`Overlay`, which folds over lists of peers; and the algorithms on quorum sets (induction over
nested data is out of reach too).

## Not modelled

- **History inference, simulation**: an offline report and test support.
- **Database**: sessions, pools and schema upgrades are library calls; what a module persists is a
  variable of it that survives a crash, and a database transaction is one step.
- **Timers and clocks**: the order in which callbacks run is the interleaving of actions; virtual time is for tests.
- **Cryptography**: taken as ideal. A statement has the sender it names, a hash names one
  content, a MAC is valid under one key.
- **Configuration, commands, logging, metrics, JSON, XDR and file formats**: input and output.
- **Protocol versions before 9**: branches of the operations that no current ledger takes.
- Of parts that are modelled: saveSCPHistory and the history tables (written, never read by a
  modelled part), isNodeInQuorum (a report), the eviction of caches by size in PendingEnvelopes,
  GET_PEERS, message sizes, catchups started by hand and the repair of missing bucket files, deleteOldEntries,
  and the works that transfer, zip or verify one file, which are commands that succeed or fail.

PROJECT.json lists for each part what is modelled, which lines a definition stands for, and the
hazards the properties are about.
