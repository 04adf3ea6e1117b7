------------------------------- MODULE Herder -------------------------------
(***************************************************************************)
(* HerderImpl and HerderSCPDriver: between the overlay, which delivers     *)
(* envelopes and items, SCP, which decides on the value of a slot, and the *)
(* LedgerManager, which closes ledgers.  A handler runs to its end on the  *)
(* main thread, and the calls nest: an item that arrives makes an envelope *)
(* ready, which makes SCP externalize, which closes a ledger, which lets   *)
(* the envelopes of the next slot through, and so on.                      *)
(*                                                                         *)
(* A node is a record st:                                                  *)
(*   pe, lm          see PendingEnvelopes and LedgerManager; lm.store is   *)
(*                   the set of transactions applied                       *)
(*   tracking, lastTracking    mTrackingSCP, mLastTrackingSCP              *)
(*   scp             slot -> what SCP knows of the slot, see NewSlot       *)
(*   timers          the SCP timers armed: <<slot, id>>                    *)
(*   trigger         the slot mTriggerTimer is armed for, or 0             *)
(*   tracked, rebroadcast      mTrackingTimer, mRebroadcastTimer armed     *)
(*   current, nominating       mCurrentValue is set, mLedgerSeqNominating  *)
(*   lastSaved       mLastSlotSaved                                        *)
(*   pending         mPendingTransactions, four generations                *)
(*   armed           mUpgrades' parameters                                 *)
(*   db              what is on disk: lcl, applied, scp and upgrades       *)
(*   sent            the envelopes broadcast                               *)
(*   trail           what was on disk, and sent, within the last handler   *)
(*   ran             the SCP timers whose callback this step ran           *)
(*   starts          how often the node was started                        *)
(*   failed          the assertion or exception that ends the node         *)
(* An envelope is [node, slot, type, values, qSet].                        *)
(***************************************************************************)
EXTENDS PendingEnvelopes

CONSTANTS
    Me, Peers,                   \* validators; all of them make a quorum
    MyQSet,
    LEDGER_VALIDITY_BRACKET, MAX_TIME_SLIP_SECONDS,
    TimeNow,                     \* the clock, which stands still
    CheckpointFrequency, CatchupCount, LedgerHash(_, _),
    NetworkHeader(_),            \* the network's ledger of a sequence number
    AppliedUpTo(_)               \* the transactions applied up to that ledger

CloseApplied(applied, header, d) == applied \cup d.txSet.txs
AssumeApplied(applied, header) == AppliedUpTo(header.seq)

LM == INSTANCE LedgerManager WITH CloseStore <- CloseApplied, AssumeStore <- AssumeApplied

RECURSIVE recvSCPEnvelope(_, _), itemRecv(_, _), processSCPQueueUpToIndex(_, _)
RECURSIVE processReadySlots(_, _), ledgerClosed(_)

NONE == [index |-> 0, closeTime |-> 0]
NoValue == [txSet |-> [prev |-> 0, txs |-> {}], closeTime |-> 0, upgrades |-> {}]
NewSlot == [fully |-> TRUE, noms |-> {}, exts |-> {}, own |-> {}, nominating |-> FALSE,
            proposal |-> NoValue, done |-> FALSE]
NoSCPState == [envs |-> {}, txSets |-> {}, qSets |-> {}]

Failing(st, what) == [st EXCEPT !.failed = what]

\* What a crash right now would leave, and what the others saw by then.
Saved(st) == [st EXCEPT !.trail = @ \cup {[db |-> st.db, sent |-> st.sent]}]
-----------------------------------------------------------------------------
(* HerderSCPDriver: where consensus is *)

nextConsensusLedgerIndex(st) == st.tracking.index + 1
trackingSCP(st) == st.tracking # NONE

getCurrentLedgerSeq(st) == Max({st.lm.lcl.seq, st.tracking.index, st.lastTracking.index})

lostSync_ForgetsWhere(st) == [st EXCEPT !.lastTracking = NONE, !.tracking = NONE]
lostSync(st) == [st EXCEPT !.lastTracking = st.tracking, !.tracking = NONE]

isSlotCompatibleWithCurrentState(st, slot) ==
    LM!isSynced(st.lm) /\ slot = st.lm.lcl.seq + 1

checkCloseTime(lastCloseTime, v) ==
    v.closeTime > lastCloseTime /\ v.closeTime <= TimeNow + MAX_TIME_SLIP_SECONDS

\* TxSetFrame::checkValid: on the last closed ledger, and nothing applied before
checkValid(st, txSet) == txSet.prev = st.lm.lcl.hash /\ txSet.txs \cap st.lm.store = {}

validateValueHelper(st, slot, v) ==
    LET lcl == st.lm.lcl
        compat == isSlotCompatibleWithCurrentState(st, slot)
        timely == IF compat \/ slot > lcl.seq THEN checkCloseTime(lcl.closeTime, v)
                  ELSE IF slot = lcl.seq THEN v.closeTime = lcl.closeTime
                  ELSE v.closeTime < lcl.closeTime
        known == v.txSet \in DOMAIN st.pe.txSets
        next  == nextConsensusLedgerIndex(st)
    IN CASE ~timely -> "INVALID"
         [] timely /\ compat ->
                IF known /\ checkValid(st, v.txSet) THEN "FULL" ELSE "INVALID"
         [] OTHER ->
                IF \/ ~trackingSCP(st)
                   \/ next > slot
                   \/ next = slot /\ checkCloseTime(st.tracking.closeTime, v)
                THEN "MAYBE" ELSE "INVALID"

validateValue(st, slot, v, nomination) ==
    LET res == validateValueHelper(st, slot, v)
    IN IF nomination /\ ~(v.upgrades \subseteq st.armed) THEN "INVALID" ELSE res

setupTimer(st, slot, id) ==
    IF slot <= getCurrentLedgerSeq(st)
    THEN [st EXCEPT !.timers = {t \in @ : t[1] # slot}]
    ELSE [st EXCEPT !.timers = @ \cup {<<slot, id>>}]
-----------------------------------------------------------------------------
(* SCP, as the driver sees it *)

Slot(st, slot) == IF slot \in DOMAIN st.scp THEN st.scp[slot] ELSE NewSlot
SetSlot(st, slot, s) == [st EXCEPT !.scp = Put(@, slot, s)]

getLatestMessagesSend(st, slot) == IF Slot(st, slot).fully THEN Slot(st, slot).own ELSE {}

isSlotFullyValidated(st, slot) == slot \in DOMAIN st.scp /\ st.scp[slot].fully

purgeSlots(st, maxSlot) == [st EXCEPT !.scp = Restrict(@, {s \in DOMAIN @ : s >= maxSlot})]

stopNomination(st, slot) ==
    IF slot \in DOMAIN st.scp THEN [st EXCEPT !.scp[slot].nominating = FALSE] ELSE st

Own(slot, type, values) ==
    [node |-> Me, slot |-> slot, type |-> type, values |-> values, qSet |-> MyQSet]

\* A statement of mine replaces the one of its protocol.
Kind(type) == IF type = "NOMINATE" THEN "nomination" ELSE "ballot"
SetOwn(s, e) == [s EXCEPT !.own = {x \in @ : Kind(x.type) # Kind(e.type)} \cup {e}]
-----------------------------------------------------------------------------
(* HerderImpl: sending *)

\* My latest statements with all they name, for the next start.
persistSCPState(st, slot) ==
    LET envs == getLatestMessagesSend(st, slot)
    IN IF slot < st.lastSaved THEN st
       ELSE Saved([st EXCEPT
                !.lastSaved = slot,
                !.db.scp = [envs   |-> envs,
                            txSets |-> (UNION {getTxSetHashes(e) : e \in envs}) \cap DOMAIN st.pe.txSets,
                            qSets  |-> {e.qSet : e \in envs} \cap st.pe.qSets]])

broadcast(st, e) == Saved([st EXCEPT !.sent = @ \cup {e}])

emitEnvelope_BroadcastFirst(st, e) ==
    [persistSCPState(broadcast(st, e), e.slot) EXCEPT !.rebroadcast = TRUE]
emitEnvelope(st, e) ==
    [broadcast(persistSCPState(st, e.slot), e) EXCEPT !.rebroadcast = TRUE]

rebroadcast(st) ==
    LET envs == getLatestMessagesSend(st, st.lm.lcl.seq + 1)
    IN Saved([st EXCEPT !.sent = @ \cup envs, !.rebroadcast = TRUE])

persistUpgrades(st) == Saved([st EXCEPT !.db.upgrades = st.armed])

setUpgrades(st, upgrades) == persistUpgrades([st EXCEPT !.armed = upgrades])

trackingHeartBeat(st) == [st EXCEPT !.tracked = TRUE]
-----------------------------------------------------------------------------
(* HerderImpl: transactions *)

removeReceivedTxs(st, dropTxs) ==
    [st EXCEPT !.pending = [g \in DOMAIN @ |-> @[g] \ dropTxs]]

updatePendingTransactions(st, applied) ==
    [st EXCEPT !.pending = <<{}>> \o Front(removeReceivedTxs(st, applied).pending)]

recvTransaction(st, tx) ==
    IF tx \in (UNION Range(st.pending)) \cup st.lm.store THEN st
    ELSE [st EXCEPT !.pending[1] = @ \cup {tx}]
-----------------------------------------------------------------------------
(* HerderImpl: a slot externalizes *)

\* The database follows the last closed ledger.
commitLedger(st) ==
    Saved([st EXCEPT !.db.lcl = st.lm.lcl, !.db.applied = st.lm.store])

valueExternalized(st0, slot, v) ==
    LET st1 == [trackingHeartBeat(st0) EXCEPT !.trigger = 0]
        st2 == IF v.upgrades \cap st1.armed # {} THEN setUpgrades(st1, st1.armed \ v.upgrades)
               ELSE st1
        lm  == LM!ledgerExternalized(st2.lm, [seq |-> st2.tracking.index, txSet |-> v.txSet, value |-> v])
        st3 == updatePendingTransactions(commitLedger([st2 EXCEPT !.lm = lm]), v.txSet.txs)
        st4 == IF slot > MAX_SLOTS_TO_REMEMBER THEN purgeSlots(st3, slot - MAX_SLOTS_TO_REMEMBER)
               ELSE st3
    IN CASE v.txSet \notin DOMAIN st0.pe.txSets -> Failing(st1, "externalized set is not known")
         [] v.txSet \in DOMAIN st0.pe.txSets /\ lm.failed # "" -> Failing(st2, lm.failed)
         [] OTHER -> trackingHeartBeat(ledgerClosed(st4))

\* HerderSCPDriver::valueExternalized
driverValueExternalized(st0, slot, v) ==
    LET st1 == [st0 EXCEPT !.timers = {t \in @ : t[1] > slot}]
        st2 == IF st1.current THEN [stopNomination(st1, st1.nominating) EXCEPT !.current = FALSE]
               ELSE st1
        now == [index |-> slot, closeTime |-> v.closeTime]
        st3 == [st2 EXCEPT !.tracking = now,
                           !.lastTracking = IF @ = NONE THEN now ELSE @]
    IN IF slot <= getCurrentLedgerSeq(st1) THEN st1 ELSE valueExternalized(st3, slot, v)

ledgerClosed(st0) ==
    LET lastIndex == st0.tracking.index
        nextIndex == nextConsensusLedgerIndex(st0)
        st1 == processSCPQueueUpToIndex([st0 EXCEPT !.trigger = 0,
                                                    !.pe = slotClosed(@, lastIndex)], nextIndex)
    IN IF \/ st1.failed # ""
          \/ nextIndex # nextConsensusLedgerIndex(st1)
          \/ ~LM!isSynced(st1.lm)
       THEN st1
       ELSE [st1 EXCEPT !.trigger = nextIndex]

\* SCP::receiveEnvelope.  An EXTERNALIZE of one peer blocks every other value:
\* this node accepts to commit it, and confirms once all peers did.  The last
\* of its new statements is sent when all of that is over.
receiveEnvelope(st0, e) ==
    LET v      == CHOOSE x \in e.values : TRUE
        level  == validateValue(st0, e.slot, v, FALSE)
        s0     == Slot(st0, e.slot)
        s1     == [s0 EXCEPT !.exts = @ \cup {e}, !.fully = @ /\ level = "FULL"]
        all    == {x.node : x \in s1.exts} = Peers
        e1     == Own(e.slot, IF all THEN "EXTERNALIZE" ELSE "CONFIRM", {v})
        s2     == [SetOwn(s1, e1) EXCEPT !.done = all, !.nominating = @ /\ ~all]
        st1    == SetSlot(st0, e.slot, s2)
        st2    == IF all THEN driverValueExternalized(st1, e.slot, v) ELSE st1
    IN CASE e.type = "NOMINATE" -> SetSlot(st0, e.slot, [s0 EXCEPT !.noms = @ \cup {e}])
         [] e.type # "NOMINATE" /\ (level = "INVALID" \/ e.node \in {x.node : x \in s0.exts}) ->
                SetSlot(st0, e.slot, s0)
         [] e.type # "NOMINATE" /\ level # "INVALID" /\ e.node \notin {x.node : x \in s0.exts}
              /\ s0.done ->
                SetSlot(st0, e.slot, [s0 EXCEPT !.exts = @ \cup {e}])
         [] OTHER -> IF st2.failed = "" /\ s2.fully /\ e1 \notin s0.own THEN emitEnvelope(st2, e1)
                     ELSE st2

processSCPQueueUpToIndex(st, slotIndex) ==
    IF st.failed # "" \/ Poppable(st.pe, slotIndex) = {} THEN st
    ELSE processSCPQueueUpToIndex(
             receiveEnvelope([st EXCEPT !.pe = pop(@, slotIndex)], popped(st.pe, slotIndex)),
             slotIndex)

\* Until one of the slots externalizes.
processReadySlots(st, slots) ==
    IF slots = {} \/ trackingSCP(st) THEN st
    ELSE processReadySlots(processSCPQueueUpToIndex(st, Min(slots)), slots \ {Min(slots)})

processSCPQueue(st) ==
    LET next == nextConsensusLedgerIndex(st)
    IN IF trackingSCP(st)
       THEN processSCPQueueUpToIndex(
                IF next > MAX_SLOTS_TO_REMEMBER
                THEN [st EXCEPT !.pe = eraseBelow(@, next - MAX_SLOTS_TO_REMEMBER)] ELSE st, next)
       ELSE processReadySlots(st, readySlots(st.pe))

herderOutOfSync_QueueWaits(st) == lostSync([st EXCEPT !.tracked = FALSE])
herderOutOfSync(st) == processSCPQueue(lostSync([st EXCEPT !.tracked = FALSE]))
-----------------------------------------------------------------------------
(* HerderImpl: envelopes and items arrive *)

recvSCPEnvelope(st, e) ==
    LET current == getCurrentLedgerSeq(st)
        minLedgerSeq == IF current > MAX_SLOTS_TO_REMEMBER THEN current - MAX_SLOTS_TO_REMEMBER
                        ELSE current
        late == trackingSCP(st) /\ e.slot > nextConsensusLedgerIndex(st) + LEDGER_VALIDITY_BRACKET
        res == recvEnvelope(st.pe, e)
        st1 == [st EXCEPT !.pe = res.pe]
    IN CASE late \/ e.slot < minLedgerSeq \/ e.node = Me -> st
         [] OTHER -> IF res.status = "READY" THEN processSCPQueue(st1) ELSE st1

\* ItemFetcher::recv: every waiting envelope is looked at again.
itemRecv(st, item) ==
    LET t == st.pe.trackers[item]
    IN CASE item \notin DOMAIN st.pe.trackers -> st
         [] item \in DOMAIN st.pe.trackers /\ t.waiting = <<>> ->
                [st EXCEPT !.pe.trackers[item] = trackerCancel(t)]
         [] OTHER -> itemRecv(recvSCPEnvelope([st EXCEPT !.pe.trackers[item].waiting = Front(@)],
                                              Last(t.waiting)), item)

addTxSet(st, txSet, slot) ==
    itemRecv([st EXCEPT !.pe.txSets = Put(@, txSet, slot)], <<"tx", txSet>>)

recvTxSet(st, txSet) ==
    LET lastSeen == getLastSeenSlotIndex(st.pe, <<"tx", txSet>>)
    IN IF lastSeen = 0 THEN st ELSE addTxSet(st, txSet, lastSeen)

addSCPQuorumSet(st, qSet) == itemRecv([st EXCEPT !.pe.qSets = @ \cup {qSet}], <<"q", qSet>>)

recvSCPQuorumSet(st, qSet) ==
    CASE getLastSeenSlotIndex(st.pe, <<"q", qSet>>) = 0 -> st
      [] getLastSeenSlotIndex(st.pe, <<"q", qSet>>) # 0 /\ Sane(qSet) -> addSCPQuorumSet(st, qSet)
      [] OTHER -> [st EXCEPT !.pe = discardSCPEnvelopesWithQSet(@, qSet)]
-----------------------------------------------------------------------------
(* HerderImpl: taking part *)

\* Slot::nominate: a leader of the round adds its value to its votes.
scpNominate(st, slot, v, leader) ==
    LET s     == [Slot(st, slot) EXCEPT !.nominating = TRUE, !.proposal = v]
        votes == UNION {e.values : e \in {x \in s.own : x.type = "NOMINATE"}}
        e     == Own(slot, "NOMINATE", votes \cup {v})
        news  == leader /\ v \notin votes
        st1   == setupTimer(SetSlot(st, slot, IF news THEN SetOwn(s, e) ELSE s), slot, "NOMINATION")
    IN IF news /\ s.fully THEN emitEnvelope(st1, e) ELSE st1

\* HerderSCPDriver::nominate
nominate(st, slot, v, leader) ==
    scpNominate([st EXCEPT !.current = TRUE, !.nominating = slot], slot, v, leader)

triggerNextLedger(st0, ledgerSeqToTrigger, leader) ==
    LET lcl      == st0.lm.lcl
        pending  == UNION Range(st0.pending)
        proposed == [prev |-> lcl.hash, txs |-> pending \ st0.lm.store]
        slot     == lcl.seq + 1
        st1      == addTxSet(removeReceivedTxs(st0, pending \cap st0.lm.store), proposed, slot)
        v        == [txSet     |-> proposed,
                     closeTime |-> Max({TimeNow, st1.lm.lcl.closeTime + 1}),
                     upgrades  |-> st1.armed]
    IN CASE ~trackingSCP(st0) \/ ~LM!isSynced(st0.lm) -> st0
         [] trackingSCP(st0) /\ LM!isSynced(st0.lm) /\ (st1.failed # "" \/ ledgerSeqToTrigger # slot) -> st1
         [] OTHER -> nominate(st1, slot, v, leader)

\* The transaction set with the most transactions; which of several is a
\* matter of their hashes.
bestTxSets(st, candidates) ==
    LET known == {h \in {v.txSet : v \in candidates} : h \in DOMAIN st.pe.txSets /\ h.prev = st.lm.lcl.hash}
    IN {h \in known : \A k \in known : Cardinality(k.txs) <= Cardinality(h.txs)}

\* HerderSCPDriver::combineCandidates, with the best set it settles on: the
\* composite becomes this node's first ballot, unless it has one.  Trimming is
\* there "just to be sure": a set that lost transactions would be posted to
\* recvTxSet, which ignores what nobody asked for.
combineCandidates(st, slot, candidates, best) ==
    LET v  == [txSet     |-> best,
               closeTime |-> Max({c.closeTime : c \in candidates}),
               upgrades  |-> UNION {c.upgrades : c \in candidates}]
        level == validateValue(st, slot, v, FALSE)
        e  == Own(slot, "PREPARE", {v})
        s  == Slot(st, slot)
        s1 == SetOwn([s EXCEPT !.fully = @ /\ level = "FULL"], e)
        started == \E x \in s.own : Kind(x.type) = "ballot"
    IN CASE best.txs \cap st.lm.store # {} -> Failing(st, "a candidate was trimmed")
         [] best.txs \cap st.lm.store = {} /\ started -> st
         [] best.txs \cap st.lm.store = {} /\ ~started /\ level = "INVALID" ->
                Failing(st, "moved to a bad state (ballot protocol)")
         [] OTHER -> IF s1.fully THEN emitEnvelope(SetSlot(st, slot, s1), e) ELSE SetSlot(st, slot, s1)

\* HerderSCPDriver::timerCallbackWrapper.  The nomination timer starts the
\* next round, the ballot timer the next ballot.
timerCallbackWrapper_DropsOthers(st0, t, leader) ==
    LET st == [st0 EXCEPT !.timers = @ \ {t}]
        s  == Slot(st, t[1])
    IN CASE trackingSCP(st) /\ nextConsensusLedgerIndex(st) # t[1] -> st
         [] (~trackingSCP(st) \/ nextConsensusLedgerIndex(st) = t[1]) /\ t[2] = "NOMINATION"
              /\ s.nominating ->
                [scpNominate(st, t[1], s.proposal, leader) EXCEPT !.ran = {t}]
         [] OTHER -> [st EXCEPT !.ran = {t}]
timerCallbackWrapper(st0, t, leader) ==
    LET st == [st0 EXCEPT !.timers = @ \ {t}]
        s  == Slot(st, t[1])
    IN CASE trackingSCP(st) /\ nextConsensusLedgerIndex(st) # t[1] -> setupTimer(st, t[1], t[2])
         [] (~trackingSCP(st) \/ nextConsensusLedgerIndex(st) = t[1]) /\ t[2] = "NOMINATION"
              /\ s.nominating ->
                [scpNominate(st, t[1], s.proposal, leader) EXCEPT !.ran = {t}]
         [] OTHER -> [st EXCEPT !.ran = {t}]
-----------------------------------------------------------------------------
(* Starting *)

restoreSCPState(st0) ==
    LET lcl  == st0.lm.lcl
        scp  == st0.db.scp
        slots == {e.slot : e \in scp.envs}
        pe   == [st0.pe EXCEPT !.txSets = [h \in scp.txSets |-> 0], !.qSets = @ \cup scp.qSets]
    IN trackingHeartBeat(
         [st0 EXCEPT !.tracking = [index |-> lcl.seq, closeTime |-> lcl.closeTime],
                     !.pe = pe,
                     !.scp = [s \in slots |->
                               [NewSlot EXCEPT !.own = {e \in scp.envs : e.slot = s},
                                               !.done = \E e \in scp.envs : e.type = "EXTERNALIZE"]],
                     !.lastSaved = IF slots = {} THEN 0 ELSE Max(slots),
                     !.rebroadcast = slots # {}])

restoreUpgrades(st) == setUpgrades(st, st.db.upgrades)

\* HerderImpl::bootstrap
forceSCP(st) == ledgerClosed([st EXCEPT !.lm = LM!bootstrap(@)])

\* ApplicationImpl::start on what is on disk; force is the FORCE_SCP flag.
start(db, force) ==
    LET fresh == [pe |-> PendingInit({MyQSet}), lm |-> LM!LedgerManagerInit(db.lcl, db.applied),
                  tracking |-> NONE, lastTracking |-> NONE, scp |-> <<>>, timers |-> {},
                  trigger |-> 0, tracked |-> FALSE, rebroadcast |-> FALSE, current |-> FALSE,
                  nominating |-> 0, lastSaved |-> 0, pending |-> <<{}, {}, {}, {}>>,
                  armed |-> {}, db |-> db, sent |-> {}, trail |-> {}, ran |-> {}, starts |-> 1, failed |-> ""]
        restored == restoreUpgrades(restoreSCPState(fresh))
    IN IF force THEN forceSCP(restored) ELSE restored
-----------------------------------------------------------------------------
(* The node among its peers *)

CONSTANTS
    Has(_, _),                   \* does a peer have an item?
    HandleEnvelope(_, _),        \* recvSCPEnvelope
    HandleItem(_, _),            \* RecvItem
    HandleTrigger(_, _, _),      \* triggerNextLedger
    HandleOutOfSync(_)           \* herderOutOfSync

VARIABLES
    st,
    requests,                    \* <<peer, item>>: GET_TX_SET, GET_SCP_QUORUMSET on their way
    conn                         \* getRandomAuthenticatedPeers

vars == <<st, requests, conn>>

\* A handler starts with the peers in some order, and ends with its requests
\* on the wire.
Handling(order) == [st EXCEPT !.trail = {}, !.ran = {}, !.pe.order = order]
Orders == SetToSeqs(conn)

Ended(s) == [s EXCEPT !.pe.order = <<>>, !.pe.asks = {}, !.pe.ready = {}]
Handled(s, others) ==
    /\ st' = Ended(s)
    /\ requests' = others \cup s.pe.asks
    /\ UNCHANGED conn

Alive == st.failed = ""

\* Peer::recvSCPMessage: the sender is remembered once the envelope was handled.
RecvSCPMessage(e) ==
    /\ Alive /\ e.node \in conn
    /\ \E order \in Orders :
         Handled([HandleEnvelope(Handling(order), e) EXCEPT !.pe.knows = @ \cup {<<e.node, e>>}],
                 requests)

RecvItem(s, item) == IF item[1] = "tx" THEN recvTxSet(s, item[2]) ELSE recvSCPQuorumSet(s, item[2])

\* The peer sends the item, or DONT_HAVE.
Answer(r) ==
    /\ r \in requests /\ Alive
    /\ \E order \in Orders :
         Handled(IF Has(r[1], r[2]) THEN HandleItem(Handling(order), r[2])
                 ELSE [Handling(order) EXCEPT !.pe = doesntHave(@, r[2], r[1])],
                 requests \ {r})

LoseRequest(r) == r \in requests /\ Alive /\ requests' = requests \ {r} /\ UNCHANGED <<st, conn>>

TrackerTimer(item) ==
    /\ item \in DOMAIN st.pe.trackers /\ Alive
    /\ st.pe.trackers[item].timer
    /\ \E order \in Orders : Handled([Handling(order) EXCEPT !.pe = tryNextPeer(@, item)], requests)

StopFetchingBelow ==
    /\ Alive /\ st.pe.posted # <<>>
    /\ Handled([Handling(<<>>) EXCEPT !.pe = stopFetchingBelowInternal(@)], requests)

TriggerTimer(leader) ==
    /\ Alive /\ st.trigger # 0
    /\ \E order \in Orders :
         Handled(HandleTrigger([Handling(order) EXCEPT !.trigger = 0], st.trigger, leader), requests)

TrackingTimer ==
    /\ Alive /\ st.tracked
    /\ \E order \in Orders : Handled(HandleOutOfSync(Handling(order)), requests)

RebroadcastTimer ==
    /\ Alive /\ st.rebroadcast
    /\ Handled(rebroadcast(Handling(<<>>)), requests)

SCPTimer(t, leader) ==
    /\ Alive /\ t \in st.timers
    /\ Handled(timerCallbackWrapper(Handling(<<>>), t, leader), requests)

\* BallotProtocol::checkHeardFromQuorum starts the timer of the ballot.
HeardFromQuorum(slot) ==
    /\ Alive /\ slot \in DOMAIN st.scp /\ ~st.scp[slot].done
    /\ \E e \in st.scp[slot].own : Kind(e.type) = "ballot"
    /\ Handled(setupTimer(Handling(<<>>), slot, "BALLOT"), requests)

\* Nomination confirms candidates among the values nominated that are valid.
Candidates(slot, candidates) ==
    LET nominated == UNION {e.values : e \in st.scp[slot].noms \cup
                                             {x \in st.scp[slot].own : x.type = "NOMINATE"}}
    IN /\ Alive /\ slot \in DOMAIN st.scp /\ st.scp[slot].nominating /\ ~st.scp[slot].done
       /\ candidates \subseteq nominated
       /\ \A v \in candidates : validateValue(st, slot, v, TRUE) = "FULL"
       /\ IF bestTxSets(st, candidates) = {}
          THEN Handled(Failing(Handling(<<>>), "no transaction set to combine"), requests)
          ELSE \E best \in bestTxSets(st, candidates) :
                 Handled(combineCandidates(Handling(<<>>), slot, candidates, best), requests)

RecvTransaction(tx) == Alive /\ Handled(recvTransaction(Handling(<<>>), tx), requests)

SetUpgrades(upgrades) == Alive /\ Handled(setUpgrades(Handling(<<>>), upgrades), requests)

\* The CatchupWork ends, and then closes what was buffered.
HistoryCaughtUp ==
    LET target == NetworkHeader(st.lm.work.to)
        applied == LM!historyCaughtup(st.lm, "APPLIED_BUCKETS", target)
    IN /\ Alive /\ st.lm.work # LM!NoWork
       /\ Handled(commitLedger([Handling(<<>>) EXCEPT
                                  !.lm = LM!historyCaughtup(applied, "FINISHED", target)]), requests)

HistoryFailed ==
    /\ Alive /\ st.lm.work # LM!NoWork
    /\ Handled([Handling(<<>>) EXCEPT !.lm = LM!historyFailed(@)], requests)

ApplyBufferedLedger ==
    LET lm == LM!applyBufferedLedger(st.lm)
    IN /\ Alive /\ st.lm.applying
       /\ Handled(commitLedger([Handling(<<>>) EXCEPT !.lm = lm, !.failed = lm.failed]), requests)

Disconnect(p) ==
    /\ p \in conn /\ conn' = conn \ {p}
    /\ requests' = {r \in requests : r[1] # p} /\ UNCHANGED st

Reconnect(p) == p \notin conn /\ conn' = conn \cup {p} /\ UNCHANGED <<st, requests>>

\* The process ends in the middle of the last handler, or after it, and starts
\* on what was on disk then; the others remember what it sent.
Images == st.trail \cup {[db |-> st.db, sent |-> st.sent]}

CrashAndRestart(force) ==
    \E image \in Images :
        /\ st' = [start(image.db, force) EXCEPT !.sent = @ \cup image.sent, !.starts = st.starts + 1]
        /\ requests' = {} /\ UNCHANGED conn
-----------------------------------------------------------------------------
(* Properties *)

\* No assertion fails and nothing is thrown, in particular: the transaction set
\* of a value that externalizes is still in the cache when the ledger manager
\* needs it (HerderImpl::valueExternalized dereferences it), the ledger manager
\* gets ledgers it can place, and a composite value is one the node accepts.
NoFailure == Alive

\* When a handler ends no envelope that SCP may have is left in the queue:
\* while the node tracks consensus none up to the next slot, and none at all
\* while it does not (HerderImpl::processSCPQueue).
QueueIsDrained ==
    Alive => IF trackingSCP(st) THEN Poppable(st.pe, nextConsensusLedgerIndex(st)) = {}
             ELSE readySlots(st.pe) = {}

Rank(type) == CASE type = "NOMINATE" -> 0 [] type = "PREPARE" -> 1
                [] type = "CONFIRM" -> 2 [] type = "EXTERNALIZE" -> 3

\* Whenever the process dies, within any handler, what it told others about a
\* slot it has not closed is on disk, or something of its own that supersedes
\* it, with the transaction sets and the quorum set to go on from there; and a
\* slot it stored as externalized is a ledger it stored as closed, because SCP
\* will not externalize that slot a second time (HerderImpl::emitEnvelope).
SentIsPersisted ==
    \A image \in Images :
        LET db == image.db
        IN /\ \A e \in image.sent :
                e.slot > db.lcl.seq =>
                    \E x \in db.scp.envs : /\ x.slot = e.slot /\ Kind(x.type) = Kind(e.type)
                                           /\ Rank(x.type) >= Rank(e.type)
                                           /\ e.type = "NOMINATE" => e.values \subseteq x.values
           /\ \A x \in db.scp.envs :
                /\ x.slot > db.lcl.seq => getTxSetHashes(x) \subseteq db.scp.txSets
                /\ x.qSet \in db.scp.qSets
                /\ x.type = "EXTERNALIZE" => x.slot <= db.lcl.seq

\* The current ledger never goes back, however consensus is lost and found
\* again: an older slot that externalizes late is ignored
\* (HerderImpl::getCurrentLedgerSeq, HerderSCPDriver::valueExternalized).
CurrentLedgerAdvances ==
    [][st'.starts = st.starts => getCurrentLedgerSeq(st') >= getCurrentLedgerSeq(st)]_st

\* A timer that SCP armed for a slot is lost only when the slot is over:
\* otherwise it runs SCP's callback before it is gone, even if it fires while
\* the node is at another slot (HerderSCPDriver::timerCallbackWrapper).
TimersRunOrExpire ==
    [][st'.starts = st.starts =>
         \A t \in st.timers : \/ t \in st'.timers \/ t \in st'.ran
                             \/ t[1] <= getCurrentLedgerSeq(st')]_st
====
