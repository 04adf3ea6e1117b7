-------------------------- MODULE PendingEnvelopes --------------------------
(***************************************************************************)
(* PendingEnvelopes with its two ItemFetchers and their Trackers: an       *)
(* envelope of a peer waits until the quorum set and the transaction sets  *)
(* it names were fetched, and is then ready for SCP.                       *)
(*                                                                         *)
(* The operators work on a record pe:                                      *)
(*   envelopes   slot -> [discarded, fetching, processed, ready]           *)
(*   txSets      mTxSetCache: transaction set -> last slot it was seen in  *)
(*   qSets       mQsetCache: the quorum sets known                         *)
(*   trackers    <<kind, hash>> -> tracker, kind "tx" or "q": the trackers *)
(*               of both fetchers                                          *)
(*   posted      the slots of the posted stopFetchingBelow calls           *)
(*   asks        the <<peer, item>> requests this step sends               *)
(*   ready       the envelopes this step floods                            *)
(*   order       how getRandomAuthenticatedPeers returns the peers         *)
(*   knows       Floodgate's record: <<peer, envelope>>                    *)
(* A tracker is [waiting, lastSeen, asked, toAsk, timer].                  *)
(***************************************************************************)
EXTENDS Integers, Sequences, FiniteSets, SequencesExt, FiniteSetsExt, Functions

CONSTANTS
    MAX_SLOTS_TO_REMEMBER,
    NoPeer,                    \* mLastAskedPeer is null
    Sane(_)                    \* isQuorumSetSane of a quorum set

\* HerderUtils' getTxSetHashes and Slot::getCompanionQuorumSetHashFromStatement
getTxSetHashes(e) == {v.txSet : v \in e.values}
Items(e) == {<<"q", e.qSet>>} \cup {<<"tx", h>> : h \in getTxSetHashes(e)}

NoEnvelopes == [discarded |-> {}, fetching |-> {}, processed |-> {}, ready |-> <<>>]

PendingInit(qSets) ==
    [envelopes |-> <<>>, txSets |-> <<>>, qSets |-> qSets, trackers |-> <<>>,
     posted |-> <<>>, asks |-> {}, ready |-> {}, order |-> <<>>, knows |-> {}]

Exists(pe, item) == IF item[1] = "q" THEN item[2] \in pe.qSets ELSE item[2] \in DOMAIN pe.txSets

\* mEnvelopes[slot], which std::map creates when it is not there.
At(pe, slot) == IF slot \in DOMAIN pe.envelopes THEN pe.envelopes[slot] ELSE NoEnvelopes

Put(f, k, v) == [x \in DOMAIN f \cup {k} |-> IF x = k THEN v ELSE f[x]]
SetAt(pe, slot, es) == [pe EXCEPT !.envelopes = Put(@, slot, es)]
SetTracker(pe, item, t) == [pe EXCEPT !.trackers = Put(@, item, t)]
-----------------------------------------------------------------------------
\* Tracker::tryNextPeer.  A new list of peers is only built when the last one
\* is used up and nobody is being asked; those known to have one of the
\* waiting envelopes are asked first, from the back of the list.
buildPeersToAsk(pe, t) ==
    LET has(p) == \E i \in DOMAIN t.waiting : <<p, t.waiting[i]>> \in pe.knows
    IN Reverse(SelectSeq(pe.order, LAMBDA p : ~has(p))) \o SelectSeq(pe.order, has)

tryNextPeer_GivesUp(pe, item) ==
    LET t     == pe.trackers[item]
        toAsk == IF t.toAsk = <<>> /\ t.asked = NoPeer THEN buildPeersToAsk(pe, t) ELSE t.toAsk
        usable == SelectSeq(toAsk, LAMBDA p : p \in Range(pe.order))
    IN IF usable = <<>>
       THEN SetTracker(pe, item, [t EXCEPT !.toAsk = <<>>, !.asked = NoPeer, !.timer = FALSE])
       ELSE [SetTracker(pe, item, [t EXCEPT !.toAsk = Front(usable), !.asked = Last(usable),
                                            !.timer = TRUE])
             EXCEPT !.asks = @ \cup {<<Last(usable), item>>}]
tryNextPeer(pe, item) ==
    LET t     == pe.trackers[item]
        toAsk == IF t.toAsk = <<>> /\ t.asked = NoPeer THEN buildPeersToAsk(pe, t) ELSE t.toAsk
        usable == SelectSeq(toAsk, LAMBDA p : p \in Range(pe.order))    \* isAuthenticated
    IN IF usable = <<>>
       THEN SetTracker(pe, item, [t EXCEPT !.toAsk = <<>>, !.asked = NoPeer, !.timer = TRUE])
       ELSE [SetTracker(pe, item, [t EXCEPT !.toAsk = Front(usable), !.asked = Last(usable),
                                            !.timer = TRUE])
             EXCEPT !.asks = @ \cup {<<Last(usable), item>>}]

trackerListen(t, e) ==
    [t EXCEPT !.waiting = Append(@, e), !.lastSeen = Max({@, e.slot})]

trackerCancel(t) == [t EXCEPT !.timer = FALSE, !.lastSeen = 0]

trackerDoesntHave(pe, item, peer) ==
    IF pe.trackers[item].asked = peer THEN tryNextPeer(pe, item) ELSE pe

\* Returns the tracker without the envelopes below the slot; one that nobody
\* waits for is erased by the caller.
clearEnvelopesBelow(t, slot) ==
    [t EXCEPT !.waiting = SelectSeq(@, LAMBDA e : e.slot >= slot)]

NewTracker == [waiting |-> <<>>, lastSeen |-> 0, asked |-> NoPeer, toAsk |-> <<>>, timer |-> FALSE]
-----------------------------------------------------------------------------
\* ItemFetcher
fetch(pe, item, e) ==
    IF item \in DOMAIN pe.trackers
    THEN SetTracker(pe, item, trackerListen(pe.trackers[item], e))
    ELSE tryNextPeer(SetTracker(pe, item, trackerListen(NewTracker, e)), item)

fetcherStopFetch(pe, item, e) ==
    LET t == [pe.trackers[item] EXCEPT !.waiting = SelectSeq(@, LAMBDA x : x # e)]
    IN IF item \notin DOMAIN pe.trackers THEN pe
       ELSE SetTracker(pe, item, IF t.waiting = <<>> THEN trackerCancel(t) ELSE t)

getLastSeenSlotIndex(pe, item) ==
    IF item \in DOMAIN pe.trackers THEN pe.trackers[item].lastSeen ELSE 0

fetchingFor(pe, item) ==
    IF item \in DOMAIN pe.trackers THEN pe.trackers[item].waiting ELSE <<>>

\* Posted on the main thread, for both fetchers.
stopFetchingBelow(pe, slot) == [pe EXCEPT !.posted = Append(@, slot)]

stopFetchingBelowInternal(pe) ==
    LET slot    == Head(pe.posted)
        cleared == [i \in DOMAIN pe.trackers |-> clearEnvelopesBelow(pe.trackers[i], slot)]
        wanted  == {i \in DOMAIN cleared : cleared[i].waiting # <<>>}
    IN [pe EXCEPT !.posted = Tail(@), !.trackers = Restrict(cleared, wanted)]

doesntHave(pe, item, peer) ==
    IF item \in DOMAIN pe.trackers THEN trackerDoesntHave(pe, item, peer) ELSE pe
-----------------------------------------------------------------------------
isDiscarded(pe, e) == e \in At(pe, e.slot).discarded

isFullyFetched_QuorumSetOnly(pe, e) == Exists(pe, <<"q", e.qSet>>)
isFullyFetched(pe, e) == \A item \in Items(e) : Exists(pe, item)

startFetch(pe, e) ==
    LET missing == {item \in Items(e) : ~Exists(pe, item)}
    IN FoldLeft(LAMBDA acc, item : fetch(acc, item, e), pe, SetToSeq(missing))

stopFetch(pe, e) ==
    FoldLeft(LAMBDA acc, item : fetcherStopFetch(acc, item, e), pe, SetToSeq(Items(e)))

\* A transaction set named again is kept for the later slot.
touchFetchCache(pe, e) ==
    [pe EXCEPT !.txSets = [h \in DOMAIN @ |-> IF h \in getTxSetHashes(e) THEN Max({@[h], e.slot})
                                              ELSE @[h]]]

\* The envelope is flooded and queued for SCP.
envelopeReady(pe, e) ==
    [SetAt(pe, e.slot, [At(pe, e.slot) EXCEPT !.ready = Append(@, e)]) EXCEPT !.ready = @ \cup {e}]

discardSCPEnvelope(pe, e) ==
    IF isDiscarded(pe, e) THEN pe
    ELSE stopFetch(SetAt(pe, e.slot, [At(pe, e.slot) EXCEPT !.discarded = @ \cup {e},
                                                           !.fetching = @ \ {e}]), e)

discardSCPEnvelopesWithQSet(pe, qSet) ==
    FoldLeft(LAMBDA acc, e : discardSCPEnvelope(acc, e), pe, fetchingFor(pe, <<"q", qSet>>))

\* The status and the state after an envelope arrived, or one of its items.
recvEnvelope(pe0, e) ==
    LET pe      == touchFetchCache(pe0, e)
        es      == At(pe, e.slot)
        started == IF e \in es.fetching THEN SetAt(pe, e.slot, es)
                   ELSE startFetch(SetAt(pe, e.slot, [es EXCEPT !.fetching = @ \cup {e}]), e)
    IN CASE isDiscarded(pe0, e) -> [status |-> "DISCARDED", pe |-> pe0]
         [] ~isDiscarded(pe0, e) /\ e \notin es.fetching /\ e \in es.processed ->
                [status |-> "PROCESSED", pe |-> pe]
         [] OTHER ->
                IF isFullyFetched(started, e)
                THEN [status |-> "READY",
                      pe |-> envelopeReady(SetAt(started, e.slot,
                                 [At(started, e.slot) EXCEPT !.fetching = @ \ {e},
                                                             !.processed = @ \cup {e}]), e)]
                ELSE [status |-> "FETCHING", pe |-> started]
-----------------------------------------------------------------------------
readySlots(pe) == {s \in DOMAIN pe.envelopes : pe.envelopes[s].ready # <<>>}

\* pop takes the newest ready envelope of the lowest slot up to slotIndex.
Poppable(pe, slotIndex) == {s \in readySlots(pe) : s <= slotIndex}
popped(pe, slotIndex) == Last(pe.envelopes[Min(Poppable(pe, slotIndex))].ready)
pop(pe, slotIndex) == [pe EXCEPT !.envelopes[Min(Poppable(pe, slotIndex))].ready = Front(@)]

\* A transaction set of slot 0 was loaded from the database.
eraseBelow(pe, slot) ==
    [pe EXCEPT !.envelopes = Restrict(@, {s \in DOMAIN @ : s >= slot}),
               !.txSets = Restrict(@, {h \in DOMAIN @ : @[h] = 0 \/ @[h] >= slot})]

slotClosed(pe, slotIndex) ==
    LET slot == slotIndex - MAX_SLOTS_TO_REMEMBER
    IN IF slotIndex <= MAX_SLOTS_TO_REMEMBER THEN pe
       ELSE stopFetchingBelow(
                [pe EXCEPT !.envelopes = Restrict(@, DOMAIN @ \ {slot}),
                           !.txSets = Restrict(@, {h \in DOMAIN @ : @[h] # slot})], slot + 1)
=============================================================================
