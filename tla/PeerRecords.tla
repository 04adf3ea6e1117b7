---------------------------- MODULE PeerRecords ----------------------------
(***************************************************************************)
(* The peer database (overlay/PeerManager.cpp) and the random sources the   *)
(* overlay draws addresses from (overlay/RandomPeerSource.cpp).  db maps an *)
(* address to its row [type, failures, due]: type is mType, failures is     *)
(* mNumFailures and due says that mNextAttempt is not in the future.  The   *)
(* length of a back-off is random in the code; here it ends at any later    *)
(* time (BackOffOver in module Overlay).  A shuffle is an order of the      *)
(* addresses chosen by the caller.                                          *)
(***************************************************************************)
EXTENDS Integers, Sequences, FiniteSets, SequencesExt

CONSTANTS
  Addresses,                       \* addresses of peers, running or not
  Private,                         \* the ones PeerBareAddress::isPrivate holds for
  MAX_FAILURES,                    \* 10 in PeerManager.cpp
  REALLY_DEAD_NUM_FAILURES_CUTOFF, \* 120 in RandomPeerSource.cpp
  FailureBound                     \* failures are not counted past this bound

NewPeerRecord == [type |-> "INBOUND", failures |-> 0, due |-> TRUE]

load(db, a) == IF a \in DOMAIN db THEN db[a] ELSE NewPeerRecord

store(db, a, record) == [x \in DOMAIN db \cup {a} |-> IF x = a THEN record ELSE db[x]]

updateType(record, update) ==
  [record EXCEPT !.type =
    CASE update = "SET_OUTBOUND" -> "OUTBOUND"
      [] update = "SET_PREFERRED" -> "PREFERRED"
      [] update = "REMOVE_PREFERRED" -> IF @ = "PREFERRED" THEN "OUTBOUND" ELSE @
      [] update = "UPDATE_TO_OUTBOUND" -> IF @ = "INBOUND" THEN "OUTBOUND" ELSE @]

updateBackOff(record, backOff) ==
  CASE backOff = "HARD_RESET" -> [record EXCEPT !.failures = 0, !.due = TRUE]
    [] backOff = "RESET" -> [record EXCEPT !.failures = 0, !.due = FALSE]
    [] backOff = "INCREASE" ->
         [record EXCEPT !.failures = IF @ < FailureBound THEN @ + 1 ELSE @, !.due = FALSE]

ensureExists(db, a) == IF a \in DOMAIN db THEN db ELSE store(db, a, NewPeerRecord)

UpdateType(db, a, update) == store(db, a, updateType(load(db, a), update))

UpdateBackOff(db, a, backOff) == store(db, a, updateBackOff(load(db, a), backOff))

UpdateBoth(db, a, update, backOff) ==
  store(db, a, updateBackOff(updateType(load(db, a), update), backOff))

(* The two kinds of PeerQuery. *)
maxFailures(requireOutbound) ==
  [useNextAttempt |-> FALSE, maxNumFailures |-> MAX_FAILURES,
   types |-> IF requireOutbound THEN {"OUTBOUND", "PREFERRED"} ELSE {"INBOUND"}]

nextAttemptCutoff(type) ==
  [useNextAttempt |-> TRUE, maxNumFailures |-> REALLY_DEAD_NUM_FAILURES_CUTOFF, types |-> {type}]

Matches(record, query) ==
  /\ query.useNextAttempt => record.due
  /\ record.failures <= query.maxNumFailures
  /\ record.type \in query.types

(* The batch is never smaller than the table here (BATCH_SIZE is 1000). *)
loadRandomPeers(db, query, order) ==
  SelectSeq(order, LAMBDA a : a \in DOMAIN db /\ Matches(db[a], query))

(* Draws at most size addresses of keep from the cache, reloading the cache *)
(* when it is too short; what was looked at is dropped from the cache.      *)
getRandomPeers(db, cache, query, size, keep, order) ==
  LET source == IF Len(cache) < size THEN loadRandomPeers(db, query, order) ELSE cache
      kept(i) == SelectSeq(SubSeq(source, 1, i), LAMBDA a : a \in keep)
      seen == CHOOSE i \in 0 .. Len(source) :
                /\ i = Len(source) \/ Len(kept(i)) = size
                /\ \A j \in 0 .. i - 1 : Len(kept(j)) < size
  IN IF size = 0
     THEN [result |-> <<>>, cache |-> cache]
     ELSE [result |-> kept(seen), cache |-> SubSeq(source, seen + 1, Len(source))]

(* At most 50 are sent, more than there are here: every match is sent. *)
getPeersToSend(db, address) ==
  {a \in DOMAIN db \ (Private \cup {address}) :
     Matches(db[a], maxFailures(TRUE)) \/ Matches(db[a], maxFailures(FALSE))}
=============================================================================
