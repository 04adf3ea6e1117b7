------------------------------ MODULE MCHerder ------------------------------
(***************************************************************************)
(* A node with two peers.  The network closes the ledgers of Slots; a peer *)
(* sends what it externalized, and values it nominates.  A scenario has    *)
(* the envelopes that are sent and the steps that are taken:               *)
(*   "fetch"     items are slow to come, requests are lost, a peer leaves; *)
(*   "bad"       the same, and one envelope names a quorum set that is not *)
(*               sane;                                                     *)
(*   "track"     the slots externalize in any order, consensus is lost and *)
(*               found again, history is caught up;                        *)
(*   "vote"      the node, which forces SCP, takes part and crashes;       *)
(*               upgrades are set before the first slot is under way;      *)
(*   "restart"   the node closes two ledgers, with its timers and what it  *)
(*               broadcasts again, and crashes.                            *)
(* Where items are not the question they arrive at once.                   *)
(***************************************************************************)
EXTENDS Herder

CONSTANTS Scenarios, LastSlot, MaxLost, MaxCrashes, MaxLostSync

VARIABLES scenario, lost, crashes, lostSyncs

mcvars == <<vars, scenario, lost, crashes, lostSyncs>>

MCPeers == {"p1", "p2"}
Slots == 2..LastSlot

\* The transactions of each ledger of the network, and a set that loses.
Txs(slot) == IF slot = 3 THEN {"t1"} ELSE {}
TxSet(slot) == [prev |-> slot - 1, txs |-> Txs(slot)]
NetworkValue(slot) == [txSet |-> TxSet(slot), closeTime |-> slot, upgrades |-> {}]
OtherValue(slot) == [txSet |-> [prev |-> slot - 1, txs |-> {"t2"}], closeTime |-> slot, upgrades |-> {"u"}]

MCLedgerHash(prev, v) == IF prev >= 1 /\ v = NetworkValue(prev + 1) THEN prev + 1 ELSE -1
MCNetworkHeader(seq) == [seq |-> seq, hash |-> seq, closeTime |-> seq]
MCAppliedUpTo(seq) == UNION {Txs(s) : s \in 2..seq}
MCSane(q) == q # "bad"

\* p2 does not have the transaction sets of odd ledgers.
MCHas(p, item) == p = "p1" \/ item[1] = "q" \/ item[2].prev % 2 = 1

Env(p, slot, type, values, q) == [node |-> p, slot |-> slot, type |-> type, values |-> values, qSet |-> q]
Externalize(p, slot) == Env(p, slot, "EXTERNALIZE", {NetworkValue(slot)}, "q1")
Nominate(p, slot) == Env(p, slot, "NOMINATE", {OtherValue(slot)}, "q1")
BadEnvelope == Env("p2", 3, "EXTERNALIZE", {OtherValue(3)}, "bad")

Envelopes ==
    CASE scenario = "fetch"   -> {Externalize("p1", 2), Externalize("p2", 2), Externalize("p1", 3)}
      [] scenario = "bad"     -> {Externalize("p1", 3), BadEnvelope}
      [] scenario = "track"   -> {Externalize(p, s) : p \in MCPeers, s \in Slots}
      [] scenario = "vote"    -> {Externalize(p, 2) : p \in MCPeers} \cup {Nominate("p1", 2)}
      [] scenario = "restart" -> {Externalize(p, s) : p \in MCPeers, s \in 2..3}

Steps ==
    CASE scenario \in {"fetch", "bad"} -> {"Lose", "Tracker"}
      [] scenario = "track"   -> {"LostSync", "History", "Timers", "Ballot"}
      [] scenario = "vote"    -> {"Trigger", "Candidates", "Transactions", "Crash"}
      [] scenario = "restart" -> {"Trigger", "Timers", "Crash", "Rebroadcast"}

Genesis == [lcl |-> MCNetworkHeader(1), applied |-> {}, scp |-> NoSCPState, upgrades |-> {}]

MCInit ==
    /\ scenario \in Scenarios
    /\ st = start(Genesis, scenario \in {"vote", "restart"})
    /\ requests = {} /\ conn = MCPeers
    /\ lost = 0 /\ crashes = 0 /\ lostSyncs = 0

Prompt == scenario \notin {"fetch", "bad"} /\ (requests # {} \/ st.pe.posted # <<>>)
Takes(step) == step \in Steps /\ ~Prompt /\ UNCHANGED <<scenario, lost, crashes, lostSyncs>>
Same == UNCHANGED <<scenario, lost, crashes, lostSyncs>>

\* A peer sends an envelope once.  Where items arrive at once the peers differ
\* only in their names.
Arriving(e) ==
    /\ ~Prompt /\ <<e.node, e>> \notin st.pe.knows
    /\ scenario \in {"track", "vote", "restart"} /\ e.node = "p2" =>
         <<"p1", Externalize("p1", e.slot)>> \in st.pe.knows

AllRequests == MCPeers \X ({<<"q", "q1">>, <<"q", "bad">>, <<"tx", OtherValue(3).txSet>>} \cup
                           {<<"tx", TxSet(s)>> : s \in 2..3})

MCNext ==
    \/ \E e \in Envelopes : Arriving(e) /\ Same /\ RecvSCPMessage(e)
    \/ \E r \in requests : Same /\ Answer(r)
    \/ Same /\ StopFetchingBelow
    \/ \E r \in requests : /\ "Lose" \in Steps /\ lost < MaxLost /\ lost' = lost + 1
                           /\ LoseRequest(r) /\ UNCHANGED <<scenario, crashes, lostSyncs>>
    \/ \E item \in DOMAIN st.pe.trackers :
         /\ "Tracker" \in Steps /\ UNCHANGED <<scenario, crashes, lostSyncs>>
         /\ IF \E p \in MCPeers : <<p, item>> \in requests
            THEN lost < MaxLost /\ lost' = lost + 1 ELSE lost' = lost
         /\ TrackerTimer(item)
    \/ /\ "Lose" \in Steps /\ lost < MaxLost /\ lost' = lost + 1
       /\ Disconnect("p2") /\ UNCHANGED <<scenario, crashes, lostSyncs>>
    \/ Takes("Lose") /\ Reconnect("p2")
    \/ /\ "LostSync" \in Steps /\ ~Prompt /\ lostSyncs < MaxLostSync /\ lostSyncs' = lostSyncs + 1
       /\ TrackingTimer /\ UNCHANGED <<scenario, lost, crashes>>
    \/ Takes("History") /\ HistoryCaughtUp
    \/ Takes("History") /\ HistoryFailed
    \/ Takes("History") /\ ApplyBufferedLedger
    \/ \E t \in st.timers, leader \in BOOLEAN : Takes("Timers") /\ SCPTimer(t, leader)
    \/ \E slot \in DOMAIN st.scp : Takes("Ballot") /\ slot = 4 /\ HeardFromQuorum(slot)
    \/ \E leader \in BOOLEAN : Takes("Trigger") /\ TriggerTimer(leader)
    \/ \E slot \in DOMAIN st.scp :
         \E candidates \in SUBSET {NetworkValue(slot), OtherValue(slot), st.scp[slot].proposal} \ {{}} :
            Takes("Candidates") /\ Candidates(slot, candidates)
    \/ Takes("Transactions") /\ crashes = 0 /\ RecvTransaction("t1")
    \/ Takes("Transactions") /\ crashes = 0 /\ DOMAIN st.scp = {} /\ SetUpgrades({"u"})
    \/ Takes("Rebroadcast") /\ RebroadcastTimer
    \/ /\ "Crash" \in Steps /\ crashes < MaxCrashes /\ crashes' = crashes + 1
       /\ CrashAndRestart(scenario = "vote")
       /\ UNCHANGED <<scenario, lost, lostSyncs>>

\* A request does not stay on its way for ever, and an armed timer of a tracker
\* goes off.
Fetching == scenario \in {"fetch", "bad"}
Arrives(r) == Fetching /\ r \in requests /\ requests' = requests \ {r}
GoesOff(item) ==
    /\ Fetching /\ item \in DOMAIN st.pe.trackers /\ st.pe.trackers[item].timer
    /\ \E order \in Orders : st' = Ended([Handling(order) EXCEPT !.pe = tryNextPeer(@, item)])

MCSpec ==
    /\ MCInit /\ [][MCNext]_mcvars
    /\ \A r \in AllRequests : WF_requests(Arrives(r))
    /\ \A item \in {r[2] : r \in AllRequests} : WF_st(GoesOff(item))

\* An envelope whose items a peer has does not wait for them for ever: it gets
\* ready or its slot is forgotten, although requests are lost, peers do not have
\* the item or leave, and answers come late (Tracker::tryNextPeer).
EnvelopesAreProcessed ==
    \A e \in {Externalize("p1", 2), Externalize("p2", 2), Externalize("p1", 3), BadEnvelope} :
        (Fetching /\ e \in At(st.pe, e.slot).fetching) ~> (e \notin At(st.pe, e.slot).fetching)
====
