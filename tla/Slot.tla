-------------------------------- MODULE Slot --------------------------------
(***************************************************************************)
(* A slot of SCP: the nomination protocol and the ballot protocol of every *)
(* node, joined where the code joins them (src/scp/Slot.cpp).  Nomination  *)
(* hands its composite candidate to bumpState, the ballot protocol stops   *)
(* nomination when it externalizes, and a restart restores both from what  *)
(* was persisted.                                                          *)
(***************************************************************************)
EXTENDS BallotProtocol

CONSTANTS NodeOrder, Proposals, Extracted, Combined, HashValue, MaxRounds,
    MaxEarlyTimeouts,
    UINT64_MAX,     \* the largest hash
    HashNode        \* HashNode[k][r][n]: hash of n in round r, k neighbour or priority

ASSUME NominationAssumption ==
    /\ Proposals \in [Node -> SUBSET Value]
    /\ Extracted \in [Node -> [Value -> Value \cup {NoValue}]]
    /\ Combined \in [(SUBSET Value) \ {{}} -> Value]
    /\ MaxRounds \in Nat

(***************************************************************************)
(* Different values have different hashes.                                 *)
(***************************************************************************)
ASSUME HashAssumption ==
    /\ HashValue \in [1 .. MaxRounds -> [Value -> Nat]]
    /\ \A r \in 1 .. MaxRounds : \A v, w \in Value :
           HashValue[r][v] = HashValue[r][w] => v = w

VARIABLES
    nomination, nominations, lastNomination, emittedNomination, pending,
    sentNominations

(***************************************************************************)
(* Leaders (src/scp/LocalNode.cpp, src/scp/NominationProtocol.cpp).  A     *)
(* node's weight is the share of slices it is in, rounded up; a node       *)
(* is a neighbour when its hash is within its weight, and the neighbours   *)
(* with the highest priority lead the round.                               *)
(***************************************************************************)
computeWeight(m, total, threshold) == (m * threshold + total - 1) \div total

WeightLevel(q, m, Inner(_)) ==
    LET holding == {i \in q.innerSets : Inner(i) # 0}
    IN  CASE m \in q.validators -> computeWeight(UINT64_MAX, Entries(q), q.threshold)
          [] m \notin q.validators /\ holding # {} ->
                 computeWeight(Inner(CHOOSE i \in holding : TRUE), Entries(q), q.threshold)
          [] OTHER -> 0

getNodeWeight(m, q) ==
    WeightLevel(q, m, LAMBDA i : WeightLevel(i, m, LAMBDA j :
        WeightLevel(j, m, LAMBDA k : 0)))

getNodePriority(n, m, q, r) ==
    LET w == IF m = n THEN UINT64_MAX ELSE getNodeWeight(m, q)
    IN  IF w > 0 /\ HashNode["neighbour"][r][m] <= w
        THEN HashNode["priority"][r][m] ELSE 0

updateRoundLeaders(n, q0, r) ==
    LET q == normalizeQSet(q0, {n})
        all == {n} \cup NodesOf(q)
        top == {m \in all : \A k \in all :
                    getNodePriority(n, k, q, r) <= getNodePriority(n, m, q, r)}
    IN  IF \A m \in all : getNodePriority(n, m, q, r) = 0 THEN {n} ELSE top

NominationQuorums == {<<x[2], x[3]>> : x \in {y \in Quorums : y[1] = {}}}

RoundLeaders ==
    {x : x \in {y \in Node \X (1 .. MaxRounds) \X Node :
        y[3] \in updateRoundLeaders(y[1], QSet[y[1]], y[2])}}

Nomination ==
    INSTANCE Nomination WITH
        Quorums <- NominationQuorums,
        Leaders <- RoundLeaders,
        composite <- candidate,
        fullyValidated <- [n \in Node |-> local[n].fullyValidated]

\* The variables of nomination, but for the composite candidate.
privateVars ==
    <<nomination, nominations, lastNomination, emittedNomination, pending,
      sentNominations>>

slotVars == <<vars, privateVars>>

\* Mutated: a new composite does not start the ballot protocol.
bumpStateWithCandidate_Ignored(n) == UNCHANGED <<local, latest, last, calls>>

(***************************************************************************)
(* bumpState(mLatestCompositeCandidate, false) with every new composite:   *)
(* it starts the ballot protocol and does nothing once there is a ballot.  *)
(* What it sets off runs before the nomination handler goes on.            *)
(***************************************************************************)
bumpStateWithCandidate(n) ==
    IF candidate'[n] = candidate[n] \/ Present(local[n].b)
    THEN UNCHANGED <<local, latest, last, calls>>
    ELSE emitCurrentStateStatement(n, bumpState(local[n], candidate'[n], 1), <<>>, "bump")

NominationStep(n) ==
    /\ Ready(n)
    /\ Nomination!Step(n)
    /\ bumpStateWithCandidate(n)
    /\ UNCHANGED <<emitted, sent, timeouts, restarts>>

(***************************************************************************)
(* When a node can take a step other than a restart or a ballot timeout: a *)
(* handler is running, the herder has yet to trigger nomination, a round   *)
(* of nomination may time out, or the last statement of a node has not     *)
(* arrived everywhere.                                                     *)
(***************************************************************************)
Underway ==
    \E n \in Node :
        \/ InAdvanceSlot(n)
        \/ pending[n] # <<>>
        \/ /\ Nomination!Ready(n) /\ Ready(n)
           /\ \/ \E v \in Value : Nomination!MayPropose(n, v)
              \/ /\ nomination[n].timer # NoValue
                 /\ nomination[n].started => nomination[n].round < MaxRounds
              \/ \E m \in Node :
                     Nomination!isNewerStatement(nominations[n][m], emittedNomination[m])
              \/ \E m \in Node \ {n} :
                     /\ isNewerStatement(latest[n][m], emitted[m])
                     /\ isStatementSane(emitted[m], FALSE)
                     /\ validateValues(n, emitted[m]) # "kInvalidValue"
                     /\ local[n].phase = "EXTERNALIZE"
                            => local[n].c.value = WorkingValue(emitted[m])

(***************************************************************************)
(* computeTimeout gives every ballot a second more than the one before, so *)
(* that only the first timeouts come before the statements under way have  *)
(* been handled.                                                           *)
(***************************************************************************)
TimelyTimeout == timeouts < MaxEarlyTimeouts \/ ~Underway

(***************************************************************************)
(* setConfirmCommit calls stopNomination.  A ballot handler also runs in   *)
(* the middle of a nomination handler that bumped the ballot.              *)
(***************************************************************************)
BallotStep(n) ==
    /\ \/ advanceSlot(n)
       \/ Nomination!Idle /\ \E st \in sent : processEnvelope(n, st)
       \/ Nomination!Idle /\ ballotProtocolTimerExpired(n) /\ TimelyTimeout
    /\ IF local'[n].phase = "EXTERNALIZE" /\ local[n].phase # "EXTERNALIZE"
       THEN Nomination!stopNomination(n) ELSE UNCHANGED nomination
    /\ UNCHANGED <<nominations, lastNomination, emittedNomination, pending,
                   sentNominations>>

(***************************************************************************)
(* A restart, possibly between the ballot a nomination handler sends and   *)
(* the nomination it sends.  With FORCE_SCP the node takes itself to be in *)
(* sync (Herder::bootstrap).  Otherwise it is not until it has caught up   *)
(* with a ledger: what it validates is at most kMaybeValidValue, so that   *)
(* it follows the slot but sends nothing.                                  *)
(***************************************************************************)
RestartSlot(n) ==
    \E forceSCP \in BOOLEAN :
        /\ RestartFrom(n, [setStateFromEnvelope(emitted[n]) EXCEPT
                               !.fullyValidated = forceSCP])
        /\ Nomination!Restart(n, forceSCP)

InitSlot == Init /\ Nomination!Init

NextSlot == \E n \in Node : NominationStep(n) \/ BallotStep(n) \/ RestartSlot(n)

\* A step other than a restart can be taken.
CanProgress ==
    \/ Underway
    \/ timeouts < MaxTimeouts /\ \E n \in Node : local[n].timer

(***************************************************************************)
(* Such a step is taken whenever one can be: handlers end, the herder of a *)
(* node in sync triggers nomination, the last statements are broadcast     *)
(* again and again, and timers fire.  Each of these happens finitely       *)
(* often, so it is enough to be fair to all of them together.  This is     *)
(* weak fairness of all steps but restarts, with CanProgress for the       *)
(* condition under which one is enabled.                                   *)
(***************************************************************************)
Fairness ==
    []<>(~CanProgress) \/ []<><<restarts' = restarts>>_slotVars

SpecSlot == InitSlot /\ [][NextSlot]_slotVars /\ Fairness

----------------------------------------------------------------------------
(***************************************************************************)
(* emitNomination never throws "moved to a bad state (nomination)": what a *)
(* node emits is newer than what it recorded, also after a restart.        *)
(***************************************************************************)
NoBadNomination == \A n \in Node : ~nomination[n].failed

(***************************************************************************)
(* A node came back without the value it had confirmed prepared: it holds  *)
(* a commit ballot, but z is not persisted, and the composite candidate it *)
(* made since is another value.  Its timer then tries to move to a value   *)
(* that the commit does not allow, in vain.                                *)
(***************************************************************************)
LostCommitValue(n) ==
    /\ Present(local[n].c)
    /\ local[n].z = NoValue
    /\ candidate[n] \notin {NoValue, local[n].c.value}

(***************************************************************************)
(* The slot comes to an end: although a node may restart at any time and   *)
(* timers may fire early, every node externalizes, unless a node came back *)
(* without FORCE_SCP, and so takes no part in the slot, or came back       *)
(* without the value it had confirmed prepared.                            *)
(***************************************************************************)
SlotExternalizes ==
    <>(\/ \A n \in Node : local[n].phase = "EXTERNALIZE"
       \/ \E n \in Node : ~nomination[n].synced
       \/ \E n \in Node : LostCommitValue(n))

(***************************************************************************)
(* Whatever value the ballot protocol works on combines values that the    *)
(* nomination protocol agreed on.  The node that finds the candidate may   *)
(* stop after it sent the ballot and before it persisted its own           *)
(* acceptance; the rest of the quorum holds its acceptance for good.       *)
(***************************************************************************)
BallotsAreNominated ==
    \A n \in Node :
        Present(local[n].b) =>
            \E S \in DOMAIN Combined :
                /\ Combined[S] = local[n].b.value
                /\ \A v \in S : Nomination!Nominated(v, restarts > 0)
=============================================================================
