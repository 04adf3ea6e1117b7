------------------------- MODULE MCFederatedVoting -------------------------
(***************************************************************************)
(* Two scenarios share the instance.  In "sets", quorum sets nested as     *)
(* deep as isQuorumSetSane allows, over a few nodes, and the promises that *)
(* slices, quorums and normal forms make one another.  In "votes", three   *)
(* nodes vote, and a quorum is what the slices of their quorum sets say.   *)
(***************************************************************************)
EXTENDS FederatedVoting, FiniteSets, TLC

VARIABLES scenario, qSet, qfun, nodeSet

MCSetNode == 1 .. 4

QSets(Thresholds, Inner) ==
    [threshold : Thresholds, validators : SUBSET MCSetNode, innerSets : Inner]

(***************************************************************************)
(* A set of depth 0 holds one set of depth 1 that may hold another one, or *)
(* two that hold validators only.  Init leaves the insane ones out.        *)
(***************************************************************************)
Flat == {q \in QSets(1 .. 2, {{}}) : Cardinality(q.validators) \in q.threshold .. 2}

Nested == {q \in QSets(1 .. 2, {{i} : i \in Flat}) : Cardinality(q.validators) <= 1}

MCInput ==
    QSets(1 .. 3, {{}} \cup {{i} : i \in Flat \cup Nested}
                      \cup {{i, j} : i \in Flat, j \in Flat})

(***************************************************************************)
(* Three systems: nodes that need one another in a chain, any three of the *)
(* nodes, and two pairs.                                                   *)
(***************************************************************************)
Needs(t, V) == [threshold |-> t, validators |-> V, innerSets |-> {}]

MCSystems ==
    { [n \in MCSetNode |-> IF n = 4 THEN Needs(1, {4}) ELSE Needs(2, {n, n + 1})],
      [n \in MCSetNode |-> Needs(3, MCSetNode)],
      [n \in MCSetNode |-> IF n \in {1, 2} THEN Needs(2, {1, 2}) ELSE Needs(2, {3, 4})] }

Q == INSTANCE QuorumSetPromises WITH
         Node <- MCSetNode, Input <- MCInput, Systems <- MCSystems

----------------------------------------------------------------------------
MCValue == {1, 2}

MCQuorum == {U \in SUBSET Node : Cardinality(U) >= 2}

ASSUME QuorumsOfSlices ==
    MCQuorum = {U \in SUBSET Node :
                    U # {} /\ \A n \in U : Q!isQuorumSlice(Needs(2, Node), U)}

\* The nodes that vote may be exchanged.
Alike == Permutations(Node)

MCInit ==
    /\ Init
    /\ \/ /\ scenario = "votes"
          /\ qSet = Needs(3, MCSetNode)
          /\ qfun = [n \in MCSetNode |-> qSet]
          /\ nodeSet = {}
       \/ scenario = "sets" /\ Q!Init

Votes == scenario = "votes" /\ Next /\ UNCHANGED <<scenario, qSet, qfun, nodeSet>>

Sets == scenario = "sets" /\ Q!Next /\ UNCHANGED <<scenario, vars>>

MCNext == Votes \/ Sets

MCSpec == MCInit /\ [][MCNext]_<<scenario, vars, qSet, qfun, nodeSet>>

----------------------------------------------------------------------------
\* isVBlocking and isQuorumSlice agree, findClosestVBlocking finds no more
\* nodes than it takes to block, and nodes that block together with the one
\* it is told to leave out, and the pruning loop of isQuorum finds a quorum
\* if there is one: see QuorumSetPromises.
QuorumsAndBlockingSetsAgree ==
    /\ Q!BlockingMeetsEverySlice
    /\ Q!ClosestIsSmallestBlocking
    /\ Q!ClosestBlocksWithExcluded
    /\ Q!PruningFindsQuorum

\* normalizeQSet keeps the slices, also when it removes the local node: see
\* QuorumSetPromises.
NormalFormKeepsSlices == Q!NormalFormKeepsSlices /\ Q!RemovalKeepsSlices

=============================================================================
