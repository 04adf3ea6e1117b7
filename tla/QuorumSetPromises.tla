------------------------- MODULE QuorumSetPromises -------------------------
(***************************************************************************)
(* What slices, v-blocking sets, quorums and the normal form of quorum     *)
(* sets promise one another.                                               *)
(***************************************************************************)
EXTENDS QuorumSets

CONSTANTS
    Node,
    Input,      \* the quorum sets the promises are checked on
    Systems     \* assignments of a quorum set to every node

(***************************************************************************)
(* The inputs of a comparison: a sane quorum set, the quorum sets of all   *)
(* nodes, and a set of nodes that is built up one by one.                  *)
(***************************************************************************)
VARIABLES qSet, qfun, nodeSet

vars == <<qSet, qfun, nodeSet>>

Sane == {q \in Input : isQuorumSetSane(q, FALSE)}

Init ==
    /\ qSet \in Sane
    /\ qfun \in Systems
    /\ nodeSet = {}

Grow(n) ==
    /\ nodeSet' = nodeSet \cup {n}
    /\ UNCHANGED <<qSet, qfun>>

Next == \E n \in Node \ nodeSet : Grow(n)

Spec == Init /\ [][Next]_vars

Levels(q) == {q} \cup q.innerSets \cup UNION {i.innerSets : i \in q.innerSets}

----------------------------------------------------------------------------
(***************************************************************************)
(* isVBlocking and isQuorumSlice are written independently of each other,  *)
(* one counting down from the threshold and one from its complement.  On a *)
(* sane quorum set they agree: a set of nodes is v-blocking exactly when   *)
(* the nodes outside it contain no slice.                                  *)
(***************************************************************************)
BlockingMeetsEverySlice ==
    isVBlocking(qSet, nodeSet) <=> ~isQuorumSlice(qSet, Node \ nodeSet)

(***************************************************************************)
(* The loop of isQuorum drops nodes that have no slice among the rest.     *)
(* What it answers is whether the nodes contain a quorum for qSet at all:  *)
(* dropping all of them in the same pass never drops one that a quorum     *)
(* needs.                                                                  *)
(***************************************************************************)
PruningFindsQuorum ==
    isQuorumByPruning(qSet, nodeSet, qfun) <=> isQuorum(qSet, nodeSet, qfun)

(***************************************************************************)
(* The configured quorum set is normalized before it is hashed and sent.   *)
(* The normal form has the same slices and is sane too.                    *)
(***************************************************************************)
NormalFormKeepsSlices ==
    LET n == normalizeQSet(qSet, {})
    IN  /\ isQuorumSetSane(n, FALSE)
        /\ isQuorumSlice(n, nodeSet) <=> isQuorumSlice(qSet, nodeSet)

(***************************************************************************)
(* updateRoundLeaders removes the local node from its quorum set before it *)
(* weighs the other nodes.  As long as the local node does not meet a      *)
(* threshold alone, what is left has a slice among other nodes exactly     *)
(* where the whole set has one among them and the local node, however the  *)
(* inner sets are merged.                                                  *)
(***************************************************************************)
RemovalKeepsSlices ==
    \A n \in NodesOf(qSet) \ nodeSet :
        (\A q \in Levels(qSet) : n \in q.validators => q.threshold > 1) =>
            ( isQuorumSlice(normalizeQSet(qSet, {n}), nodeSet)
                <=> isQuorumSlice(qSet, nodeSet \cup {n}) )

(***************************************************************************)
(* With no node excluded, findClosestVBlocking answers with nodes that,    *)
(* once they fail too, leave no slice, and no smaller set of nodes would   *)
(* do: this is what validateConfig compares FAILURE_SAFETY with.           *)
(***************************************************************************)
ClosestIsSmallestBlocking ==
    LET closest == findClosestVBlocking(qSet, nodeSet, {})
        Blocks(X) == ~isQuorumSlice(qSet, nodeSet \ X)
    IN  /\ closest \subseteq nodeSet
        /\ Blocks(closest)
        /\ \A X \in SUBSET nodeSet :
               Blocks(X) => Cardinality(X) >= Cardinality(closest)

(***************************************************************************)
(* The "fail_at" an operator reads excludes the node it is about.  The     *)
(* answer need not block by itself then, but does once that node fails     *)
(* with it.                                                                *)
(***************************************************************************)
ClosestBlocksWithExcluded ==
    \A n \in Node :
        LET closest == findClosestVBlocking(qSet, nodeSet, {n})
        IN  /\ closest \subseteq nodeSet \ {n}
            /\ ~isQuorumSlice(qSet, nodeSet \ (closest \cup {n}))
=============================================================================
