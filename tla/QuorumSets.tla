----------------------------- MODULE QuorumSets -----------------------------
(***************************************************************************)
(* Quorum sets, quorum slices, v-blocking sets and quorums                 *)
(* (src/scp/LocalNode.cpp, src/scp/QuorumSetUtils.cpp).                    *)
(*                                                                         *)
(* A quorum set is a record [threshold, validators, innerSets].  The code  *)
(* recurses over inner sets and isQuorumSetSane bounds the nesting: a set  *)
(* of depth 0 may hold sets of depth 1, which may hold sets of depth 2,    *)
(* which hold validators only.  The recursion is unfolded along that       *)
(* bound.  A sane quorum set names no node twice, so validators and inner  *)
(* sets are sets here where the code has vectors.                          *)
(***************************************************************************)
EXTENDS Integers, FiniteSets

(***************************************************************************)
(* Entries of q that hold: validators in S and inner sets for which Inner  *)
(* is true.                                                                *)
(***************************************************************************)
Entries(q) == Cardinality(q.validators) + Cardinality(q.innerSets)

Matching(q, S, Inner(_)) ==
    Cardinality(q.validators \cap S)
        + Cardinality({i \in q.innerSets : Inner(i)})

(***************************************************************************)
(* isQuorumSliceInternal: thresholdLeft counts down to 0 from threshold.   *)
(* It is unsigned, so a threshold of 0 is never met.                       *)
(***************************************************************************)
SliceLevel(q, S, Inner(_)) ==
    q.threshold >= 1 /\ Matching(q, S, Inner) >= q.threshold

isQuorumSlice(q, S) ==
    SliceLevel(q, S, LAMBDA i :
        SliceLevel(i, S, LAMBDA j : SliceLevel(j, S, LAMBDA k : FALSE)))

(***************************************************************************)
(* isVBlockingInternal: leftTillBlock counts down to 0 from 1 + entries -  *)
(* threshold, and is only looked at after an entry has been counted.       *)
(***************************************************************************)
BlockLevel(q, S, Inner(_)) ==
    /\ q.threshold # 0
    /\ Matching(q, S, Inner) >= 1
    /\ Matching(q, S, Inner) >= 1 + Entries(q) - q.threshold

\* Mutated: one entry too few blocks.
isVBlocking_OffByOne(q, S) ==
    BlockLevel([q EXCEPT !.threshold = @ + 1], S, LAMBDA i :
        BlockLevel(i, S, LAMBDA j : BlockLevel(j, S, LAMBDA k : FALSE)))

isVBlocking(q, S) ==
    BlockLevel(q, S, LAMBDA i :
        BlockLevel(i, S, LAMBDA j : BlockLevel(j, S, LAMBDA k : FALSE)))

(***************************************************************************)
(* isQuorum: among the nodes S whose statement passes the filter, the code *)
(* drops the nodes whose own quorum set has no slice inside S, until none  *)
(* is dropped, and asks whether the remainder holds a slice of q.  What    *)
(* remains is the largest subset of S that has a slice for each of its     *)
(* members; because a slice stays a slice in a larger set, the answer is   *)
(* whether some such subset holds a slice of q.  qf gives the quorum set   *)
(* a node's statement carries.                                             *)
(***************************************************************************)
SelfSufficient(U, qf) == \A m \in U : isQuorumSlice(qf[m], U)

isQuorum(q, S, qf) ==
    \E U \in SUBSET S : SelfSufficient(U, qf) /\ isQuorumSlice(q, U)

(***************************************************************************)
(* The same answer by the code's loop, kept beside the definition above to *)
(* be compared with it.                                                    *)
(***************************************************************************)
Pruned(S, qf) ==
    LET prune[T \in SUBSET S] ==
            LET kept == {m \in T : isQuorumSlice(qf[m], T)}
            IN  IF kept = T THEN T ELSE prune[kept]
    IN  prune[S]

isQuorumByPruning(q, S, qf) == isQuorumSlice(q, Pruned(S, qf))

getSingletonQSet(n) ==
    [threshold |-> 1, validators |-> {n}, innerSets |-> {}]

(***************************************************************************)
(* forAllNodes: the nodes a quorum set names, at any level.                *)
(***************************************************************************)
NodesOf(q) ==
    q.validators \cup UNION {i.validators \cup UNION {j.validators : j \in i.innerSets}
                                : i \in q.innerSets}

(***************************************************************************)
(* findClosestVBlocking: the nodes of S that are missing from a v-blocking *)
(* set of q, given that the nodes outside S already block.  The code takes *)
(* validators in the order of the quorum set, then the smallest answers of *)
(* inner sets; which ones it takes among equals is left open.  The nodes   *)
(* in excluded (at most one) neither count as blocked nor are taken, but   *)
(* an inner set that offers no other node counts as blocked.               *)
(***************************************************************************)
ClosestLevel(q, S, excluded, Inner(_)) ==
    LET blocked == Cardinality(q.validators \ (S \cup excluded))
                       + Cardinality({i \in q.innerSets : Inner(i) = {}})
        left == 1 + Entries(q) - q.threshold - blocked
        open == (q.validators \cap S) \ excluded
        openInner == {i \in q.innerSets : Inner(i) # {}}
        V == CHOOSE X \in SUBSET open :
                 Cardinality(X) = left \/ (X = open /\ Cardinality(X) < left)
        stillLeft == left - Cardinality(V)
        I == CHOOSE X \in SUBSET openInner :
                 /\ \/ Cardinality(X) = stillLeft
                    \/ X = openInner /\ Cardinality(X) < stillLeft
                 /\ \A i \in X, j \in openInner \ X :
                        Cardinality(Inner(i)) <= Cardinality(Inner(j))
    IN  IF left <= 0 THEN {} ELSE V \cup UNION {Inner(i) : i \in I}

findClosestVBlocking(q, S, excluded) ==
    ClosestLevel(q, S, excluded, LAMBDA i :
        ClosestLevel(i, S, excluded, LAMBDA j :
            ClosestLevel(j, S, excluded, LAMBDA k : {})))

----------------------------------------------------------------------------
(***************************************************************************)
(* Sanity and normal form (src/scp/QuorumSetUtils.cpp).                    *)
(*                                                                         *)
(* checkSanity for one level.  extraChecks asks for a threshold that is at *)
(* least the size of a v-blocking set.                                     *)
(***************************************************************************)
SaneLevel(q, extraChecks, Inner(_)) ==
    /\ q.threshold >= 1
    /\ q.threshold <= Entries(q)
    /\ extraChecks => q.threshold >= Entries(q) - q.threshold + 1
    /\ \A i \in q.innerSets :
           /\ Inner(i)
           /\ NodesOf(i) \cap q.validators = {}
           /\ \A j \in q.innerSets \ {i} : NodesOf(i) \cap NodesOf(j) = {}

isQuorumSetSane(q, extraChecks) ==
    /\ SaneLevel(q, extraChecks, LAMBDA i :
           SaneLevel(i, extraChecks, LAMBDA j :
               SaneLevel(j, extraChecks, LAMBDA k : FALSE)))
    /\ Cardinality(NodesOf(q)) \in 1 .. 1000

(***************************************************************************)
(* normalizeQSet: drops the node that is to be removed, with its vote,     *)
(* merges inner sets that are one validator into the validators, and       *)
(* replaces a set that only wraps one inner set by that inner set.         *)
(***************************************************************************)
NormalizeLevel(q, remove, Inner(_)) ==
    LET inner == {Inner(i) : i \in q.innerSets}
        single == {i \in inner : /\ i.threshold = 1
                                 /\ Cardinality(i.validators) = 1
                                 /\ i.innerSets = {}}
        t == q.threshold - Cardinality(q.validators \cap remove)
        v == (q.validators \ remove) \cup UNION {i.validators : i \in single}
        rest == inner \ single
    IN  IF t = 1 /\ v = {} /\ Cardinality(rest) = 1
        THEN CHOOSE i \in rest : TRUE
        ELSE [threshold |-> t, validators |-> v, innerSets |-> rest]

\* Mutated: a set with validators is taken for a wrapper.
normalizeQSet_LosesValidators(q, remove) ==
    LET n == NormalizeLevel(q, remove, LAMBDA i : i)
    IN  IF n.threshold = 1 /\ Cardinality(n.innerSets) = 1
        THEN CHOOSE i \in n.innerSets : TRUE ELSE n

normalizeQSet(q, remove) ==
    NormalizeLevel(q, remove, LAMBDA i :
        NormalizeLevel(i, remove, LAMBDA j :
            NormalizeLevel(j, remove, LAMBDA k : k)))
=============================================================================
