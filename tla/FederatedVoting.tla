--------------------------- MODULE FederatedVoting ---------------------------
(***************************************************************************)
(* What the nodes of the ballot protocol promise one another: the rules of *)
(* federated voting on one slot, without rounds of messages, timers or     *)
(* local bookkeeping.  A node votes to prepare ballots, accepts ballots as *)
(* prepared, votes to commit them and accepts their commit.  The sets only *)
(* grow, and the rules say what must already be true when they do.         *)
(*                                                                         *)
(* BallotVotes shows that the ballot protocol follows these rules;         *)
(* FederatedVotingProofs proves that they are enough for agreement, for    *)
(* any set of quorums that intersect.                                      *)
(***************************************************************************)
EXTENDS Ballots

CONSTANTS
    Node,
    Quorum      \* the sets of nodes that are a quorum

ASSUME QuorumAssumption ==
    /\ Quorum \subseteq SUBSET Node
    /\ \A U, W \in Quorum : U \cap W # {}

VARIABLES
    votedPrepare,       \* ballots each node has voted to prepare
    acceptedPrepared,   \* ballots each node has accepted as prepared
    votedCommit,        \* ballots each node has voted to commit
    acceptedCommit      \* ballots each node has accepted the commit of

vars == <<votedPrepare, acceptedPrepared, votedCommit, acceptedCommit>>

(***************************************************************************)
(* To prepare y is to abort every ballot below y with another value.       *)
(***************************************************************************)
Aborts(y, x) == areBallotsLessAndIncompatible(x, y)

Aborted(x) == \E m \in Node : \E y \in acceptedPrepared[m] : Aborts(y, x)

(***************************************************************************)
(* Accepting the commit of y is accepting the commit of every higher       *)
(* ballot with the same value.                                             *)
(***************************************************************************)
CommitsFrom(m, x) ==
    \E y \in acceptedCommit[m] : areBallotsLessAndCompatible(y, x)

Prepared(x) == \E U \in Quorum : \A m \in U : x \in acceptedPrepared[m]

(***************************************************************************)
(* Some node has accepted the commit of a ballot with the value of x.  A   *)
(* node that externalizes speaks for every ballot with its value, without  *)
(* its quorum, so others confirm such ballots as prepared on its word.     *)
(***************************************************************************)
Committed(x) ==
    \E m \in Node : \E y \in acceptedCommit[m] : areBallotsCompatible(x, y)

----------------------------------------------------------------------------
(***************************************************************************)
(* The rules for what node n adds in one step.                             *)
(***************************************************************************)
MayVotePrepare(n, x) ==
    \A z \in votedCommit[n] : Aborts(x, z) => Aborted(z)'

MayAcceptPrepared(x) ==
    \/ \E U \in Quorum :
           \A m \in U : x \in votedPrepare[m] \cup acceptedPrepared[m]
    \/ \E m \in Node : x \in acceptedPrepared[m]

\* Mutated: one node that accepted x as prepared is enough.
MayVoteCommit_OneNode(n, x) ==
    /\ \E m \in Node : x \in acceptedPrepared[m]
    /\ \A y \in votedPrepare'[n] : ~Aborts(y, x)

MayVoteCommit(n, x) ==
    /\ Prepared(x) \/ Committed(x)
    /\ \A y \in votedPrepare'[n] : ~Aborts(y, x)

\* Mutated: one vote is enough.
MayAcceptCommit_OneVote(x) == \E m \in Node : x \in votedCommit[m] \/ CommitsFrom(m, x)

MayAcceptCommit(x) ==
    \/ \E U \in Quorum :
           \A m \in U : x \in votedCommit[m] \/ CommitsFrom(m, x)
    \/ \E m \in Node : CommitsFrom(m, x)

Adding(votes, n) == {[votes EXCEPT ![n] = @ \cup X] : X \in SUBSET SlotBallot}

Speak(n) ==
    /\ votedPrepare'     \in Adding(votedPrepare, n)
    /\ acceptedPrepared' \in Adding(acceptedPrepared, n)
    /\ votedCommit'      \in Adding(votedCommit, n)
    /\ acceptedCommit'   \in Adding(acceptedCommit, n)
    /\ \A x \in votedPrepare'[n] \ votedPrepare[n] : MayVotePrepare(n, x)
    /\ \A x \in acceptedPrepared'[n] \ acceptedPrepared[n] : MayAcceptPrepared(x)
    /\ \A x \in votedCommit'[n] \ votedCommit[n] : MayVoteCommit(n, x)
    /\ \A x \in acceptedCommit'[n] \ acceptedCommit[n] : MayAcceptCommit(x)

Init ==
    /\ votedPrepare     = [n \in Node |-> {}]
    /\ acceptedPrepared = [n \in Node |-> {}]
    /\ votedCommit      = [n \in Node |-> {}]
    /\ acceptedCommit   = [n \in Node |-> {}]

Next == \E n \in Node : Speak(n)

Spec == Init /\ [][Next]_vars

----------------------------------------------------------------------------
TypeOK ==
    /\ votedPrepare     \in [Node -> SUBSET SlotBallot]
    /\ acceptedPrepared \in [Node -> SUBSET SlotBallot]
    /\ votedCommit      \in [Node -> SUBSET SlotBallot]
    /\ acceptedCommit   \in [Node -> SUBSET SlotBallot]

(***************************************************************************)
(* No two nodes accept the commit of ballots with different values.  A     *)
(* node externalizes only a value it has accepted the commit of, so no two *)
(* nodes externalize different values.                                     *)
(***************************************************************************)
CommitAgreement ==
    \A m, n \in Node :
        \A x \in acceptedCommit[m], y \in acceptedCommit[n] :
            areBallotsCompatible(x, y)

(***************************************************************************)
(* The rest of the inductive invariant.                                    *)
(*                                                                         *)
(* A node that voted to commit x and votes to prepare a ballot that aborts *)
(* x does so because x has been aborted.                                   *)
(***************************************************************************)
VotesAreHonest ==
    \A n \in Node :
        \A x \in votedCommit[n], y \in votedPrepare[n] :
            Aborts(y, x) => Aborted(x)

(***************************************************************************)
(* Behind an aborted ballot stands a quorum of nodes that voted against it *)
(* and can no longer vote to commit it.                                    *)
(***************************************************************************)
AbortedByQuorum ==
    \A x \in SlotBallot :
        Aborted(x) =>
            \E U \in Quorum :
                \A m \in U : /\ x \notin votedCommit[m]
                             /\ \E y \in votedPrepare[m] : Aborts(y, x)

(***************************************************************************)
(* A value is decided when a quorum has voted to commit a prepared ballot  *)
(* with it.  Only ballots that are prepared or have a decided value are    *)
(* voted for, and only commits of a decided value are accepted.            *)
(***************************************************************************)
Decided(x) ==
    \E y \in SlotBallot :
        /\ areBallotsCompatible(x, y)
        /\ Prepared(y)
        /\ \E U \in Quorum : \A m \in U : y \in votedCommit[m]

CommitVotesPrepared ==
    \A n \in Node : \A x \in votedCommit[n] : Prepared(x) \/ Decided(x)

CommitsDecided ==
    \A n \in Node : \A x \in acceptedCommit[n] : Decided(x)

IInv ==
    /\ TypeOK
    /\ VotesAreHonest
    /\ AbortedByQuorum
    /\ CommitVotesPrepared
    /\ CommitsDecided
=============================================================================
