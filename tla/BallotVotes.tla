----------------------------- MODULE BallotVotes -----------------------------
(***************************************************************************)
(* The ballot protocol follows the rules of federated voting.              *)
(*                                                                         *)
(* A node's votes are what its statements say.  Within one handler a node  *)
(* may make several statements, which it processes itself, and send only   *)
(* the last, so the votes are collected in history variables, from the     *)
(* statements a node records for itself.                                   *)
(***************************************************************************)
EXTENDS BallotProtocol

VARIABLES votedPrepare, acceptedPrepared, votedCommit, acceptedCommit

votes == <<votedPrepare, acceptedPrepared, votedCommit, acceptedCommit>>

(***************************************************************************)
(* The quorums of the configuration: every set in which some node finds a  *)
(* quorum.                                                                 *)
(***************************************************************************)
QuorumSystem ==
    {S \in SUBSET Node : \E n \in Node : isQuorum(QSet[n], S, QSetIfExternalized({}))}

\* What the operators of the network must ensure: any two quorums share a node.
ASSUME QuorumIntersection == \A U, W \in QuorumSystem : U \cap W # {}

Voting == INSTANCE FederatedVoting WITH Quorum <- QuorumSystem

(***************************************************************************)
(* Ballots the last statement of n says something about.  Only a PREPARE   *)
(* votes to commit; the other two statements accept commits.               *)
(***************************************************************************)
Said(n, Says(_, _)) ==
    {x \in SlotBallot :
        latest[n][n].type # "NONE" /\ Says(x, latest[n][n])}

SaysVotedCommit(x, st) ==
    st.type = "PREPARE" /\ VotesCommit(x.value, x.counter, x.counter, st)

SaysAcceptedCommit(x, st) ==
    commitPredicate(x.value, x.counter, x.counter, st)

Collect(n) ==
    /\ votedPrepare' = [votedPrepare EXCEPT ![n] =
           @ \cup Said(n, VotesPrepared)']
    /\ acceptedPrepared' = [acceptedPrepared EXCEPT ![n] =
           @ \cup Said(n, hasPreparedBallot)']
    /\ votedCommit' = [votedCommit EXCEPT ![n] =
           @ \cup Said(n, SaysVotedCommit)']
    /\ acceptedCommit' = [acceptedCommit EXCEPT ![n] =
           @ \cup Said(n, SaysAcceptedCommit)']

InitVotes == Init /\ Voting!Init

NextVotes ==
    /\ Next
    /\ \/ \E n \in Node : latest'[n][n] # latest[n][n] /\ Collect(n)
       \/ (\A n \in Node : latest'[n][n] = latest[n][n]) /\ UNCHANGED votes

SpecVotes == InitVotes /\ [][NextVotes]_<<vars, votes>>

(***************************************************************************)
(* Every statement the code makes obeys the rules of federated voting: it  *)
(* votes to prepare against its own vote to commit only after that ballot  *)
(* was aborted, accepts what a quorum voted for or another node accepted,  *)
(* and votes to commit what a quorum accepted as prepared.                 *)
(***************************************************************************)
FollowsFederatedVoting == Voting!Spec
=============================================================================
