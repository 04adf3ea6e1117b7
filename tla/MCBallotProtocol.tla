-------------------------- MODULE MCBallotProtocol --------------------------
(***************************************************************************)
(* Instances of the ballot protocol: any two nodes are a quorum, and so    *)
(* are the two nodes of an instance with two.  Composite1..3 are the       *)
(* composite candidates the nomination of each node may produce.           *)
(***************************************************************************)
EXTENDS BallotProtocol

CONSTANTS n1, n2, n3, Composite1, Composite2, Composite3

MCQSet ==
    [n \in Node |-> [threshold |-> 2, validators |-> Node, innerSets |-> {}]]

MCAllValid == [n \in Node |-> [v \in Value |-> "kFullyValidatedValue"]]

MCComposites ==
    [n \in Node |-> CASE n = n1 -> Composite1
                      [] n = n2 -> Composite2
                      [] n = n3 -> Composite3]

MCSupersedes == {<<1, 2>>}

(***************************************************************************)
(* One long behaviour, in which n3 votes to commit ballot (1,1) and falls  *)
(* behind, while n1 and n2 time out with (1,1) accepted but not confirmed, *)
(* accept (2,2), confirm (1,1) late and time out to (3,1).                 *)
(***************************************************************************)
FallsBehind ==
    /\ \A n \in Node : local[n].phase = "PREPARE"
    /\ local[n3].b.counter <= 1
    /\ \A n \in {n1, n2} :
           /\ local[n].b \in {NoBallot, Ballot(1, 1), Ballot(2, 2), Ballot(3, 1)}
           /\ local[n].b.counter < 3 => ~Present(local[n].h)
=============================================================================
