------------------------------- MODULE MCSlot -------------------------------
EXTENDS Slot, TLC

CONSTANTS n1, n2, Values1, Values2

MCQSet ==
    [n \in Node |-> [threshold |-> 2, validators |-> Node, innerSets |-> {}]]

MCAllValid == [n \in Node |-> [v \in Value |-> "kFullyValidatedValue"]]

MCNodeOrder == <<n1, n2>>

MCProposals ==
    [n \in Node |-> IF n = n1 THEN Values1 ELSE Values2]

MCExtracted == [n \in Node |-> [v \in Value |-> 0]]

\* The highest value that was agreed on, as for the close time of a ledger.
MCCombined ==
    [S \in (SUBSET Value) \ {{}} |-> CHOOSE v \in S : \A w \in S : w <= v]

(***************************************************************************)
(* All are neighbours; n1 has the highest priority in the first round, n2  *)
(* in the second.                                                          *)
(***************************************************************************)
MCHashNode ==
    [k \in {"neighbour", "priority"} |->
        [r \in 1 .. MaxRounds |->
            [n \in Node |->
                CASE k = "neighbour" -> 1
                  [] k = "priority" -> IF n = MCNodeOrder[r] THEN 2 ELSE 1]]]

MCHashValue == [r \in 1 .. MaxRounds |-> [v \in Value |-> v]]

MCComposites == [n \in Node |-> {}]

MCSupersedes == {}

(***************************************************************************)
(* Without reordering a statement arrives only while it is the last one    *)
(* its node emitted, so that nothing depends on the earlier ones in sent.  *)
(***************************************************************************)
View ==
    <<local, latest, last, emitted, calls, candidate, timeouts, restarts, privateVars>>
=============================================================================
