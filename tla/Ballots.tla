------------------------------ MODULE Ballots ------------------------------
(***************************************************************************)
(* Ballots of the SCP ballot protocol and the order the protocol uses on   *)
(* them (src/scp/BallotProtocol.cpp, compareBallots and the areBallots*    *)
(* predicates).                                                            *)
(*                                                                         *)
(* A ballot is a pair <counter, value>.  Values are opaque byte strings    *)
(* that the code only compares, so they are modelled by positive integers  *)
(* and the empty value by 0.  The ballot <0, empty>, which is what         *)
(* SCPBallot() constructs, also stands for an absent ballot (a null        *)
(* unique_ptr): every ballot the protocol stores has a counter above 0.    *)
(***************************************************************************)
EXTENDS Integers

CONSTANTS
    Value,          \* the values the nodes may agree on
    UINT32_MAX      \* the largest ballot counter, also "infinity"

\* Values are byte strings of bounded length, so there is a largest one.
ASSUME ValueAssumption ==
    /\ Value \subseteq Nat \ {0}
    /\ Value # {}
    /\ \E m \in Value : \A v \in Value : v <= m

ASSUME CounterAssumption == UINT32_MAX \in Nat \ {0}

NoValue == 0

Counter == 0 .. UINT32_MAX

Ballot(n, v) == [counter |-> n, value |-> v]

NoBallot == Ballot(0, NoValue)

SlotBallot == [counter : Counter \ {0}, value : Value]

SCPBallot == {NoBallot} \cup SlotBallot

Present(x) == x.counter # 0

(***************************************************************************)
(* compareBallots(x, y) <= 0 and compareBallots(x, y) < 0.                 *)
(***************************************************************************)
LessOrEqual(x, y) ==
    \/ x.counter < y.counter
    \/ x.counter = y.counter /\ x.value <= y.value

Less(x, y) ==
    \/ x.counter < y.counter
    \/ x.counter = y.counter /\ x.value < y.value

areBallotsCompatible(x, y) == x.value = y.value

areBallotsLessAndCompatible(x, y) ==
    LessOrEqual(x, y) /\ areBallotsCompatible(x, y)

areBallotsLessAndIncompatible(x, y) ==
    LessOrEqual(x, y) /\ ~areBallotsCompatible(x, y)

(***************************************************************************)
(* The last element of a std::set<SCPBallot>: the loops over candidates    *)
(* run over the set in reverse.                                            *)
(***************************************************************************)
Highest(B) == CHOOSE x \in B : \A y \in B : LessOrEqual(y, x)

Lowest(B) == CHOOSE x \in B : \A y \in B : LessOrEqual(x, y)
=============================================================================
