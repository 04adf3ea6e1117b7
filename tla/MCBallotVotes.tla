--------------------------- MODULE MCBallotVotes ---------------------------
EXTENDS BallotVotes, MCBallotProtocol

(***************************************************************************)
(* Between two handlers of a node that has externalized nothing reads the  *)
(* statements it collected or its composite candidate: states that differ  *)
(* in these alone behave alike.                                            *)
(***************************************************************************)
Done(n) == Externalized(n) /\ calls[n] = <<>>

View ==
    <<local, [n \in Node |-> IF Done(n) THEN <<>> ELSE <<latest[n], candidate[n]>>],
      last, emitted, calls, sent, timeouts, restarts, votes>>
=============================================================================
