------------------------ MODULE FederatedVotingProofs ------------------------
(***************************************************************************)
(* Federated voting keeps agreement, for every set of nodes, of values and *)
(* of pairwise intersecting quorums, and for every largest counter.        *)
(***************************************************************************)
EXTENDS FederatedVoting, TLAPS

(***************************************************************************)
(* Counters and values of ballots are integers.                            *)
(***************************************************************************)
LEMMA BallotFields ==
    ASSUME NEW x \in SlotBallot
    PROVE  x.counter \in Int /\ x.value \in Int
  <1>1. x.value \in Value /\ x.counter \in Counter
    BY DEF SlotBallot
  <1>2. x.value \in Int
    <2>1. \A v \in Value : v \in Nat
      BY ValueAssumption DEF ValueAssumption
    <2> QED BY <1>1, <2>1
  <1>3. x.counter \in Int
    BY <1>1, CounterAssumption DEF CounterAssumption, Counter
  <1> QED BY <1>2, <1>3

(***************************************************************************)
(* Two ballots with different values are ordered one way or the other.     *)
(***************************************************************************)
LEMMA BallotsOrdered ==
    ASSUME NEW x \in SlotBallot, NEW y \in SlotBallot,
           ~areBallotsCompatible(x, y)
    PROVE  Aborts(x, y) \/ Aborts(y, x)
  BY BallotFields
     DEF Aborts, areBallotsCompatible, areBallotsLessAndIncompatible, LessOrEqual

(***************************************************************************)
(* Being lower and compatible is a preorder.                               *)
(***************************************************************************)
LEMMA CompatibleTransitive ==
    ASSUME NEW x \in SlotBallot, NEW y \in SlotBallot, NEW z \in SlotBallot,
           areBallotsLessAndCompatible(x, y), areBallotsLessAndCompatible(y, z)
    PROVE  areBallotsLessAndCompatible(x, z)
  BY BallotFields
     DEF areBallotsCompatible, areBallotsLessAndCompatible, LessOrEqual

\* A ballot is lower than or equal to itself and compatible.
LEMMA CompatibleReflexive ==
    ASSUME NEW x \in SlotBallot
    PROVE  areBallotsLessAndCompatible(x, x)
  BY BallotFields
     DEF areBallotsCompatible, areBallotsLessAndCompatible, LessOrEqual

(***************************************************************************)
(* A step only adds to the sets of one node.                               *)
(***************************************************************************)
LEMMA AddingGrows ==
    ASSUME NEW f \in [Node -> SUBSET SlotBallot], NEW n \in Node,
           NEW g \in Adding(f, n)
    PROVE  /\ g \in [Node -> SUBSET SlotBallot]
           /\ \A m \in Node : f[m] \subseteq g[m]
           /\ \A m \in Node : m # n => g[m] = f[m]
  BY DEF Adding

\* A step of federated voting grows the sets of one node and keeps the others.
LEMMA SpeakGrows ==
    ASSUME TypeOK, NEW n \in Node, Speak(n)
    PROVE  /\ TypeOK'
           /\ \A m \in Node : /\ votedPrepare[m] \subseteq votedPrepare'[m]
                              /\ acceptedPrepared[m] \subseteq acceptedPrepared'[m]
                              /\ votedCommit[m] \subseteq votedCommit'[m]
                              /\ acceptedCommit[m] \subseteq acceptedCommit'[m]
           /\ \A m \in Node : m # n =>
                              /\ votedPrepare[m] = votedPrepare'[m]
                              /\ acceptedPrepared[m] = acceptedPrepared'[m]
                              /\ votedCommit[m] = votedCommit'[m]
                              /\ acceptedCommit[m] = acceptedCommit'[m]
  BY AddingGrows DEF TypeOK, Speak

(***************************************************************************)
(* What was aborted or prepared stays so.                                  *)
(***************************************************************************)
LEMMA AbortedStable ==
    ASSUME TypeOK, NEW n \in Node, Speak(n), NEW x, Aborted(x)
    PROVE  Aborted(x)'
  BY SpeakGrows DEF Aborted

\* What a quorum accepted as prepared stays so.
LEMMA PreparedStable ==
    ASSUME TypeOK, NEW n \in Node, Speak(n), NEW x, Prepared(x)
    PROVE  Prepared(x)'
  BY SpeakGrows, QuorumAssumption DEF QuorumAssumption, Prepared

----------------------------------------------------------------------------
(***************************************************************************)
(* One lemma per part of the inductive invariant.                          *)
(*                                                                         *)
(* A new vote to prepare is honest by its rule; a new vote to commit has   *)
(* no vote of the same node against it.                                    *)
(***************************************************************************)
LEMMA VotesAreHonestStep ==
    ASSUME IInv, NEW n \in Node, Speak(n)
    PROVE  VotesAreHonest'
  <1> SUFFICES ASSUME NEW m \in Node,
                      NEW x \in votedCommit'[m], NEW y \in votedPrepare'[m],
                      Aborts(y, x)
               PROVE  Aborted(x)'
    BY DEF VotesAreHonest
  <1>1. TypeOK
    BY DEF IInv
  <1>2. CASE x \in votedCommit[m] /\ y \in votedPrepare[m]
    BY <1>1, <1>2, AbortedStable DEF IInv, VotesAreHonest
  <1>3. CASE x \notin votedCommit[m]
    <2>1. m = n
      BY <1>1, <1>3, SpeakGrows
    <2> QED BY <1>3, <2>1 DEF Speak, MayVoteCommit
  <1>4. CASE x \in votedCommit[m] /\ y \notin votedPrepare[m]
    <2>1. m = n
      BY <1>1, <1>4, SpeakGrows
    <2> QED BY <1>4, <2>1 DEF Speak, MayVotePrepare
  <1> QED BY <1>2, <1>3, <1>4

(***************************************************************************)
(* A quorum that voted against x keeps doing so: its members can no longer *)
(* vote to commit x.  When x is aborted for the first time, the ballot     *)
(* that aborts it was accepted because a quorum voted to prepare it, and   *)
(* no member of it had voted to commit x, by VotesAreHonest.               *)
(***************************************************************************)
LEMMA AbortedByQuorumStep ==
    ASSUME IInv, NEW n \in Node, Speak(n)
    PROVE  AbortedByQuorum'
  <1> DEFINE Against(x, m) == /\ x \notin votedCommit[m]
                              /\ \E y \in votedPrepare[m] : Aborts(y, x)
  <1> SUFFICES ASSUME NEW x \in SlotBallot, Aborted(x)'
               PROVE  \E U \in Quorum : \A m \in U : Against(x, m)'
    BY DEF AbortedByQuorum
  <1>1. TypeOK
    BY DEF IInv
  <1>2. \A U \in Quorum : U \subseteq Node
    BY QuorumAssumption DEF QuorumAssumption
  <1>3. ASSUME NEW m \in Node, Against(x, m)
        PROVE  Against(x, m)'
    <2>1. \E y \in votedPrepare'[m] : Aborts(y, x)
      BY <1>1, <1>3, SpeakGrows
    <2>2. x \notin votedCommit'[m]
      <3>1. CASE m # n
        BY <1>1, <1>3, <3>1, SpeakGrows
      <3>2. CASE m = n
        BY <1>3, <2>1, <3>2 DEF Speak, MayVoteCommit
      <3> QED BY <3>1, <3>2
    <2> QED BY <2>1, <2>2
  <1>4. \E U \in Quorum : \A m \in U : Against(x, m)
    <2>1. CASE Aborted(x)
      BY <2>1 DEF IInv, AbortedByQuorum
    <2>2. CASE ~Aborted(x)
      <3>0. PICK k \in Node : \E y \in acceptedPrepared'[k] : Aborts(y, x)
        BY DEF Aborted
      <3>1. PICK y \in acceptedPrepared'[k] : Aborts(y, x)
        BY <3>0
      <3>2. \A m \in Node : y \notin acceptedPrepared[m]
        BY <2>2, <3>1 DEF Aborted
      <3>3. k = n /\ y \in acceptedPrepared'[n] \ acceptedPrepared[n]
        BY <1>1, <3>1, <3>2, SpeakGrows
      <3>4. MayAcceptPrepared(y)
        BY <3>3 DEF Speak
      <3>5. PICK U \in Quorum : \A m \in U : y \in votedPrepare[m]
        BY <1>2, <3>2, <3>4 DEF MayAcceptPrepared
      <3>6. \A m \in U : x \notin votedCommit[m]
        BY <1>2, <2>2, <3>1, <3>5 DEF IInv, VotesAreHonest
      <3> QED BY <3>1, <3>5, <3>6
    <2> QED BY <2>1, <2>2
  <1> QED BY <1>2, <1>3, <1>4

(***************************************************************************)
(* A decided value stays decided.                                          *)
(***************************************************************************)
LEMMA DecidedStable ==
    ASSUME TypeOK, NEW n \in Node, Speak(n), NEW x, Decided(x)
    PROVE  Decided(x)'
  <1>1. PICK y \in SlotBallot, U \in Quorum :
            /\ areBallotsCompatible(x, y)
            /\ Prepared(y)
            /\ \A m \in U : y \in votedCommit[m]
    BY DEF Decided
  <1>2. Prepared(y)'
    BY <1>1, PreparedStable
  <1>3. \A m \in U : y \in votedCommit'[m]
    BY <1>1, SpeakGrows, QuorumAssumption DEF QuorumAssumption
  <1> QED BY <1>1, <1>2, <1>3 DEF Decided

\* A node has accepted the commit of decided values only.
LEMMA CommittedIsDecided ==
    ASSUME IInv, NEW x, Committed(x)
    PROVE  Decided(x)
  <1>1. PICK m \in Node : \E y \in acceptedCommit[m] : areBallotsCompatible(x, y)
    BY DEF Committed
  <1>a. PICK y \in acceptedCommit[m] : areBallotsCompatible(x, y)
    BY <1>1
  <1>2. PICK z \in SlotBallot :
            /\ areBallotsCompatible(y, z)
            /\ Prepared(z)
            /\ \E U \in Quorum : \A i \in U : z \in votedCommit[i]
    BY DEF IInv, CommitsDecided, Decided
  <1>3. areBallotsCompatible(x, z)
    BY <1>a, <1>2 DEF areBallotsCompatible
  <1> QED BY <1>2, <1>3 DEF Decided

\* A new vote to commit is for a prepared ballot or a decided value.
LEMMA CommitVotesPreparedStep ==
    ASSUME IInv, NEW n \in Node, Speak(n)
    PROVE  CommitVotesPrepared'
  <1> SUFFICES ASSUME NEW m \in Node, NEW x \in votedCommit'[m]
               PROVE  Prepared(x)' \/ Decided(x)'
    BY DEF CommitVotesPrepared
  <1>1. TypeOK
    BY DEF IInv
  <1>2. Prepared(x) \/ Decided(x)
    <2>1. CASE x \in votedCommit[m]
      BY <2>1 DEF IInv, CommitVotesPrepared
    <2>2. CASE x \notin votedCommit[m]
      <3>1. m = n
        BY <1>1, <2>2, SpeakGrows
      <3>2. Prepared(x) \/ Committed(x)
        BY <2>2, <3>1 DEF Speak, MayVoteCommit
      <3> QED BY <3>2, CommittedIsDecided
    <2> QED BY <2>1, <2>2
  <1> QED BY <1>1, <1>2, PreparedStable, DecidedStable

(***************************************************************************)
(* A commit may be accepted of decided values only: a quorum voted for x,  *)
(* which is then prepared or has a decided value, or some node accepted    *)
(* the commit of a ballot with the value of x before.                      *)
(***************************************************************************)
LEMMA MayAcceptDecided ==
    ASSUME IInv, NEW x \in SlotBallot, MayAcceptCommit(x)
    PROVE  Decided(x)
  <1>1. \A U \in Quorum : U \subseteq Node /\ U # {}
    BY QuorumAssumption DEF QuorumAssumption
  <1>2. CASE \E m \in Node : CommitsFrom(m, x)
    <2>1. Committed(x)
      BY <1>2 DEF CommitsFrom, Committed, areBallotsLessAndCompatible,
                  areBallotsCompatible
    <2> QED BY <2>1, CommittedIsDecided
  <1>3. CASE ~ \E m \in Node : CommitsFrom(m, x)
    <2>1. PICK U \in Quorum : \A m \in U : x \in votedCommit[m]
      BY <1>1, <1>3 DEF MayAcceptCommit
    <2>2. PICK m \in U : m \in Node
      BY <1>1
    <2>3. Prepared(x) \/ Decided(x)
      BY <2>1, <2>2 DEF IInv, CommitVotesPrepared
    <2>4. areBallotsCompatible(x, x)
      BY DEF areBallotsCompatible
    <2> QED BY <2>1, <2>3, <2>4 DEF Decided
  <1> QED BY <1>2, <1>3

\* An accepted commit is one of a decided value.
LEMMA CommitsDecidedStep ==
    ASSUME IInv, NEW n \in Node, Speak(n)
    PROVE  CommitsDecided'
  <1> SUFFICES ASSUME NEW k \in Node, NEW x \in acceptedCommit'[k]
               PROVE  Decided(x)'
    BY DEF CommitsDecided
  <1>1. TypeOK /\ TypeOK'
    BY SpeakGrows DEF IInv
  <1>2. x \in SlotBallot
    BY <1>1 DEF TypeOK
  <1>3. Decided(x)
    <2>1. CASE x \in acceptedCommit[k]
      BY <2>1 DEF IInv, CommitsDecided
    <2>2. CASE x \notin acceptedCommit[k]
      <3>1. k = n
        BY <1>1, <2>2, SpeakGrows
      <3>2. MayAcceptCommit(x)
        BY <2>2, <3>1 DEF Speak
      <3> QED BY <1>2, <3>2, MayAcceptDecided
    <2> QED BY <2>1, <2>2
  <1> QED BY <1>1, <1>3, DecidedStable

----------------------------------------------------------------------------
(***************************************************************************)
(* IInv is kept by every step.                                             *)
(***************************************************************************)
LEMMA SpeakKeepsIInv ==
    ASSUME IInv, NEW n \in Node, Speak(n)
    PROVE  IInv'
  <1>1. TypeOK'
    BY SpeakGrows DEF IInv
  <1> QED
    BY <1>1, VotesAreHonestStep, AbortedByQuorumStep, CommitVotesPreparedStep,
       CommitsDecidedStep DEF IInv

\* IInv holds before anybody has voted.
LEMMA InitIInv == Init => IInv
  BY DEF Init, IInv, TypeOK, VotesAreHonest, AbortedByQuorum, Aborted,
         CommitVotesPrepared, CommitsDecided

(***************************************************************************)
(* IInv is an inductive invariant of the rules.                            *)
(***************************************************************************)
THEOREM Invariance == Spec => []IInv
  <1>1. IInv /\ [Next]_vars => IInv'
    <2> SUFFICES ASSUME IInv, [Next]_vars
                 PROVE  IInv'
      OBVIOUS
    <2>1. CASE Next
      BY <2>1, SpeakKeepsIInv DEF Next
    <2>2. CASE UNCHANGED vars
      BY <2>2 DEF vars, IInv, TypeOK, VotesAreHonest, AbortedByQuorum, Aborted,
                  CommitVotesPrepared, Prepared, CommitsDecided, Decided
    <2> QED BY <2>1, <2>2
  <1> QED BY <1>1, InitIInv, PTL DEF Spec

(***************************************************************************)
(* A ballot that a quorum voted to commit is never aborted: behind an      *)
(* aborted ballot stands a quorum that did not vote for it, and the two    *)
(* intersect.                                                              *)
(***************************************************************************)
LEMMA VotedIsNotAborted ==
    ASSUME IInv, NEW x \in SlotBallot, NEW U \in Quorum,
           \A m \in U : x \in votedCommit[m]
    PROVE  ~Aborted(x)
  <1>1. \A Q, R \in Quorum : Q \subseteq Node /\ Q \cap R # {}
    BY QuorumAssumption DEF QuorumAssumption
  <1> SUFFICES ASSUME Aborted(x) PROVE FALSE
    OBVIOUS
  <1>2. PICK R \in Quorum : \A m \in R : x \notin votedCommit[m]
    BY DEF IInv, AbortedByQuorum
  <1> QED BY <1>1, <1>2

\* To prepare y is to abort what y aborts.
LEMMA PreparedAborts ==
    ASSUME NEW y, Prepared(y), NEW x, Aborts(y, x)
    PROVE  Aborted(x)
  BY QuorumAssumption DEF QuorumAssumption, Prepared, Aborted

(***************************************************************************)
(* Two decided values are equal: of two ballots that are prepared and      *)
(* voted for by a quorum, with different values, the higher one would      *)
(* abort the lower one.                                                    *)
(***************************************************************************)
LEMMA DecidedAgree ==
    ASSUME IInv, NEW x, Decided(x), NEW y, Decided(y)
    PROVE  areBallotsCompatible(x, y)
  <1>1. PICK v \in SlotBallot, U \in Quorum :
            /\ areBallotsCompatible(x, v) /\ Prepared(v)
            /\ \A m \in U : v \in votedCommit[m]
    BY DEF Decided
  <1>2. PICK w \in SlotBallot, W \in Quorum :
            /\ areBallotsCompatible(y, w) /\ Prepared(w)
            /\ \A m \in W : w \in votedCommit[m]
    BY DEF Decided
  <1>3. ~Aborted(v) /\ ~Aborted(w)
    BY <1>1, <1>2, VotedIsNotAborted
  <1>4. ~Aborts(w, v) /\ ~Aborts(v, w)
    BY <1>1, <1>2, <1>3, PreparedAborts
  <1>5. areBallotsCompatible(v, w)
    BY <1>4, BallotsOrdered
  <1> QED BY <1>1, <1>2, <1>5 DEF areBallotsCompatible

(***************************************************************************)
(* Once a value is decided, every vote to commit another one is aborted.   *)
(***************************************************************************)
LEMMA DecidedAbortsVotes ==
    ASSUME IInv, NEW x, Decided(x),
           NEW n \in Node, NEW z \in votedCommit[n], ~areBallotsCompatible(x, z)
    PROVE  Aborted(z)
  <1>1. PICK y \in SlotBallot, U \in Quorum :
            /\ areBallotsCompatible(x, y) /\ Prepared(y)
            /\ \A m \in U : y \in votedCommit[m]
    BY DEF Decided
  <1>2. z \in SlotBallot /\ ~areBallotsCompatible(y, z)
    BY <1>1 DEF IInv, TypeOK, areBallotsCompatible
  <1>3. ~Aborted(y)
    BY <1>1, VotedIsNotAborted
  <1>4. Prepared(z)
    <2>1. ~Decided(z)
      BY DecidedAgree
    <2> QED BY <2>1 DEF IInv, CommitVotesPrepared
  <1>5. Aborts(y, z)
    BY <1>2, <1>3, <1>4, PreparedAborts, BallotsOrdered
  <1> QED BY <1>1, <1>5, PreparedAborts

(***************************************************************************)
(* Every ballot accepted as prepared with another value than a decided one *)
(* is below a prepared ballot with the decided value.                      *)
(***************************************************************************)
LEMMA PreparedBelowDecided ==
    ASSUME IInv, NEW x, Decided(x),
           NEW n \in Node, NEW p \in acceptedPrepared[n], ~areBallotsCompatible(x, p)
    PROVE  \E y \in SlotBallot : /\ areBallotsCompatible(x, y)
                                 /\ Prepared(y)
                                 /\ LessOrEqual(p, y)
  <1>1. PICK y \in SlotBallot, U \in Quorum :
            /\ areBallotsCompatible(x, y) /\ Prepared(y)
            /\ \A m \in U : y \in votedCommit[m]
    BY DEF Decided
  <1>2. p \in SlotBallot /\ ~areBallotsCompatible(y, p)
    BY <1>1 DEF IInv, TypeOK, areBallotsCompatible
  <1>3. ~Aborts(p, y)
    BY <1>1, VotedIsNotAborted DEF Aborted
  <1>4. Aborts(y, p)
    BY <1>2, <1>3, BallotsOrdered
  <1> QED BY <1>1, <1>4 DEF Aborts, areBallotsLessAndIncompatible

(***************************************************************************)
(* Agreement: no two nodes accept the commit of ballots with different     *)
(* values.                                                                 *)
(***************************************************************************)
THEOREM Agreement == Spec => []CommitAgreement
  <1>1. IInv => CommitAgreement
    BY DecidedAgree DEF IInv, CommitAgreement, CommitsDecided
  <1> QED BY <1>1, Invariance, PTL
=============================================================================
