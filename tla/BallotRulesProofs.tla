------------------------- MODULE BallotRulesProofs -------------------------
(***************************************************************************)
(* The rules of federated voting and the ballot protocol: what the attempt*)
(* methods do to the local state of a node obeys the rules, given that the *)
(* statements the node knows were recorded in the history of their sender. *)
(***************************************************************************)
EXTENDS BallotVotes, BallotFacts

(***************************************************************************)
(* What a statement says is in the history of the node that made it.       *)
(***************************************************************************)
Recorded(st) ==
    \A x \in SlotBallot :
        /\ VotesPrepared(x, st) => x \in votedPrepare[st.node]
        /\ hasPreparedBallot(x, st) => x \in acceptedPrepared[st.node]
        /\ SaysVotedCommit(x, st) => x \in votedCommit[st.node]
        /\ SaysAcceptedCommit(x, st) => x \in acceptedCommit[st.node]

KnownRecorded ==
    \A n, m \in Node : latest[n][m].node = m /\ Recorded(latest[n][m])

(***************************************************************************)
(* Votes for a ballot, and its acceptance, extend to the ballots below it  *)
(* with the same value.                                                    *)
(***************************************************************************)
DownwardClosed(B) ==
    \A x \in SlotBallot, y \in B : areBallotsLessAndCompatible(x, y) => x \in B

VotesClosed ==
    \A n \in Node : DownwardClosed(votedPrepare[n]) /\ DownwardClosed(acceptedPrepared[n])

(***************************************************************************)
(* What the statement a node recorded last says of all its votes so far.   *)
(***************************************************************************)
VotesBehind(n, st) ==
    /\ \A y \in votedPrepare[n] :
           \/ st.type \in {"CONFIRM", "EXTERNALIZE"}
           \/ st.type = "PREPARE" /\ LessOrEqual(y, st.b)
    /\ \A z \in votedCommit[n] :
           \/ Voting!Aborted(z)
           \/ /\ z.value = st.b.value
              /\ \/ st.type \in {"CONFIRM", "EXTERNALIZE"}
                 \/ /\ st.type = "PREPARE" /\ st.nC # 0
                    /\ st.nC <= z.counter /\ z.counter <= st.nH
    /\ st.type = "PREPARE" /\ st.nC # 0 =>
           \A y \in votedPrepare[n] :
               y.value = st.b.value \/ Less(y, Ballot(st.nC, st.b.value))

(***************************************************************************)
(* What the invariant of federated voting says of a decided value, as      *)
(* FederatedVotingProofs shows: what may be accepted as committed has one, *)
(* votes to commit other values have been aborted, and prepared ballots    *)
(* with another value lie below one with it.                               *)
(***************************************************************************)
DecidedValue ==
    /\ \A x \in SlotBallot : Voting!MayAcceptCommit(x) => Voting!Decided(x)
    /\ \A x : Voting!Decided(x) =>
           \A n \in Node :
               /\ \A z \in votedCommit[n] :
                      areBallotsCompatible(x, z) \/ Voting!Aborted(z)
               /\ \A p \in acceptedPrepared[n] :
                      \/ areBallotsCompatible(x, p)
                      \/ \E y \in SlotBallot : /\ areBallotsCompatible(x, y)
                                              /\ Voting!Prepared(y)
                                              /\ LessOrEqual(p, y)

\* A v-blocking set has a member.
BlockingHasMember == \A n \in Node : <<n, {}>> \notin Blocking

(***************************************************************************)
(* What the votes so far and the statements known to the nodes have to do  *)
(* with one another.                                                       *)
(***************************************************************************)
HInv ==
    /\ TypeOK
    /\ RecordedWellFormed
    /\ Voting!IInv
    /\ DecidedValue
    /\ BlockingHasMember
    /\ KnownRecorded
    /\ VotesClosed
    /\ \A n \in Node : VotesBehind(n, latest[n][n])

----------------------------------------------------------------------------
\* The quorums of the configuration are sets of nodes.
LEMMA QuorumsOfNodes == QuorumSystem \subseteq SUBSET Node
  BY DEF QuorumSystem

\* The rules of federated voting speak of the same ballots as this module.
LEMMA SameVoting ==
    /\ Voting!SlotBallot = SlotBallot
    /\ \A x, y : /\ Voting!areBallotsCompatible(x, y) <=> areBallotsCompatible(x, y)
                 /\ Voting!areBallotsLessAndCompatible(x, y)
                        <=> areBallotsLessAndCompatible(x, y)
                 /\ Voting!Aborts(y, x) <=> areBallotsLessAndIncompatible(x, y)
  <1>1. Voting!SlotBallot = SlotBallot
    BY DEF Voting!SlotBallot, SlotBallot, Voting!Counter, Counter
  <1>2. ASSUME NEW x, NEW y
        PROVE  /\ Voting!areBallotsCompatible(x, y) <=> areBallotsCompatible(x, y)
               /\ Voting!LessOrEqual(x, y) <=> LessOrEqual(x, y)
    BY DEF Voting!areBallotsCompatible, areBallotsCompatible,
           Voting!LessOrEqual, LessOrEqual
  <1>3. ASSUME NEW x, NEW y
        PROVE  /\ Voting!areBallotsLessAndCompatible(x, y)
                      <=> areBallotsLessAndCompatible(x, y)
               /\ Voting!Aborts(y, x) <=> areBallotsLessAndIncompatible(x, y)
    BY <1>2 DEF Voting!areBallotsLessAndCompatible, areBallotsLessAndCompatible,
                Voting!Aborts, areBallotsLessAndIncompatible,
                Voting!areBallotsLessAndIncompatible
  <1> QED BY <1>1, <1>2, <1>3

----------------------------------------------------------------------------
(***************************************************************************)
(* Where a node finds a quorum there is a quorum of the configuration,     *)
(* unless a node in it has externalized and stands for itself.             *)
(***************************************************************************)
LEMMA QuorumFound ==
    ASSUME NEW E \in SUBSET Node, NEW n \in Node, NEW S \in SUBSET Node,
           <<E, n, S>> \in Quorums
    PROVE  S # {} /\ (S \in QuorumSystem \/ \E m \in S : m \in E)
  <1>1. PICK U \in SUBSET S : /\ SelfSufficient(U, QSetIfExternalized(E))
                              /\ isQuorumSlice(QSet[n], U)
    BY DEF Quorums, isQuorum
  <1>2. ASSUME \A m \in S : m \notin E PROVE S \in QuorumSystem
    <2>1. \A m \in U : QSetIfExternalized({})[m] = QSetIfExternalized(E)[m]
      BY <1>2 DEF QSetIfExternalized
    <2>2. SelfSufficient(U, QSetIfExternalized({}))
      BY <1>1, <2>1 DEF SelfSufficient
    <2>3. isQuorum(QSet[n], S, QSetIfExternalized({}))
      BY <1>1, <2>2, Zenon DEF isQuorum
    <2> QED BY <2>3, Zenon DEF QuorumSystem
  <1>3. {} \notin QuorumSystem
    BY QuorumIntersection DEF QuorumIntersection
  <1> QED BY <1>2, <1>3

\* A v-blocking set has a member.
LEMMA BlockingFound ==
    ASSUME HInv, NEW n \in Node, NEW S \in SUBSET Node, <<n, S>> \in Blocking
    PROVE  \E m \in S : TRUE
  <1>1. S # {}
    BY DEF HInv, BlockingHasMember
  <1> QED BY <1>1

\* What a statement a node knows says is in the history of its sender.
LEMMA KnownStatements ==
    ASSUME HInv, NEW n \in Node, NEW m \in Node, latest[n][m].type # "NONE"
    PROVE  /\ latest[n][m] \in SCPStatement /\ WellFormed(latest[n][m])
           /\ \A x \in SlotBallot :
                /\ VotesPrepared(x, latest[n][m]) => x \in votedPrepare[m]
                /\ hasPreparedBallot(x, latest[n][m]) => x \in acceptedPrepared[m]
                /\ SaysVotedCommit(x, latest[n][m]) => x \in votedCommit[m]
                /\ SaysAcceptedCommit(x, latest[n][m]) => x \in acceptedCommit[m]
  <1>1. latest[n][m] \in SCPStatement /\ WellFormed(latest[n][m])
    BY DEF HInv, TypeOK, RecordedWellFormed
  <1>2. latest[n][m].node = m /\ Recorded(latest[n][m])
    BY DEF HInv, KnownRecorded
  <1> QED BY <1>1, <1>2 DEF Recorded

\* attemptPreparedAccept obeys the rule for accepting a ballot as prepared.
LEMMA acceptsPreparedRule ==
    ASSUME HInv, NEW n \in Node, NEW x \in SlotBallot, acceptsPrepared(n, x)
    PROVE  Voting!MayAcceptPrepared(x)
  <1> DEFINE A == {m \in Node : /\ latest[n][m].type # "NONE"
                                /\ hasPreparedBallot(x, latest[n][m])}
             V == {m \in Node : /\ latest[n][m].type # "NONE"
                                /\ \/ hasPreparedBallot(x, latest[n][m])
                                   \/ VotesPrepared(x, latest[n][m])}
  <1>1. <<n, A>> \in Blocking \/ <<SeenExternalized(n), n, V>> \in Quorums
    BY DEF acceptsPrepared, federatedAccept, Saying
  <1>2. CASE <<n, A>> \in Blocking
    <2>1. PICK m \in A : TRUE
      BY <1>2, BlockingFound
    <2>2. x \in acceptedPrepared[m]
      BY <2>1, KnownStatements
    <2> QED BY <2>2 DEF Voting!MayAcceptPrepared
  <1>3. CASE <<SeenExternalized(n), n, V>> \in Quorums
    <2>1. V \in QuorumSystem \/ \E m \in V : m \in SeenExternalized(n)
      BY <1>3, QuorumFound, Zenon DEF SeenExternalized
    <2>2. CASE V \in QuorumSystem
      <3>1. \A m \in V : x \in votedPrepare[m] \cup acceptedPrepared[m]
        BY KnownStatements
      <3> QED BY <2>2, <3>1 DEF Voting!MayAcceptPrepared
    <2>3. CASE \E m \in V : m \in SeenExternalized(n)
      <3>1. PICK m \in V : latest[n][m].type = "EXTERNALIZE"
        BY <2>3 DEF SeenExternalized
      <3>2. hasPreparedBallot(x, latest[n][m])
        BY <3>1 DEF hasPreparedBallot, VotesPrepared
      <3>3. x \in acceptedPrepared[m]
        BY <3>1, <3>2, KnownStatements
      <3> QED BY <3>3 DEF Voting!MayAcceptPrepared
    <2> QED BY <2>1, <2>2, <2>3
  <1> QED BY <1>1, <1>2, <1>3

\* An EXTERNALIZE accepts the commit of its ballot, a CONFIRM that of nC..nH.
LEMMA CommitStatements ==
    ASSUME HInv, NEW n \in Node, NEW m \in Node,
           latest[n][m].type \in {"CONFIRM", "EXTERNALIZE"}
    PROVE  LET st == latest[n][m]
               y == IF st.type = "CONFIRM" THEN Ballot(st.nC, st.b.value) ELSE st.b
           IN  /\ y \in SlotBallot /\ y \in acceptedCommit[m]
               /\ y.value = st.b.value
               /\ st.type = "CONFIRM" => y.counter = st.nC
  <1> DEFINE st == latest[n][m]
             y == IF st.type = "CONFIRM" THEN Ballot(st.nC, st.b.value) ELSE st.b
  <1>1. st \in SCPStatement /\ WellFormed(st)
    BY KnownStatements
  <1>2. /\ st.b \in SlotBallot /\ st.b.value \in Value /\ st.b.counter \in Nat
        /\ st.nC \in Counter /\ st.nC \in Nat /\ st.nH \in Nat
    BY <1>1, WellFormedValue, StatementTypes, BallotTypes, NumberTypes, Zenon
  <1>3. st.type = "CONFIRM" => st.nC # 0 /\ st.nC <= st.nH
    BY <1>1, Zenon DEF WellFormed, isStatementSane, isConfirmSane
  <1>4. y \in SlotBallot /\ y.value = st.b.value /\ (st.type = "CONFIRM" => y.counter = st.nC)
    BY <1>2, <1>3 DEF Ballot, SlotBallot
  <1>5. SaysAcceptedCommit(y, st)
    BY <1>2, <1>3 DEF SaysAcceptedCommit, commitPredicate, Ballot
  <1>6. y \in acceptedCommit[m]
    BY <1>4, <1>5, KnownStatements
  <1> QED BY <1>4, <1>6

\* attemptPreparedConfirmed obeys the rule for what may be voted to commit.
LEMMA ratifiesPreparedRule ==
    ASSUME HInv, NEW n \in Node, NEW x \in SCPBallot, ratifiesPrepared(n, x)
    PROVE  x \in SlotBallot /\ (Voting!Prepared(x) \/ Voting!Committed(x))
  <1> DEFINE A == {m \in Node : /\ latest[n][m].type # "NONE"
                                /\ hasPreparedBallot(x, latest[n][m])}
  <1>1. <<SeenExternalized(n), n, A>> \in Quorums
    BY DEF ratifiesPrepared, federatedRatify, Saying
  <1>2. A # {} /\ (A \in QuorumSystem \/ \E m \in A : m \in SeenExternalized(n))
    BY <1>1, QuorumFound, Zenon DEF SeenExternalized
  <1>3. x \in SlotBallot
    <2>1. PICK m \in A : TRUE
      BY <1>2
    <2> DEFINE st == latest[n][m]
    <2>2. st \in SCPStatement /\ WellFormed(st) /\ hasPreparedBallot(x, st)
      BY <2>1, KnownStatements
    <2>3. /\ Present(st.p) => st.p.value \in Value
          /\ Present(st.pp) => st.pp.value \in Value
          /\ st.type # "PREPARE" => st.b.value \in Value
      BY <2>2, StatementTypes, BallotTypes, WellFormedValue, Zenon
    <2> HIDE DEF st
    <2>4. x.value \in Value
      BY <2>2, <2>3 DEF hasPreparedBallot, areBallotsLessAndCompatible,
                        areBallotsCompatible, Ballot
    <2> QED BY <2>4, BallotTypes, NumberTypes
  <1>4. CASE A \in QuorumSystem
    <2>1. \A m \in A : x \in acceptedPrepared[m]
      BY <1>3, KnownStatements
    <2> QED BY <1>3, <1>4, <2>1 DEF Voting!Prepared
  <1>5. CASE \E m \in A : m \in SeenExternalized(n)
    <2>1. PICK m \in A : latest[n][m].type = "EXTERNALIZE"
      BY <1>5 DEF SeenExternalized
    <2>2. areBallotsCompatible(x, latest[n][m].b)
      BY <2>1 DEF hasPreparedBallot
    <2>3. latest[n][m].b \in acceptedCommit[m]
      BY <2>1, CommitStatements
    <2>4. Voting!areBallotsCompatible(x, latest[n][m].b)
      BY <2>2, SameVoting
    <2> QED BY <1>3, <2>3, <2>4 DEF Voting!Committed
  <1> QED BY <1>2, <1>3, <1>4, <1>5

\* attemptAcceptCommit obeys the rule for accepting a commit.
LEMMA acceptsCommitRule ==
    ASSUME HInv, NEW n \in Node, NEW v, NEW i, acceptsCommit(n, v, i),
           i[1] \in Nat, i[2] \in Nat,
           NEW x \in SlotBallot, x.value = v, i[1] <= x.counter, x.counter <= i[2]
    PROVE  Voting!MayAcceptCommit(x)
  <1> DEFINE lo == i[1]
             hi == i[2]
             A == {m \in Node : /\ latest[n][m].type # "NONE"
                                /\ commitPredicate(v, lo, hi, latest[n][m])}
             V == {m \in Node : /\ latest[n][m].type # "NONE"
                                /\ \/ commitPredicate(v, lo, hi, latest[n][m])
                                   \/ VotesCommit(v, lo, hi, latest[n][m])}
  <1>1. <<n, A>> \in Blocking \/ <<SeenExternalized(n), n, V>> \in Quorums
    BY DEF acceptsCommit, federatedAccept, Saying
  <1>2. x.counter \in Nat /\ x.value \in Nat
    BY BallotTypes DEF SCPBallot
  <1>3. ASSUME NEW m \in Node, latest[n][m].type \in {"CONFIRM", "EXTERNALIZE"},
               \/ commitPredicate(v, lo, hi, latest[n][m])
               \/ VotesCommit(v, lo, hi, latest[n][m])
        PROVE  Voting!CommitsFrom(m, x)
    <2> DEFINE st == latest[n][m]
               y == IF st.type = "CONFIRM" THEN Ballot(st.nC, st.b.value) ELSE st.b
    <2>1. /\ y \in SlotBallot /\ y \in acceptedCommit[m] /\ y.value = st.b.value
          /\ st.type = "CONFIRM" => y.counter = st.nC
          /\ st.type # "CONFIRM" => y = st.b
      BY <1>3, CommitStatements, Zenon
    <2>2. y.counter \in Nat /\ st.b.value = v /\ y.counter <= lo
      BY <1>3, <2>1, BallotTypes, Zenon DEF SCPBallot, commitPredicate, VotesCommit
    <2> HIDE DEF y
    <2>3. areBallotsLessAndCompatible(y, x)
      BY <1>2, <2>1, <2>2 DEF areBallotsLessAndCompatible, LessOrEqual, areBallotsCompatible
    <2> QED BY <2>1, <2>3, SameVoting DEF Voting!CommitsFrom
  <1>4. CASE <<n, A>> \in Blocking
    <2>1. PICK m \in A : TRUE
      BY <1>4, BlockingFound
    <2>2. Voting!CommitsFrom(m, x)
      BY <1>3, <2>1 DEF commitPredicate
    <2> QED BY <2>2 DEF Voting!MayAcceptCommit
  <1>5. CASE <<SeenExternalized(n), n, V>> \in Quorums
    <2>1. V \in QuorumSystem \/ \E m \in V : m \in SeenExternalized(n)
      BY <1>5, QuorumFound, Zenon DEF SeenExternalized
    <2>2. CASE V \in QuorumSystem
      <3>1. ASSUME NEW m \in V PROVE x \in votedCommit[m] \/ Voting!CommitsFrom(m, x)
        <4>1. CASE latest[n][m].type \in {"CONFIRM", "EXTERNALIZE"}
          BY <1>3, <4>1
        <4>2. CASE latest[n][m].type \notin {"CONFIRM", "EXTERNALIZE"}
          <5> DEFINE st == latest[n][m]
          <5>1. /\ st.type = "PREPARE" /\ st.b.value = v
                /\ st.nC # 0 /\ st.nC <= lo /\ hi <= st.nH
            BY <4>2 DEF commitPredicate, VotesCommit
          <5>2. st \in SCPStatement
            BY KnownStatements
          <5>3. st.nC \in Nat /\ st.nH \in Nat
            BY <5>2, StatementTypes, NumberTypes
          <5>4. SaysVotedCommit(x, st)
            BY <1>2, <5>1, <5>3 DEF SaysVotedCommit, VotesCommit
          <5> QED BY <5>1, <5>4, KnownStatements
        <4> QED BY <4>1, <4>2
      <3> QED BY <2>2, <3>1 DEF Voting!MayAcceptCommit
    <2>3. CASE \E m \in V : m \in SeenExternalized(n)
      <3>1. PICK m \in V : latest[n][m].type = "EXTERNALIZE"
        BY <2>3 DEF SeenExternalized
      <3>2. Voting!CommitsFrom(m, x)
        BY <1>3, <3>1
      <3> QED BY <3>2 DEF Voting!MayAcceptCommit
    <2> QED BY <2>1, <2>2, <2>3
  <1> QED BY <1>1, <1>4, <1>5

\* attemptConfirmCommit obeys the rules for all an EXTERNALIZE says.
LEMMA ratifiesCommitRule ==
    ASSUME HInv, NEW n \in Node, NEW v, NEW i, ratifiesCommit(n, v, i),
           i[1] \in Nat, i[2] \in Nat, i[1] <= i[2],
           NEW x \in SlotBallot, x.value = v
    PROVE  /\ Voting!MayAcceptPrepared(x)
           /\ i[1] <= x.counter => Voting!MayAcceptCommit(x)
  <1> DEFINE lo == i[1]
             hi == i[2]
             A == {m \in Node : /\ latest[n][m].type # "NONE"
                                /\ commitPredicate(v, lo, hi, latest[n][m])}
  <1>1. <<SeenExternalized(n), n, A>> \in Quorums
    BY DEF ratifiesCommit, federatedRatify, Saying
  <1>2. A # {} /\ (A \in QuorumSystem \/ \E m \in A : m \in SeenExternalized(n))
    BY <1>1, QuorumFound, Zenon DEF SeenExternalized
  <1>3. x.counter \in Nat /\ x.value \in Nat
    BY BallotTypes DEF SCPBallot
  <1>4. ASSUME NEW m \in A, lo <= x.counter PROVE Voting!CommitsFrom(m, x)
    <2> DEFINE st == latest[n][m]
               y == IF st.type = "CONFIRM" THEN Ballot(st.nC, st.b.value) ELSE st.b
    <2>0. st.type \in {"CONFIRM", "EXTERNALIZE"}
      BY DEF commitPredicate
    <2>1. /\ y \in SlotBallot /\ y \in acceptedCommit[m] /\ y.value = st.b.value
          /\ st.type = "CONFIRM" => y.counter = st.nC
          /\ st.type # "CONFIRM" => y = st.b
      BY <2>0, CommitStatements, ZenonT(30)
    <2>2. y.counter \in Nat /\ st.b.value = v /\ y.counter <= lo
      BY <2>1, BallotTypes, Zenon DEF SCPBallot, commitPredicate
    <2> HIDE DEF y
    <2>3. areBallotsLessAndCompatible(y, x)
      BY <1>3, <1>4, <2>1, <2>2 DEF areBallotsLessAndCompatible, LessOrEqual, areBallotsCompatible
    <2> QED BY <2>1, <2>3, SameVoting DEF Voting!CommitsFrom
  <1>5. ASSUME NEW m \in A
        PROVE  /\ x \in votedPrepare[m]
               /\ m \in SeenExternalized(n) => x \in acceptedPrepared[m]
    <2> DEFINE st == latest[n][m]
    <2>1. st.type \in {"CONFIRM", "EXTERNALIZE"} /\ areBallotsCompatible(x, st.b)
      BY DEF commitPredicate, areBallotsCompatible
    <2>2. VotesPrepared(x, st) /\ (st.type = "EXTERNALIZE" => hasPreparedBallot(x, st))
      BY <2>1 DEF VotesPrepared, hasPreparedBallot
    <2> QED BY <2>1, <2>2, KnownStatements DEF SeenExternalized
  <1>6. Voting!MayAcceptPrepared(x)
    BY <1>2, <1>5 DEF Voting!MayAcceptPrepared
  <1>7. lo <= x.counter => Voting!MayAcceptCommit(x)
    BY <1>2, <1>4 DEF Voting!MayAcceptCommit
  <1> QED BY <1>6, <1>7

----------------------------------------------------------------------------
(***************************************************************************)
(* What a step may change in the local state of node n, in terms of the    *)
(* votes so far: u is the new state.  Within PREPARE, a ballot is accepted *)
(* as prepared by the rule, c and h are raised to ballots that are         *)
(* confirmed prepared, and c is only dropped when h is aborted.            *)
(***************************************************************************)
Confirmable(x) == Voting!Prepared(x) \/ Voting!Committed(x)

AllowedInPrepare(n, u) ==
    LET s == local[n]
    IN  /\ u.phase = "PREPARE" /\ s.phase = "PREPARE"
        /\ \A y \in {u.p, u.pp} :
               Present(y) => y \in {s.p, s.pp} \/ Voting!MayAcceptPrepared(y)
        /\ Present(u.c) =>
               \/ /\ u.c = s.c
                  /\ u.h = s.h \/ (Less(s.h, u.h) /\ Confirmable(u.h))
               \/ ~Present(s.c) /\ ~Less(u.c, s.b) /\ Confirmable(u.h)
        /\ Present(s.c) /\ ~Present(u.c) =>
               \E y \in {u.p, u.pp} :
                   Present(y) /\ areBallotsLessAndIncompatible(s.h, y)

(***************************************************************************)
(* In CONFIRM all between c and h may be accepted as committed.  A node    *)
(* that moves to CONFIRM keeps p, whatever its value.                      *)
(***************************************************************************)
AllowedInConfirm(n, u) ==
    LET s == local[n]
    IN  /\ u.phase = "CONFIRM" /\ s.phase \in {"PREPARE", "CONFIRM"}
        /\ s.phase = "CONFIRM" => u.c.value = s.c.value
        /\ \/ u.p = s.p
           \/ Voting!MayAcceptPrepared(u.p) /\ areBallotsCompatible(u.c, u.p)
        /\ \/ s.phase = "CONFIRM" /\ u.c = s.c /\ u.h = s.h
           \/ \A x \in SlotBallot :
                  /\ x.value = u.c.value
                  /\ u.c.counter <= x.counter /\ x.counter <= u.h.counter
                  => Voting!MayAcceptCommit(x)

AllowedInExternalize(n, u) ==
    LET s == local[n]
    IN  /\ u.phase = "EXTERNALIZE" /\ s.phase = "CONFIRM"
        /\ u.c.value = s.c.value
        /\ \A x \in SlotBallot : x.value = u.c.value =>
               /\ Voting!MayAcceptPrepared(x)
               /\ u.c.counter <= x.counter => Voting!MayAcceptCommit(x)

Allowed(n, u) ==
    AllowedInPrepare(n, u) \/ AllowedInConfirm(n, u) \/ AllowedInExternalize(n, u)

(***************************************************************************)
(* Node n records a new statement st of its own, made from the state u.    *)
(***************************************************************************)
RecordsNew(n, u, st) ==
    /\ Reflects(n, local[n], latest[n][n])
    /\ checkInvariants(u)
    /\ st = createStatement(n, u)
    /\ isNewerStatement(latest[n][n], st)
    /\ latest'[n][n] = st
    /\ Collect(n)

\* What the new votes must satisfy.
Obeys(n) ==
    /\ \A x \in votedPrepare'[n] \ votedPrepare[n] : Voting!MayVotePrepare(n, x)
    /\ \A x \in acceptedPrepared'[n] \ acceptedPrepared[n] : Voting!MayAcceptPrepared(x)
    /\ \A x \in votedCommit'[n] \ votedCommit[n] : Voting!MayVoteCommit(n, x)
    /\ \A x \in acceptedCommit'[n] \ acceptedCommit[n] : Voting!MayAcceptCommit(x)

\* Collect adds what the statement says to the votes of its node.
LEMMA Collected ==
    ASSUME Voting!TypeOK, NEW n \in Node, Collect(n), NEW st, st = latest'[n][n]
    PROVE  /\ votedPrepare' \in Voting!Adding(votedPrepare, n)
           /\ acceptedPrepared' \in Voting!Adding(acceptedPrepared, n)
           /\ votedCommit' \in Voting!Adding(votedCommit, n)
           /\ acceptedCommit' \in Voting!Adding(acceptedCommit, n)
           /\ \A x : /\ x \in votedPrepare'[n]
                            <=> \/ x \in votedPrepare[n]
                                \/ x \in SlotBallot /\ VotesPrepared(x, st)
                     /\ x \in acceptedPrepared'[n]
                            <=> \/ x \in acceptedPrepared[n]
                                \/ x \in SlotBallot /\ hasPreparedBallot(x, st)
                     /\ x \in votedCommit'[n]
                            <=> \/ x \in votedCommit[n]
                                \/ x \in SlotBallot /\ SaysVotedCommit(x, st)
                     /\ x \in acceptedCommit'[n]
                            <=> \/ x \in acceptedCommit[n]
                                \/ x \in SlotBallot /\ SaysAcceptedCommit(x, st)
           /\ \A m \in Node : m # n =>
                     /\ votedPrepare'[m] = votedPrepare[m]
                     /\ acceptedPrepared'[m] = acceptedPrepared[m]
                     /\ votedCommit'[m] = votedCommit[m]
                     /\ acceptedCommit'[m] = acceptedCommit[m]
  <1> DEFINE A == {x \in SlotBallot : st.type # "NONE" /\ VotesPrepared(x, st)}
             B == {x \in SlotBallot : st.type # "NONE" /\ hasPreparedBallot(x, st)}
             C == {x \in SlotBallot : st.type # "NONE" /\ SaysVotedCommit(x, st)}
             D == {x \in SlotBallot : st.type # "NONE" /\ SaysAcceptedCommit(x, st)}
  <1>1. /\ votedPrepare' = [votedPrepare EXCEPT ![n] = @ \cup A]
        /\ acceptedPrepared' = [acceptedPrepared EXCEPT ![n] = @ \cup B]
        /\ votedCommit' = [votedCommit EXCEPT ![n] = @ \cup C]
        /\ acceptedCommit' = [acceptedCommit EXCEPT ![n] = @ \cup D]
    BY DEF Collect, Said
  <1>2. \A x : /\ x \in A <=> x \in SlotBallot /\ VotesPrepared(x, st)
               /\ x \in B <=> x \in SlotBallot /\ hasPreparedBallot(x, st)
               /\ x \in C <=> x \in SlotBallot /\ SaysVotedCommit(x, st)
               /\ x \in D <=> x \in SlotBallot /\ SaysAcceptedCommit(x, st)
    BY DEF VotesPrepared, hasPreparedBallot, SaysVotedCommit, SaysAcceptedCommit,
           commitPredicate
  <1>3. /\ A \in SUBSET Voting!SlotBallot /\ B \in SUBSET Voting!SlotBallot
        /\ C \in SUBSET Voting!SlotBallot /\ D \in SUBSET Voting!SlotBallot
    BY SameVoting
  <1> HIDE DEF A, B, C, D
  <1>4. /\ votedPrepare' \in Voting!Adding(votedPrepare, n)
        /\ acceptedPrepared' \in Voting!Adding(acceptedPrepared, n)
        /\ votedCommit' \in Voting!Adding(votedCommit, n)
        /\ acceptedCommit' \in Voting!Adding(acceptedCommit, n)
    BY <1>1, <1>3, Zenon DEF Voting!Adding
  <1>5. /\ votedPrepare'[n] = votedPrepare[n] \cup A
        /\ acceptedPrepared'[n] = acceptedPrepared[n] \cup B
        /\ votedCommit'[n] = votedCommit[n] \cup C
        /\ acceptedCommit'[n] = acceptedCommit[n] \cup D
    BY <1>1 DEF Voting!TypeOK
  <1>6. \A m \in Node : m # n =>
                     /\ votedPrepare'[m] = votedPrepare[m]
                     /\ acceptedPrepared'[m] = acceptedPrepared[m]
                     /\ votedCommit'[m] = votedCommit[m]
                     /\ acceptedCommit'[m] = acceptedCommit[m]
    BY <1>1 DEF Voting!TypeOK
  <1> QED BY <1>2, <1>4, <1>5, <1>6

\* Being prepared or committed extends to lower ballots with the same value.
LEMMA PreparedDownward ==
    ASSUME HInv, NEW x \in SlotBallot, NEW y, areBallotsLessAndCompatible(x, y)
    PROVE  /\ Voting!MayAcceptPrepared(y) => Voting!MayAcceptPrepared(x)
           /\ Voting!Prepared(y) => Voting!Prepared(x)
           /\ Confirmable(y) => Confirmable(x)
           /\ \A n \in Node : /\ y \in acceptedPrepared[n] => x \in acceptedPrepared[n]
                              /\ y \in votedPrepare[n] => x \in votedPrepare[n]
  <1>1. \A n \in Node : /\ y \in votedPrepare[n] => x \in votedPrepare[n]
                        /\ y \in acceptedPrepared[n] => x \in acceptedPrepared[n]
    BY DEF HInv, VotesClosed, DownwardClosed
  <1>2. QuorumSystem \subseteq SUBSET Node
    BY QuorumsOfNodes
  <1>3. Voting!MayAcceptPrepared(y) => Voting!MayAcceptPrepared(x)
    BY <1>1, <1>2 DEF Voting!MayAcceptPrepared
  <1>4. Voting!Prepared(y) => Voting!Prepared(x)
    BY <1>1, <1>2 DEF Voting!Prepared
  <1>5. Voting!Committed(y) => Voting!Committed(x)
    BY DEF Voting!Committed, Voting!areBallotsCompatible, areBallotsLessAndCompatible,
           areBallotsCompatible
  <1> QED BY <1>1, <1>3, <1>4, <1>5 DEF Confirmable

(***************************************************************************)
(* The statement a node has recorded for itself has the ballots of its     *)
(* local state, and what it says is in the node's history.                 *)
(***************************************************************************)
LEMMA OwnStatement ==
    ASSUME HInv, NEW n \in Node, Reflects(n, local[n], latest[n][n])
    PROVE  LET s == local[n]
               old == latest[n][n]
           IN  /\ s \in LocalState /\ checkInvariants(s) /\ old \in SCPStatement
               /\ s.phase # "EXTERNALIZE" => old.b = s.b
               /\ s.phase = "PREPARE" =>
                      /\ old.type \in {"NONE", "PREPARE"}
                      /\ old.type = "NONE" => ~Present(s.b) /\ ~Present(s.p) /\ ~Present(s.pp)
                                              /\ ~Present(s.c)
                      /\ old.p = s.p /\ old.pp = s.pp
                      /\ old.nC = s.c.counter /\ old.nH = s.h.counter
               /\ s.phase = "CONFIRM" =>
                      /\ old.type = "CONFIRM"
                      /\ old.nP = s.p.counter
                      /\ old.nC = s.c.counter /\ old.nH = s.h.counter
               /\ s.phase = "EXTERNALIZE" => old.type = "EXTERNALIZE"
               /\ VotesBehind(n, old)
               /\ old.type # "NONE" =>
                  \A x \in SlotBallot :
                    /\ VotesPrepared(x, old) => x \in votedPrepare[n]
                    /\ hasPreparedBallot(x, old) => x \in acceptedPrepared[n]
                    /\ SaysVotedCommit(x, old) => x \in votedCommit[n]
                    /\ SaysAcceptedCommit(x, old) => x \in acceptedCommit[n]
  <1> DEFINE s == local[n]
             old == latest[n][n]
  <1>1. /\ s \in LocalState /\ old \in SCPStatement /\ Reflects(n, s, old)
        /\ VotesBehind(n, old)
    BY DEF HInv, TypeOK
  <1>2. s.phase \in StatementType
    BY <1>1 DEF LocalState
  <1>3. old.type # "NONE" =>
            \A x \in SlotBallot :
                    /\ VotesPrepared(x, old) => x \in votedPrepare[n]
                    /\ hasPreparedBallot(x, old) => x \in acceptedPrepared[n]
                    /\ SaysVotedCommit(x, old) => x \in votedCommit[n]
                    /\ SaysAcceptedCommit(x, old) => x \in acceptedCommit[n]
    BY KnownStatements
  <1> HIDE DEF s, old
  <1>4. CASE old = NoStatement(n) /\ Empty(s)
    <2>1. /\ old.type = "NONE" /\ s.phase = "PREPARE"
          /\ old.b = s.b /\ old.p = s.p /\ old.pp = s.pp
          /\ old.nC = s.c.counter /\ old.nH = s.h.counter
          /\ ~Present(s.b) /\ ~Present(s.p) /\ ~Present(s.pp)
          /\ ~Present(s.c) /\ ~Present(s.h)
      BY <1>4 DEF NoStatement, Empty, NoBallot, Ballot, Present
    <2>2. checkInvariants(s)
      BY <2>1 DEF checkInvariants
    <2> QED BY <1>1, <1>3, <2>1, <2>2, Zenon DEF s, old
  <1>5. CASE old = createStatement(n, s) /\ checkInvariants(s)
    <2>1. CASE s.phase = "PREPARE"
      <3>1. old = Prepare(n, s.b, s.p, s.pp, s.c.counter, s.h.counter)
        BY <1>5, <2>1 DEF createStatement
      <3>2. /\ old.type = "PREPARE" /\ old.b = s.b /\ old.p = s.p /\ old.pp = s.pp
            /\ old.nC = s.c.counter /\ old.nH = s.h.counter
        BY <3>1 DEF Prepare
      <3> QED BY <1>1, <1>3, <1>5, <2>1, <3>2, Zenon DEF s, old
    <2>2. CASE s.phase = "CONFIRM"
      <3>1. old = Confirm(n, s.b, s.p.counter, s.c.counter, s.h.counter)
        BY <1>5, <2>2 DEF createStatement
      <3>2. /\ old.type = "CONFIRM" /\ old.b = s.b /\ old.nP = s.p.counter
            /\ old.nC = s.c.counter /\ old.nH = s.h.counter
        BY <3>1, Zenon DEF Confirm
      <3> QED BY <1>1, <1>3, <1>5, <2>2, <3>2, Zenon DEF s, old
    <2>3. CASE s.phase = "EXTERNALIZE"
      <3>1. old = Externalize(n, s.c, s.h.counter)
        BY <1>5, <2>3 DEF createStatement
      <3>2. old.type = "EXTERNALIZE"
        BY <3>1, Zenon DEF Externalize
      <3> QED BY <1>1, <1>3, <1>5, <2>3, <3>2 DEF s, old
    <2> QED BY <1>2, <2>1, <2>2, <2>3, Zenon DEF StatementType
  <1> QED BY <1>1, <1>4, <1>5, Zenon DEF Reflects

\* Aborted ballots stay aborted when a node collects votes.
LEMMA AbortedGrows ==
    ASSUME Voting!TypeOK, NEW n \in Node, Collect(n), NEW z
    PROVE  /\ Voting!Aborted(z) => Voting!Aborted(z)'
           /\ \A y \in acceptedPrepared'[n] :
                  areBallotsLessAndIncompatible(z, y) => Voting!Aborted(z)'
  <1>1. \A m \in Node : acceptedPrepared[m] \subseteq acceptedPrepared'[m]
    BY Collected
  <1>2. \A y : Voting!Aborts(y, z) <=> areBallotsLessAndIncompatible(z, y)
    BY SameVoting
  <1>3. Voting!Aborted(z)'
            <=> \E m \in Node : \E y \in acceptedPrepared'[m] : Voting!Aborts(y, z)
    BY DEF Voting!Aborted, Voting!Aborts, Voting!areBallotsLessAndIncompatible,
           Voting!LessOrEqual, Voting!areBallotsCompatible
  <1> QED BY <1>1, <1>2, <1>3 DEF Voting!Aborted

----------------------------------------------------------------------------
(***************************************************************************)
(* A new PREPARE obeys the rules.                                          *)
(***************************************************************************)
LEMMA PrepareObeys ==
    ASSUME HInv, NEW n \in Node, NEW u \in LocalState, NEW st,
           RecordsNew(n, u, st), AllowedInPrepare(n, u)
    PROVE  Obeys(n) /\ VotesBehind(n, latest[n][n])'
  <1> DEFINE s == local[n]
             old == latest[n][n]
  <1>1. /\ Voting!TypeOK /\ Collect(n) /\ st = latest'[n][n]
        /\ checkInvariants(u)
    BY DEF HInv, Voting!IInv, RecordsNew
  <1>2. /\ s \in LocalState /\ checkInvariants(s) /\ old \in SCPStatement
        /\ s.phase = "PREPARE" /\ u.phase = "PREPARE" /\ old.b = s.b
        /\ old.type \in {"NONE", "PREPARE"}
        /\ old.p = s.p /\ old.pp = s.pp
        /\ old.nC = s.c.counter /\ old.nH = s.h.counter
        /\ VotesBehind(n, old)
    BY OwnStatement, Zenon DEF RecordsNew, AllowedInPrepare
  <1>3. old.type = "NONE" => ~Present(s.b) /\ ~Present(s.p) /\ ~Present(s.pp) /\ ~Present(s.c)
    BY <1>2, OwnStatement, Zenon DEF RecordsNew
  <1>4. old.type # "NONE" =>
            \A x \in SlotBallot :
                    /\ hasPreparedBallot(x, old) => x \in acceptedPrepared[n]
                    /\ SaysVotedCommit(x, old) => x \in votedCommit[n]
    BY OwnStatement, Zenon DEF RecordsNew
  <1>5. st = Prepare(n, u.b, u.p, u.pp, u.c.counter, u.h.counter)
    BY <1>2 DEF RecordsNew, createStatement
  <1>6. /\ st.type = "PREPARE" /\ st.b = u.b /\ st.p = u.p /\ st.pp = u.pp
        /\ st.nC = u.c.counter /\ st.nH = u.h.counter
    BY <1>5 DEF Prepare
  <1>7. /\ s.b \in SCPBallot /\ s.p \in SCPBallot /\ s.pp \in SCPBallot
        /\ s.c \in SCPBallot /\ s.h \in SCPBallot
        /\ u.b \in SCPBallot /\ u.p \in SCPBallot /\ u.pp \in SCPBallot
        /\ u.c \in SCPBallot /\ u.h \in SCPBallot
        /\ s.b.counter \in Nat /\ s.c.counter \in Nat /\ s.h.counter \in Nat
        /\ u.b.counter \in Nat /\ u.c.counter \in Nat /\ u.h.counter \in Nat
        /\ s.b.value \in Nat /\ s.c.value \in Nat /\ s.h.value \in Nat
        /\ u.b.value \in Nat /\ u.c.value \in Nat /\ u.h.value \in Nat
    BY <1>2, LocalBallots
  <1>8. /\ \A y \in {u.p, u.pp} :
               Present(y) => y \in {s.p, s.pp} \/ Voting!MayAcceptPrepared(y)
        /\ Present(u.c) =>
               \/ /\ u.c = s.c
                  /\ u.h = s.h \/ (Less(s.h, u.h) /\ Confirmable(u.h))
               \/ ~Present(s.c) /\ ~Less(u.c, s.b) /\ Confirmable(u.h)
        /\ Present(s.c) /\ ~Present(u.c) =>
               \E y \in {u.p, u.pp} :
                   Present(y) /\ areBallotsLessAndIncompatible(s.h, y)
    BY DEF AllowedInPrepare
  <1>9. isNewerStatement(old, st)
    BY DEF RecordsNew
  <1>10. /\ \A y \in votedPrepare[n] : old.type = "PREPARE" /\ LessOrEqual(y, s.b)
         /\ \A z \in votedCommit[n] :
              \/ Voting!Aborted(z)
              \/ /\ z.value = s.b.value /\ old.type = "PREPARE" /\ s.c.counter # 0
                 /\ s.c.counter <= z.counter /\ z.counter <= s.h.counter
         /\ old.type = "PREPARE" /\ s.c.counter # 0 =>
              \A y \in votedPrepare[n] :
                  y.value = s.b.value \/ Less(y, Ballot(s.c.counter, s.b.value))
    BY <1>2, Zenon DEF VotesBehind
  <1>11. /\ votedPrepare[n] \subseteq SlotBallot /\ votedCommit[n] \subseteq SlotBallot
    BY <1>1, SameVoting, Zenon DEF Voting!TypeOK
  <1>12. \A x : /\ x \in votedPrepare'[n]
                       <=> \/ x \in votedPrepare[n]
                           \/ x \in SlotBallot /\ VotesPrepared(x, st)
                /\ x \in acceptedPrepared'[n]
                       <=> \/ x \in acceptedPrepared[n]
                           \/ x \in SlotBallot /\ hasPreparedBallot(x, st)
                /\ x \in votedCommit'[n]
                       <=> \/ x \in votedCommit[n]
                           \/ x \in SlotBallot /\ SaysVotedCommit(x, st)
                /\ x \in acceptedCommit'[n]
                       <=> \/ x \in acceptedCommit[n]
                           \/ x \in SlotBallot /\ SaysAcceptedCommit(x, st)
    BY <1>1, Collected, Zenon
  <1> HIDE DEF s, old
  <1>13. /\ LessOrEqual(s.b, u.b)
         /\ Present(u.c) => /\ u.c.value = u.b.value /\ u.h.value = u.b.value
                            /\ LessOrEqual(u.c, u.h) /\ Present(u.h)
         /\ Present(s.c) => /\ s.c.value = s.b.value /\ s.h.value = s.b.value
                            /\ LessOrEqual(s.c, s.h) /\ Present(s.h)
    <2>1. LessOrEqual(s.b, u.b)
      <3>1. CASE old.type = "NONE"
        <4>1. s.b.counter = 0 /\ s.b.value = 0
          BY <1>3, <1>7, <3>1, BallotTypes DEF NoValue
        <4> QED BY <1>7, <4>1 DEF LessOrEqual
      <3>2. CASE old.type = "PREPARE"
        <4>1. isNewerPrepare(old, st)
          BY <1>6, <1>9, <3>2, TypeRanks DEF isNewerStatement, TypeRank
        <4> QED BY <1>2, <1>6, <1>7, <4>1
                DEF isNewerPrepare, LessOrEqual, Less
      <3> QED BY <1>2, <3>1, <3>2
    <2>2. Present(u.c) => /\ u.c.value = u.b.value /\ u.h.value = u.b.value
                          /\ LessOrEqual(u.c, u.h) /\ Present(u.h)
      BY <1>1, <1>7
         DEF checkInvariants, areBallotsLessAndCompatible, areBallotsCompatible,
             LessOrEqual, Present
    <2>3. Present(s.c) => /\ s.c.value = s.b.value /\ s.h.value = s.b.value
                          /\ LessOrEqual(s.c, s.h) /\ Present(s.h)
      BY <1>2, <1>7
         DEF checkInvariants, areBallotsLessAndCompatible, areBallotsCompatible,
             LessOrEqual, Present
    <2> QED BY <2>1, <2>2, <2>3
  \* A vote to commit that the new statement does not keep has been aborted.
  <1>14. ASSUME NEW z \in votedCommit[n], ~Voting!Aborted(z)'
         PROVE  /\ z.value = u.b.value /\ u.c = s.c /\ u.c.counter # 0
                /\ u.c.counter <= z.counter /\ z.counter <= u.h.counter
    <2>1. z \in SlotBallot /\ z.counter \in Nat /\ z.value \in Nat
      BY <1>11, SlotBallotTypes
    <2>2. ~Voting!Aborted(z)
      BY <1>1, <1>14, AbortedGrows
    <2>3. /\ z.value = s.b.value /\ Present(s.c)
          /\ s.c.counter <= z.counter /\ z.counter <= s.h.counter
      BY <1>10, <2>2 DEF Present
    <2>4. Present(u.c)
      <3>1. SUFFICES ASSUME ~Present(u.c) PROVE FALSE
        OBVIOUS
      <3>2. PICK y \in {u.p, u.pp} :
                Present(y) /\ areBallotsLessAndIncompatible(s.h, y)
        BY <1>8, <2>3, <3>1
      <3>3. y \in SlotBallot /\ y.counter \in Nat /\ y.value \in Nat
        BY <1>7, <3>2, BallotTypes, Zenon
      <3>4. areBallotsLessAndIncompatible(z, y)
        BY <1>7, <1>13, <2>1, <2>3, <3>2, <3>3, SMTT(60)
           DEF areBallotsLessAndIncompatible, areBallotsCompatible, LessOrEqual
      <3>5. areBallotsLessAndCompatible(y, y)
        BY <3>3 DEF areBallotsLessAndCompatible, areBallotsCompatible, LessOrEqual
      <3>6. hasPreparedBallot(y, st)
        BY <1>6, <3>2, <3>5 DEF hasPreparedBallot
      <3>7. y \in acceptedPrepared'[n]
        BY <1>12, <3>3, <3>6
      <3> QED BY <1>1, <1>14, <3>4, <3>7, AbortedGrows
    <2>5. u.c = s.c /\ (u.h = s.h \/ Less(s.h, u.h))
      BY <1>8, <2>3, <2>4, Zenon
    <2> QED BY <1>7, <1>13, <2>1, <2>3, <2>4, <2>5 DEF Less, Present
  \* No vote to prepare, old or new, goes against the votes to commit.
  <1>15. ASSUME Present(u.c), NEW y \in votedPrepare'[n]
         PROVE  y \in SlotBallot /\ (y.value = u.b.value \/ Less(y, u.c))
    <2>1. CASE y \in SlotBallot /\ VotesPrepared(y, st)
      BY <1>6, <2>1 DEF VotesPrepared, areBallotsLessAndCompatible, areBallotsCompatible
    <2>2. CASE y \in votedPrepare[n]
      <3>1. /\ y \in SlotBallot /\ y.counter \in Nat /\ y.value \in Nat
            /\ old.type = "PREPARE" /\ LessOrEqual(y, s.b)
        BY <1>10, <1>11, <2>2, SlotBallotTypes, Zenon
      <3>2. CASE u.c = s.c
        <4>1. Ballot(s.c.counter, s.b.value).counter = s.c.counter
              /\ Ballot(s.c.counter, s.b.value).value = s.b.value
          BY DEF Ballot
        <4>2. y.value = s.b.value \/ Less(y, Ballot(s.c.counter, s.b.value))
          BY <1>10, <1>15, <2>2, <3>1, <3>2, Zenon DEF Present
        <4>3. s.c.value = s.b.value /\ u.b.value = s.b.value
          BY <1>13, <1>15, <3>2
        <4> QED BY <3>1, <3>2, <4>1, <4>2, <4>3 DEF Less
      <3>3. CASE ~Less(u.c, s.b)
        <4>1. u.c.value = u.b.value
          BY <1>13, <1>15
        <4> QED BY <1>7, <3>1, <3>3, <4>1 DEF Less, LessOrEqual
      <3> QED BY <1>8, <1>15, <3>2, <3>3
    <2> QED BY <1>12, <2>1, <2>2
  <1>16. ASSUME NEW x \in votedPrepare'[n] \ votedPrepare[n]
         PROVE  Voting!MayVotePrepare(n, x)
    <2>1. x.value = u.b.value
      BY <1>6, <1>12 DEF VotesPrepared, areBallotsLessAndCompatible, areBallotsCompatible
    <2>2. ASSUME NEW z \in votedCommit[n], Voting!Aborts(x, z)
          PROVE  Voting!Aborted(z)'
      <3>1. x.value # z.value
        BY <2>2, SameVoting DEF areBallotsLessAndIncompatible, areBallotsCompatible
      <3> QED BY <1>14, <2>1, <3>1
    <2> QED BY <2>2 DEF Voting!MayVotePrepare
  <1>17. ASSUME NEW x \in acceptedPrepared'[n] \ acceptedPrepared[n]
         PROVE  Voting!MayAcceptPrepared(x)
    <2>1. x \in SlotBallot /\ hasPreparedBallot(x, st)
      BY <1>12, Zenon
    <2>2. PICK y \in {u.p, u.pp} : Present(y) /\ areBallotsLessAndCompatible(x, y)
      BY <1>6, <2>1 DEF hasPreparedBallot
    <2>3. CASE y \in {s.p, s.pp}
      <3>1. hasPreparedBallot(x, old) /\ old.type # "NONE"
        BY <1>2, <1>3, <2>2, <2>3 DEF hasPreparedBallot
      <3> QED BY <1>4, <2>1, <3>1
    <2>4. CASE Voting!MayAcceptPrepared(y)
      BY <2>1, <2>2, <2>4, PreparedDownward, ZenonT(30)
    <2> QED BY <1>8, <2>2, <2>3, <2>4
  <1>18. ASSUME NEW x \in votedCommit'[n] \ votedCommit[n]
         PROVE  Voting!MayVoteCommit(n, x)
    <2>1. x \in SlotBallot /\ SaysVotedCommit(x, st)
      BY <1>12
    <2>2. /\ x.value = u.b.value /\ Present(u.c)
          /\ u.c.counter <= x.counter /\ x.counter <= u.h.counter
          /\ x.counter \in Nat /\ x.value \in Nat
      BY <1>6, <2>1, SlotBallotTypes DEF SaysVotedCommit, VotesCommit, Present
    <2>3. Confirmable(u.h)
      <3>1. SUFFICES ASSUME u.c = s.c, u.h = s.h PROVE FALSE
        BY <1>8, <2>2, ZenonT(30)
      <3>2. u.b.value = s.b.value
        BY <1>13, <2>2, <3>1, Zenon
      <3>3. SaysVotedCommit(x, old) /\ old.type # "NONE"
        BY <1>2, <1>3, <2>2, <3>1, <3>2, Zenon DEF SaysVotedCommit, VotesCommit, Present
      <3> QED BY <1>4, <2>1, <3>3
    <2>4. areBallotsLessAndCompatible(x, u.h)
      BY <1>7, <1>13, <2>2
         DEF areBallotsLessAndCompatible, areBallotsCompatible, LessOrEqual
    <2>5. Confirmable(x)
      BY <2>1, <2>3, <2>4, PreparedDownward
    <2>6. ASSUME NEW y \in votedPrepare'[n] PROVE ~Voting!Aborts(y, x)
      <3>1. y \in SlotBallot /\ (y.value = u.b.value \/ Less(y, u.c))
        BY <1>15, <2>2
      <3>2. ~areBallotsLessAndIncompatible(x, y)
        <4>1. y.counter \in Nat /\ y.value \in Nat /\ u.c.value = u.b.value
          BY <1>13, <2>2, <3>1, SlotBallotTypes, ZenonT(30)
        <4> QED BY <1>7, <2>2, <3>1, <4>1
                DEF areBallotsLessAndIncompatible, areBallotsCompatible, LessOrEqual, Less
      <3> QED BY <3>2, SameVoting
    <2> QED BY <2>5, <2>6 DEF Voting!MayVoteCommit, Confirmable
  <1>19. ASSUME NEW x \in acceptedCommit'[n] \ acceptedCommit[n]
         PROVE  Voting!MayAcceptCommit(x)
    BY <1>6, <1>12 DEF SaysAcceptedCommit, commitPredicate
  <1>20. Obeys(n)
    BY <1>16, <1>17, <1>18, <1>19, ZenonT(30) DEF Obeys
  <1>21. ASSUME NEW y \in votedPrepare'[n] PROVE LessOrEqual(y, st.b)
    <2>1. CASE y \in votedPrepare[n]
      <3>1. y.counter \in Nat /\ y.value \in Nat /\ LessOrEqual(y, s.b)
        BY <1>10, <1>11, <2>1, SlotBallotTypes, Zenon
      <3> QED BY <1>6, <1>7, <1>13, <3>1 DEF LessOrEqual
    <2>2. CASE VotesPrepared(y, st)
      BY <1>6, <2>2 DEF VotesPrepared, areBallotsLessAndCompatible
    <2> QED BY <1>12, <2>1, <2>2
  <1>22. ASSUME NEW z \in votedCommit'[n]
         PROVE  \/ Voting!Aborted(z)'
                \/ /\ z.value = st.b.value /\ st.nC # 0
                   /\ st.nC <= z.counter /\ z.counter <= st.nH
    <2>1. CASE z \in votedCommit[n]
      BY <1>6, <1>14, <2>1
    <2>2. CASE SaysVotedCommit(z, st)
      BY <1>6, <2>2 DEF SaysVotedCommit, VotesCommit
    <2> QED BY <1>12, <2>1, <2>2, Zenon
  <1>23. ASSUME st.nC # 0, NEW y \in votedPrepare'[n]
         PROVE  y.value = st.b.value \/ Less(y, Ballot(st.nC, st.b.value))
    <2>1. Present(u.c)
      BY <1>6, <1>23 DEF Present
    <2>2. u.c.value = u.b.value
      BY <1>13, <2>1
    <2>3. y.value = u.b.value \/ Less(y, u.c)
      BY <1>15, <2>1
    <2> QED BY <1>6, <2>2, <2>3 DEF Less, Ballot
  <1>24. VotesBehind(n, latest[n][n])'
    <2>1. st = latest'[n][n]
      BY <1>1
    <2> QED BY <1>6, <1>21, <1>22, <1>23, <2>1, Zenon DEF VotesBehind
  <1> QED BY <1>20, <1>24

(***************************************************************************)
(* A CONFIRM or an EXTERNALIZE obeys the rules when its value is decided   *)
(* and what it accepts may be accepted: votes to commit other values have  *)
(* been aborted then.                                                      *)
(***************************************************************************)
LEMMA DecidedObeys ==
    ASSUME HInv, NEW n \in Node, NEW st, st = latest'[n][n], Collect(n),
           st.type \in {"CONFIRM", "EXTERNALIZE"},
           NEW d, Voting!Decided(d), d.value = st.b.value,
           \A x \in SlotBallot :
               /\ hasPreparedBallot(x, st) =>
                      x \in acceptedPrepared[n] \/ Voting!MayAcceptPrepared(x)
               /\ SaysAcceptedCommit(x, st) =>
                      x \in acceptedCommit[n] \/ Voting!MayAcceptCommit(x)
    PROVE  Obeys(n) /\ VotesBehind(n, latest[n][n])'
  <1>1. Voting!TypeOK /\ DecidedValue
    BY Zenon DEF HInv, Voting!IInv
  <1>2. \A x : /\ x \in votedPrepare'[n]
                      <=> \/ x \in votedPrepare[n]
                          \/ x \in SlotBallot /\ VotesPrepared(x, st)
               /\ x \in acceptedPrepared'[n]
                      <=> \/ x \in acceptedPrepared[n]
                          \/ x \in SlotBallot /\ hasPreparedBallot(x, st)
               /\ x \in votedCommit'[n]
                      <=> \/ x \in votedCommit[n]
                          \/ x \in SlotBallot /\ SaysVotedCommit(x, st)
               /\ x \in acceptedCommit'[n]
                      <=> \/ x \in acceptedCommit[n]
                          \/ x \in SlotBallot /\ SaysAcceptedCommit(x, st)
    BY <1>1, Collected, Zenon
  <1>3. \A x : x \in votedCommit'[n] <=> x \in votedCommit[n]
    BY <1>2, Zenon DEF SaysVotedCommit
  <1>4. ASSUME NEW z \in votedCommit[n], z.value # st.b.value
        PROVE  Voting!Aborted(z)'
    <2>1. ~areBallotsCompatible(d, z)
      BY <1>4, Zenon DEF areBallotsCompatible
    <2>2. Voting!Aborted(z)
      BY <1>1, <2>1, Zenon DEF DecidedValue
    <2> QED BY <1>1, <2>2, AbortedGrows, Zenon
  <1>5. ASSUME NEW x \in votedPrepare'[n] \ votedPrepare[n]
        PROVE  Voting!MayVotePrepare(n, x)
    <2>1. VotesPrepared(x, st)
      BY <1>2, Zenon
    <2>2. x.value = st.b.value
      BY <2>1 DEF VotesPrepared, areBallotsCompatible
    <2>3. ASSUME NEW z \in votedCommit[n], Voting!Aborts(x, z)
          PROVE  Voting!Aborted(z)'
      <3>1. x.value # z.value
        BY <2>3, SameVoting DEF areBallotsLessAndIncompatible, areBallotsCompatible
      <3> QED BY <1>4, <2>2, <3>1
    <2> QED BY <2>3, Zenon DEF Voting!MayVotePrepare
  <1>6. Obeys(n)
    BY <1>2, <1>3, <1>5, Zenon DEF Obeys
  <1>7. VotesBehind(n, latest[n][n])'
    BY <1>3, <1>4, Zenon DEF VotesBehind
  <1> QED BY <1>6, <1>7

(***************************************************************************)
(* A new CONFIRM obeys the rules.  Its statement gives the ballot accepted *)
(* as prepared by counter only, under the value of the commit; where that  *)
(* value is not the one of p, a higher ballot with it is prepared.         *)
(***************************************************************************)
LEMMA ConfirmObeys ==
    ASSUME HInv, NEW n \in Node, NEW u \in LocalState, NEW st,
           RecordsNew(n, u, st), AllowedInConfirm(n, u)
    PROVE  Obeys(n) /\ VotesBehind(n, latest[n][n])'
  <1> DEFINE s == local[n]
             old == latest[n][n]
  <1>1. /\ Voting!IInv /\ DecidedValue
        /\ Collect(n) /\ st = latest'[n][n] /\ checkInvariants(u)
        /\ u.phase = "CONFIRM" /\ s.phase \in {"PREPARE", "CONFIRM"}
        /\ s.phase = "CONFIRM" => u.c.value = s.c.value
        /\ u.p = s.p \/ (Voting!MayAcceptPrepared(u.p) /\ u.c.value = u.p.value)
    BY Zenon DEF HInv, RecordsNew, AllowedInConfirm, areBallotsCompatible
  <1>2. \/ s.phase = "CONFIRM" /\ u.c = s.c /\ u.h = s.h
        \/ \A x \in SlotBallot :
               /\ x.value = u.c.value
               /\ u.c.counter <= x.counter /\ x.counter <= u.h.counter
               => Voting!MayAcceptCommit(x)
    BY DEF AllowedInConfirm
  <1>3. st = Confirm(n, u.b, u.p.counter, u.c.counter, u.h.counter)
    BY <1>1 DEF RecordsNew, createStatement
  <1>4. /\ st.type = "CONFIRM" /\ st.b = u.b /\ st.nP = u.p.counter
        /\ st.nC = u.c.counter /\ st.nH = u.h.counter
    BY <1>3 DEF Confirm
  <1>5. /\ s \in LocalState /\ checkInvariants(s)
        /\ s.phase = "PREPARE" =>
               /\ old.type \in {"NONE", "PREPARE"} /\ old.p = s.p
               /\ old.type = "NONE" => ~Present(s.p)
        /\ s.phase = "CONFIRM" =>
               /\ old.type = "CONFIRM" /\ old.b = s.b /\ old.nP = s.p.counter
               /\ old.nC = s.c.counter /\ old.nH = s.h.counter
        /\ old.type # "NONE" =>
               \A x \in SlotBallot :
                   /\ hasPreparedBallot(x, old) => x \in acceptedPrepared[n]
                   /\ SaysAcceptedCommit(x, old) => x \in acceptedCommit[n]
    BY <1>1, OwnStatement, Zenon DEF RecordsNew
  <1>6. /\ u.c \in SCPBallot /\ u.p \in SCPBallot /\ s.p \in SCPBallot
        /\ u.c.counter \in Nat /\ u.p.counter \in Nat /\ u.h.counter \in Nat
        /\ u.c.value \in Nat /\ u.h.value \in Nat /\ u.p.value \in Nat
        /\ s.c.counter \in Nat /\ s.h.counter \in Nat
        /\ s.c.value \in Nat /\ s.h.value \in Nat
    BY <1>5, LocalBallots, ZenonT(30)
  <1> HIDE DEF s, old
  <1>7. /\ Present(u.c) /\ Present(u.p)
        /\ u.c.value = u.b.value /\ u.c.counter <= u.h.counter
    <2>1. /\ Present(u.c) /\ Present(u.p)
          /\ areBallotsLessAndCompatible(u.c, u.h) /\ areBallotsLessAndCompatible(u.h, u.b)
      BY <1>1, Zenon DEF checkInvariants
    <2>2. u.c.value = u.b.value
      BY <2>1, Zenon DEF areBallotsLessAndCompatible, areBallotsCompatible
    <2>3. u.c.counter <= u.h.counter
      <3>1. LessOrEqual(u.c, u.h) /\ u.c.counter \in Nat /\ u.h.counter \in Nat
        BY <1>6, <2>1 DEF areBallotsLessAndCompatible
      <3> QED BY <3>1 DEF LessOrEqual
    <2> QED BY <2>1, <2>2, <2>3, Zenon
  <1>8. s.phase = "CONFIRM" => s.b.value = u.b.value
    BY <1>1, <1>5, <1>7, Zenon DEF checkInvariants, areBallotsLessAndCompatible,
                            areBallotsCompatible
  <1>9. u.c \in SlotBallot
    BY <1>6, <1>7, BallotTypes, ZenonT(30)
  <1>10. ASSUME NEW x \in SlotBallot, SaysAcceptedCommit(x, st)
         PROVE  x \in acceptedCommit[n] \/ Voting!MayAcceptCommit(x)
    <2>1. /\ x.value = u.b.value
          /\ u.c.counter <= x.counter /\ x.counter <= u.h.counter
      BY <1>4, <1>10 DEF SaysAcceptedCommit, commitPredicate
    <2>2. CASE s.phase = "CONFIRM" /\ u.c = s.c /\ u.h = s.h
      <3>1. SaysAcceptedCommit(x, old) /\ old.type # "NONE"
        BY <1>5, <1>8, <2>1, <2>2 DEF SaysAcceptedCommit, commitPredicate
      <3> QED BY <1>5, <3>1
    <2> QED BY <1>2, <1>7, <2>1, <2>2
  <1>11. Voting!Decided(u.c)
    <2>1. SaysAcceptedCommit(u.c, st)
      BY <1>4, <1>6, <1>7 DEF SaysAcceptedCommit, commitPredicate
    <2>2. CASE u.c \in acceptedCommit[n]
      BY <1>1, <2>2 DEF Voting!IInv, Voting!CommitsDecided
    <2>3. CASE Voting!MayAcceptCommit(u.c)
      BY <1>1, <1>9, <2>3, Zenon DEF DecidedValue
    <2> QED BY <1>9, <1>10, <2>1, <2>2, <2>3, Zenon
  <1>12. ASSUME NEW x \in SlotBallot, hasPreparedBallot(x, st)
         PROVE  x \in acceptedPrepared[n] \/ Voting!MayAcceptPrepared(x)
    <2>1. x.counter \in Nat /\ x.value \in Nat
      BY SlotBallotTypes, Zenon
    <2>2. x.value = u.b.value /\ x.counter <= u.p.counter
      <3>1. areBallotsLessAndCompatible(x, Ballot(u.p.counter, u.b.value))
        BY <1>4, <1>12, Zenon DEF hasPreparedBallot
      <3>2. LessOrEqual(x, Ballot(u.p.counter, u.b.value)) /\ x.value = u.b.value
        BY <3>1 DEF areBallotsLessAndCompatible, areBallotsCompatible, Ballot
      <3> QED BY <1>6, <2>1, <3>2 DEF LessOrEqual, Ballot
    <2>3. u.p.value = u.b.value => areBallotsLessAndCompatible(x, u.p)
      BY <1>6, <2>1, <2>2
         DEF areBallotsLessAndCompatible, areBallotsCompatible, LessOrEqual
    <2>4. CASE Voting!MayAcceptPrepared(u.p) /\ u.c.value = u.p.value
      BY <1>7, <2>3, <2>4, PreparedDownward, Zenon
    <2>5. CASE u.p = s.p /\ s.phase = "CONFIRM"
      <3>1. hasPreparedBallot(x, old) /\ old.type # "NONE"
        BY <1>4, <1>5, <1>8, <1>12, <2>5, Zenon
           DEF hasPreparedBallot
      <3> QED BY <1>5, <3>1
    <2>6. CASE u.p = s.p /\ s.phase = "PREPARE"
      <3>1. /\ s.p \in SlotBallot /\ Present(s.p)
            /\ old.type = "PREPARE" /\ old.p = s.p
        BY <1>5, <1>6, <1>7, <2>6, BallotTypes, Zenon
      <3>2. hasPreparedBallot(s.p, old)
        <4>1. areBallotsLessAndCompatible(s.p, s.p)
          BY <3>1, SlotBallotTypes
             DEF areBallotsLessAndCompatible, areBallotsCompatible, LessOrEqual
        <4> QED BY <3>1, <4>1, Zenon DEF hasPreparedBallot
      <3>3. s.p \in acceptedPrepared[n]
        BY <1>5, <3>1, <3>2, ZenonT(30)
      <3>4. CASE s.p.value = u.b.value
        BY <2>3, <2>6, <3>3, <3>4, PreparedDownward, ZenonT(30)
      <3>5. CASE s.p.value # u.b.value
        <4>1. ~areBallotsCompatible(u.c, s.p)
          BY <1>7, <3>5 DEF areBallotsCompatible
        <4>2. PICK y \in SlotBallot :
                  areBallotsCompatible(u.c, y) /\ Voting!Prepared(y) /\ LessOrEqual(s.p, y)
          BY <1>1, <1>11, <3>3, <4>1, Zenon DEF DecidedValue
        <4>3. y.counter \in Nat /\ y.value \in Nat
          BY SlotBallotTypes
        <4>4. areBallotsLessAndCompatible(x, y)
          BY <1>6, <1>7, <2>1, <2>2, <2>6, <4>2, <4>3
             DEF areBallotsLessAndCompatible, areBallotsCompatible, LessOrEqual
        <4>5. Voting!Prepared(x)
          BY <4>2, <4>4, PreparedDownward, Zenon
        <4> QED BY <4>5 DEF Voting!Prepared, Voting!MayAcceptPrepared
      <3> QED BY <3>4, <3>5
    <2> QED BY <1>1, <2>4, <2>5, <2>6
  <1> QED BY <1>1, <1>4, <1>7, <1>10, <1>11, <1>12, DecidedObeys, Zenon

\* A new EXTERNALIZE obeys the rules.
LEMMA ExternalizeObeys ==
    ASSUME HInv, NEW n \in Node, NEW u \in LocalState, NEW st,
           RecordsNew(n, u, st), AllowedInExternalize(n, u)
    PROVE  Obeys(n) /\ VotesBehind(n, latest[n][n])'
  <1>1. /\ Voting!IInv /\ DecidedValue
        /\ Collect(n) /\ st = latest'[n][n] /\ checkInvariants(u)
        /\ u.phase = "EXTERNALIZE"
        /\ \A x \in SlotBallot : x.value = u.c.value =>
               /\ Voting!MayAcceptPrepared(x)
               /\ u.c.counter <= x.counter => Voting!MayAcceptCommit(x)
    BY Zenon DEF HInv, RecordsNew, AllowedInExternalize
  <1>2. st = Externalize(n, u.c, u.h.counter)
    BY <1>1 DEF RecordsNew, createStatement
  <1>3. st.type = "EXTERNALIZE" /\ st.b = u.c
    BY <1>2 DEF Externalize
  <1>4. u.c \in SlotBallot /\ u.c.counter \in Nat
    <2>1. u.c \in SCPBallot /\ Present(u.c)
      BY <1>1, LocalBallots DEF checkInvariants
    <2> QED BY <2>1, BallotTypes, Zenon
  <1>5. Voting!MayAcceptCommit(u.c)
    BY <1>1, <1>4
  <1>6. Voting!Decided(u.c)
    BY <1>1, <1>4, <1>5 DEF DecidedValue
  <1>7. ASSUME NEW x \in SlotBallot
        PROVE  /\ hasPreparedBallot(x, st) => Voting!MayAcceptPrepared(x)
               /\ SaysAcceptedCommit(x, st) => Voting!MayAcceptCommit(x)
    BY <1>1, <1>3, Zenon DEF hasPreparedBallot, areBallotsCompatible,
                      SaysAcceptedCommit, commitPredicate
  <1> QED BY <1>1, <1>3, <1>6, <1>7, DecidedObeys, Zenon

(***************************************************************************)
(* So a node that records a new statement takes a step of federated        *)
(* voting, and what is known of the votes stays true.                      *)
(***************************************************************************)
LEMMA AllowedSpeaks ==
    ASSUME HInv, NEW n \in Node, NEW u \in LocalState, NEW st \in SCPStatement,
           RecordsNew(n, u, st), Allowed(n, u),
           \A m \in Node : m # n => latest'[m][m] = latest[m][m]
    PROVE  /\ Voting!Speak(n) /\ VotesClosed'
           /\ \A m \in Node : VotesBehind(m, latest[m][m])'
  <1>1. Obeys(n) /\ VotesBehind(n, latest[n][n])'
    BY PrepareObeys, ConfirmObeys, ExternalizeObeys, ZenonT(30) DEF Allowed
  <1>2. /\ Voting!IInv /\ Voting!TypeOK /\ Collect(n) /\ st = latest'[n][n]
        /\ VotesClosed /\ \A m \in Node : VotesBehind(m, latest[m][m])
    BY DEF HInv, Voting!IInv, RecordsNew
  <1>3. /\ votedPrepare' \in Voting!Adding(votedPrepare, n)
        /\ acceptedPrepared' \in Voting!Adding(acceptedPrepared, n)
        /\ votedCommit' \in Voting!Adding(votedCommit, n)
        /\ acceptedCommit' \in Voting!Adding(acceptedCommit, n)
        /\ \A x : /\ x \in votedPrepare'[n]
                         <=> \/ x \in votedPrepare[n]
                             \/ x \in SlotBallot /\ VotesPrepared(x, st)
                  /\ x \in acceptedPrepared'[n]
                         <=> \/ x \in acceptedPrepared[n]
                             \/ x \in SlotBallot /\ hasPreparedBallot(x, st)
        /\ \A m \in Node : m # n => /\ votedPrepare'[m] = votedPrepare[m]
                                    /\ acceptedPrepared'[m] = acceptedPrepared[m]
                                    /\ votedCommit'[m] = votedCommit[m]
    BY <1>2, Collected, Zenon
  <1>4. Voting!Speak(n)
    BY <1>1, <1>3, Zenon DEF Voting!Speak, Obeys
  <1>5. ASSUME NEW m \in Node PROVE VotesBehind(m, latest[m][m])'
    <2>1. CASE m = n
      BY <1>1, <2>1
    <2>2. CASE m # n
      <3>1. /\ latest'[m][m] = latest[m][m]
            /\ votedPrepare'[m] = votedPrepare[m] /\ votedCommit'[m] = votedCommit[m]
        BY <1>3, <2>2, Zenon
      <3>2. \A z : Voting!Aborted(z) => Voting!Aborted(z)'
        BY <1>2, AbortedGrows, Zenon
      <3> QED BY <1>2, <3>1, <3>2, Zenon DEF VotesBehind
    <2> QED BY <2>1, <2>2
  <1>6. ASSUME NEW x \in SlotBallot, NEW y \in SlotBallot,
               areBallotsLessAndCompatible(x, y)
        PROVE  /\ VotesPrepared(y, st) => VotesPrepared(x, st)
               /\ hasPreparedBallot(y, st) => hasPreparedBallot(x, st)
    <2>1. \A z : areBallotsLessAndCompatible(y, z) /\ z.counter \in Nat
                     => areBallotsLessAndCompatible(x, z)
      BY <1>6, SlotBallotTypes
         DEF areBallotsLessAndCompatible, areBallotsCompatible, LessOrEqual
    <2>2. /\ st.b.counter \in Nat /\ st.p.counter \in Nat /\ st.pp.counter \in Nat
          /\ Ballot(st.nP, st.b.value).counter \in Nat
      <3>1. /\ st.b \in SCPBallot /\ st.p \in SCPBallot /\ st.pp \in SCPBallot
            /\ st.nP \in Nat
        BY StatementTypes, NumberTypes, Zenon
      <3> QED BY <3>1, BallotTypes DEF Ballot
    <2> QED BY <1>6, <2>1, <2>2, Zenon
            DEF VotesPrepared, hasPreparedBallot, areBallotsLessAndCompatible,
                areBallotsCompatible
  <1>7. ASSUME NEW m \in Node
        PROVE  /\ DownwardClosed(votedPrepare'[m])
               /\ DownwardClosed(acceptedPrepared'[m])
    <2>1. /\ DownwardClosed(votedPrepare[m]) /\ DownwardClosed(acceptedPrepared[m])
          /\ votedPrepare[m] \subseteq SlotBallot /\ acceptedPrepared[m] \subseteq SlotBallot
      BY <1>2, SameVoting, Zenon DEF VotesClosed, Voting!TypeOK
    <2>2. CASE m # n
      BY <1>3, <2>1, <2>2, Zenon
    <2>3. CASE m = n
      BY <1>3, <1>6, <2>1, <2>3, Zenon DEF DownwardClosed
    <2> QED BY <2>2, <2>3
  <1>8. VotesClosed'
    BY <1>7, Zenon DEF VotesClosed, DownwardClosed
  <1> QED BY <1>4, <1>5, <1>8

----------------------------------------------------------------------------
(***************************************************************************)
(* What the methods that set the local state may do is allowed.  First     *)
(* bumpState and abandonBallot: where c is kept so is h.                   *)
(***************************************************************************)
LEMMA BumpedAllowed ==
    ASSUME NEW n \in Node, local[n] \in LocalState, NEW u \in LocalState,
           Bumped(local[n], u), checkInvariants(u), local[n].phase # "EXTERNALIZE"
    PROVE  Allowed(n, u)
  <1> DEFINE s == local[n]
  <1>1. /\ u.phase = s.phase /\ u.p = s.p /\ u.pp = s.pp /\ u.c = s.c
        /\ u.h = s.h \/ u.h = NoBallot
        /\ s.phase \in {"PREPARE", "CONFIRM"}
    BY LocalBallots DEF Bumped, StatementType
  <1>2. u.c.counter \in Nat
    BY LocalBallots
  <1> HIDE DEF s
  <1>3. Present(u.c) => u.h = s.h
    <2>1. NoBallot.counter = 0
      BY DEF NoBallot, Ballot
    <2>2. Present(u.c) => u.c.counter < u.h.counter \/ u.c.counter = u.h.counter
      BY DEF checkInvariants, areBallotsLessAndCompatible, LessOrEqual
    <2> QED BY <1>1, <1>2, <2>1, <2>2 DEF Present
  <1>4. CASE s.phase = "PREPARE"
    BY <1>1, <1>3, <1>4, Zenon DEF s, Allowed, AllowedInPrepare
  <1>5. CASE s.phase = "CONFIRM"
    <2>1. Present(u.c)
      BY <1>1, <1>5 DEF checkInvariants
    <2> QED BY <1>1, <1>3, <1>5, <2>1, ZenonT(30) DEF s, Allowed, AllowedInConfirm
  <1> QED BY <1>1, <1>4, <1>5, Zenon

\* setPreparedAccept, with a ballot attemptPreparedAccept accepts.
LEMMA setPreparedAcceptAllowed ==
    ASSUME HInv, NEW n \in Node, NEW x \in SCPBallot, NEW u \in LocalState,
           u = setPreparedAccept(local[n], x), ~u.failed, checkInvariants(u),
           acceptsPrepared(n, x), local[n].phase # "EXTERNALIZE",
           local[n].phase = "CONFIRM" => areBallotsCompatible(local[n].c, x)
    PROVE  Allowed(n, u)
  <1> DEFINE s == local[n]
  <1>1. s \in LocalState
    BY DEF HInv, TypeOK
  <1>2. /\ u.phase = s.phase /\ u.h = s.h
        /\ u.p = s.p \/ u.p = x
        /\ u.pp = s.pp \/ u.pp = s.p \/ u.pp = x
        /\ \/ u.c = s.c
           \/ /\ u.c = NoBallot /\ s.phase = "PREPARE"
              /\ \E y \in {u.p, u.pp} :
                     Present(y) /\ areBallotsLessAndIncompatible(s.h, y)
        /\ s.phase \in {"PREPARE", "CONFIRM"}
    BY <1>1, setPreparedAcceptFields, LocalBallots, Zenon DEF StatementType
  <1>3. Present(x) => Voting!MayAcceptPrepared(x)
    BY BallotTypes, acceptsPreparedRule, Zenon
  <1> HIDE DEF s
  <1>4. CASE s.phase = "PREPARE"
    <2>1. \A y \in {u.p, u.pp} :
              Present(y) => y \in {s.p, s.pp} \/ Voting!MayAcceptPrepared(y)
      BY <1>2, <1>3, Zenon
    <2>2. ~Present(NoBallot)
      BY Zenon DEF NoBallot, Ballot, Present
    <2> QED BY <1>2, <1>4, <2>1, <2>2, Zenon DEF s, Allowed, AllowedInPrepare
  <1>5. CASE s.phase = "CONFIRM"
    <2>1. Present(u.p) /\ u.c = s.c
      BY <1>2, <1>5, ZenonT(30) DEF checkInvariants
    <2>2. u.p = s.p \/ (Voting!MayAcceptPrepared(u.p) /\ areBallotsCompatible(u.c, u.p))
      BY <1>2, <1>3, <1>5, <2>1, Zenon DEF s
    <2> QED BY <1>2, <1>5, <2>1, <2>2, Zenon DEF s, Allowed, AllowedInConfirm
  <1> QED BY <1>2, <1>4, <1>5

\* The ballot that attemptPreparedConfirmed lets through is above the current h.
LEMMA NotAbove ==
    ASSUME NEW x, NEW y, x.counter \in Nat, x.value \in Nat, y.counter \in Nat, y.counter # 0,
           y.value \in Nat, ~(Present(x) /\ LessOrEqual(y, x))
    PROVE  Less(x, y)
  BY DEF Less, LessOrEqual, Present

\* setPreparedConfirmed, with the ballots attemptPreparedConfirmed finds.
LEMMA setPreparedConfirmedAllowed ==
    ASSUME HInv, NEW n \in Node, NEW newC \in SCPBallot, NEW newH \in SCPBallot,
           NEW u \in LocalState, checkInvariants(u),
           u = setPreparedConfirmed(local[n], newC, newH),
           local[n].phase = "PREPARE", ratifiesPrepared(n, newH),
           ~(Present(local[n].h) /\ LessOrEqual(newH, local[n].h)),
           Present(newC) => ~Present(local[n].c) /\ ~Less(newC, local[n].b)
    PROVE  Allowed(n, u)
  <1> DEFINE s == local[n]
             setC == /\ ~Present(s.b) \/ areBallotsCompatible(s.b, newH)
                     /\ Present(newC)
  <1>1. s \in LocalState
    BY DEF HInv, TypeOK
  <1>2. newH \in SlotBallot /\ Confirmable(newH)
    BY ratifiesPreparedRule, Zenon DEF Confirmable
  <1>3. /\ u.phase = s.phase /\ u.p = s.p /\ u.pp = s.pp
        /\ u.c = IF setC THEN newC ELSE s.c
        /\ \/ u.h = s.h /\ (setC => ~Less(s.h, newH))
           \/ u.h = newH /\ Less(s.h, newH)
           \/ u.h = NoBallot
    BY <1>1, setPreparedConfirmedFields, ZenonT(30)
  <1>4. Less(s.h, newH)
    <2>1. s.h.counter \in Nat /\ s.h.value \in Nat
      BY <1>1, LocalBallots
    <2>2. newH.counter \in Nat /\ newH.counter # 0 /\ newH.value \in Nat
      BY <1>2, SlotBallotTypes
    <2> QED BY <2>1, <2>2, NotAbove, Zenon
  <1>5. Present(u.c) => u.h # NoBallot
    <2>1. NoBallot.counter = 0 /\ u.c.counter \in Nat
      BY LocalBallots, Zenon DEF NoBallot, Ballot
    <2>2. Present(u.c) => u.c.counter < u.h.counter \/ u.c.counter = u.h.counter
      BY ZenonT(30) DEF checkInvariants, areBallotsLessAndCompatible, LessOrEqual
    <2> QED BY <2>1, <2>2 DEF Present
  <1>6. Present(s.c) => ~setC
    OBVIOUS
  <1>7. setC => ~Present(s.c) /\ ~Less(newC, s.b)
    OBVIOUS
  <1> HIDE DEF setC
  <1>8. Present(u.c) =>
               \/ /\ u.c = s.c
                  /\ u.h = s.h \/ (Less(s.h, u.h) /\ Confirmable(u.h))
               \/ ~Present(s.c) /\ ~Less(u.c, s.b) /\ Confirmable(u.h)
    BY <1>2, <1>3, <1>4, <1>5, <1>7, Zenon
  <1>9. Present(s.c) => Present(u.c)
    BY <1>3, <1>6, Zenon
  <1> QED BY <1>3, <1>8, <1>9, ZenonT(30) DEF Allowed, AllowedInPrepare

\* setAcceptCommit, with the interval attemptAcceptCommit finds.
LEMMA setAcceptCommitAllowed ==
    ASSUME HInv, NEW n \in Node, NEW v \in Value, NEW i,
           i[1] \in Counter \ {0}, i[2] \in Counter \ {0}, acceptsCommit(n, v, i),
           NEW u \in LocalState,
           u = setAcceptCommit(local[n], Ballot(i[1], v), Ballot(i[2], v)),
           local[n].phase # "EXTERNALIZE",
           local[n].phase = "CONFIRM" => local[n].c.value = v
    PROVE  Allowed(n, u)
  <1> DEFINE s == local[n]
             newC == Ballot(i[1], v)
             newH == Ballot(i[2], v)
  <1>1. s \in LocalState /\ s.phase \in {"PREPARE", "CONFIRM"}
    BY LocalBallots, Zenon DEF HInv, TypeOK, StatementType
  <1>2. newC \in SCPBallot /\ newH \in SCPBallot
    BY BallotIsTyped
  <1>3. u.phase = "CONFIRM" /\ u.p = s.p /\ u.c = newC /\ u.h = newH
    <2>1. u = setAcceptCommit(s, newC, newH) /\ s \in LocalState
      BY <1>1, ZenonT(30)
    <2> HIDE DEF s, newC, newH
    <2> QED BY <1>2, <2>1, setAcceptCommitFields
  <1>4. /\ newC.value = v /\ newC.counter = i[1] /\ newH.counter = i[2]
        /\ i[1] \in Nat /\ i[2] \in Nat
    BY NumberTypes, Zenon DEF Ballot
  <1>5. \A x \in SlotBallot :
            /\ x.value = u.c.value
            /\ u.c.counter <= x.counter /\ x.counter <= u.h.counter
            => Voting!MayAcceptCommit(x)
    BY <1>3, <1>4, acceptsCommitRule
  <1> HIDE DEF newC, newH
  <1> QED BY <1>1, <1>3, <1>4, <1>5, Zenon DEF Allowed, AllowedInConfirm

\* setConfirmCommit, with the interval attemptConfirmCommit finds.
LEMMA setConfirmCommitAllowed ==
    ASSUME HInv, NEW n \in Node, NEW v \in Value, NEW i,
           i[1] \in Counter \ {0}, i[2] \in Counter \ {0}, i[1] <= i[2],
           ratifiesCommit(n, v, i), NEW u \in LocalState,
           u = setConfirmCommit(local[n], Ballot(i[1], v), Ballot(i[2], v)),
           local[n].phase = "CONFIRM", local[n].c.value = v
    PROVE  Allowed(n, u)
  <1> DEFINE s == local[n]
             newC == Ballot(i[1], v)
             newH == Ballot(i[2], v)
  <1>1. s \in LocalState
    BY DEF HInv, TypeOK
  <1>2. newC \in SCPBallot /\ newH \in SCPBallot
    BY BallotIsTyped
  <1>3. u.phase = "EXTERNALIZE" /\ u.c = newC
    BY <1>1, <1>2, setConfirmCommitFields
  <1>4. /\ newC.value = v /\ newC.counter = i[1]
        /\ i[1] \in Nat /\ i[2] \in Nat
    BY NumberTypes DEF Ballot
  <1>5. \A x \in SlotBallot : x.value = u.c.value =>
            /\ Voting!MayAcceptPrepared(x)
            /\ u.c.counter <= x.counter => Voting!MayAcceptCommit(x)
    BY <1>3, <1>4, ratifiesCommitRule
  <1> HIDE DEF newC, newH
  <1> QED BY <1>3, <1>4, <1>5, Zenon DEF Allowed, AllowedInExternalize

----------------------------------------------------------------------------
(***************************************************************************)
(* The state an attempt leaves behind: it keeps what was validated, moves  *)
(* to EXTERNALIZE only with the value accepted in CONFIRM, and a statement *)
(* made from it obeys the rules.                                           *)
(***************************************************************************)
Follows(n, u) ==
    /\ u.fullyValidated <=> local[n].fullyValidated
    /\ u.phase = "EXTERNALIZE" =>
           /\ local[n].phase \in {"CONFIRM", "EXTERNALIZE"}
           /\ u.c.value = local[n].c.value
    /\ ~u.failed /\ checkInvariants(u) /\ createStatement(n, u) # latest[n][n] =>
           Allowed(n, u)

\* Node n is running.
Active(n) == HInv /\ n \in Node /\ Reflects(n, local[n], latest[n][n])
=============================================================================
