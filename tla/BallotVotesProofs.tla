------------------------- MODULE BallotVotesProofs -------------------------
(***************************************************************************)
(* The ballot protocol implements federated voting, and nodes that         *)
(* externalize agree, for every set of nodes, quorum sets whose quorums    *)
(* intersect, values and bounds.                                           *)
(***************************************************************************)
EXTENDS BallotStepsProofs

----------------------------------------------------------------------------
\* The node records a statement that obeys the rules.
LEMMA SpokenVotes ==
    ASSUME VInv, HInv, NEW n \in Node, OnlyNode(n), VotesChange,
           NEW u \in LocalState, Reflects(n, local[n], latest[n][n]),
           checkInvariants(u), Allowed(n, u), latest'[n][n] = createStatement(n, u),
           isNewerStatement(latest[n][n], createStatement(n, u))
    PROVE  VotesKept(n) /\ Voting!Speak(n)
  <1> DEFINE st == createStatement(n, u)
  <1>1. Voting!TypeOK /\ latest[n][n] \in SCPStatement
    BY RecordTypes, Zenon DEF VInv, Voting!IInv
  <1>2. st \in SCPStatement /\ st.node = n
    BY createStatementType, createStatementNode, Zenon
  <1>3. st # latest[n][n]
    BY <1>1, NewerIrreflexive
  <1>4. \A m \in Node : m # n => latest'[m][m] = latest[m][m]
    BY DEF OnlyNode
  <1>5. Collect(n)
    BY <1>3, <1>4 DEF VotesChange
  <1>6. RecordsNew(n, u, st)
    BY <1>5 DEF RecordsNew
  <1> HIDE DEF st
  <1>7. /\ Voting!Speak(n) /\ VotesClosed'
        /\ \A m \in Node : VotesBehind(m, latest[m][m])'
    BY <1>1, <1>2, <1>4, <1>6, AllowedSpeaks
  <1>8. latest'[n][n] = st
    BY DEF st
  <1>9. VotesGrow
    BY <1>1, <1>5, Collected, Zenon DEF VotesGrow
  <1>10. Recorded(latest[n][n])'
    BY <1>1, <1>2, <1>5, <1>8, Collected, Zenon DEF Recorded
  <1> QED BY <1>7, <1>9, <1>10, Zenon DEF VotesKept

\* What a node may record keeps the votes right, and is a step of voting.
LEMMA MovesVotes ==
    ASSUME VInv, HInv, NEW n \in Node, Moves(n), VotesChange
    PROVE  VotesKept(n) /\ (Voting!Speak(n) \/ UNCHANGED votes)
  <1>1. OnlyNode(n) /\ Speaks(n)
    BY DEF Moves
  <1>2. \A m \in Node : m # n => latest'[m][m] = latest[m][m]
    BY <1>1 DEF OnlyNode
  <1>3. CASE latest'[n][n] = latest[n][n]
    <2>1. \A m \in Node : latest'[m][m] = latest[m][m]
      BY <1>2, <1>3
    <2>2. UNCHANGED votes
      BY <2>1 DEF VotesChange
    <2> QED BY <2>1, <2>2, SilentVotes
  <1>4. ASSUME NEW u \in LocalState, Reflects(n, local[n], latest[n][n]),
               checkInvariants(u), Allowed(n, u), latest'[n][n] = createStatement(n, u),
               isNewerStatement(latest[n][n], createStatement(n, u))
        PROVE  VotesKept(n) /\ Voting!Speak(n)
    BY <1>1, <1>4, SpokenVotes
  <1>5. CASE /\ latest'[n][n] = NoStatement(n) /\ ~Present(latest[n][n].b)
             /\ latest'[n][n] # latest[n][n]
    <2>1. Collect(n)
      BY <1>2, <1>5 DEF VotesChange
    <2> QED BY <1>2, <1>5, <2>1, ForgottenVotes
  <1> QED BY <1>1, <1>3, <1>4, <1>5, Zenon DEF Speaks

\* A statement that accepts the commit of a value has an accepted ballot behind it.
LEMMA CommitsAccepted ==
    ASSUME NEW st, NEW v, Commits(st, v), Recorded(st)
    PROVE  \E x \in acceptedCommit[st.node] : x.value = v
  <1> DEFINE y == IF st.type = "CONFIRM" THEN Ballot(st.nC, st.b.value) ELSE st.b
  <1>1. st \in SCPStatement /\ WellFormed(st) /\ st.b.value = v
        /\ st.type \in {"CONFIRM", "EXTERNALIZE"}
    BY DEF Commits
  <1>2. /\ st.b \in SlotBallot /\ st.b.value \in Value /\ st.b.counter \in Nat
        /\ st.nC \in Counter /\ st.nC \in Nat /\ st.nH \in Nat
    BY <1>1, WellFormedValue, StatementTypes, BallotTypes, NumberTypes, Zenon
  <1>3. st.type = "CONFIRM" => st.nC # 0 /\ st.nC <= st.nH
    BY <1>1, Zenon DEF WellFormed, isStatementSane, isConfirmSane
  <1>4. y \in SlotBallot /\ y.value = v
    BY <1>1, <1>2, <1>3 DEF Ballot, SlotBallot
  <1>5. SaysAcceptedCommit(y, st)
    BY <1>1, <1>2, <1>3 DEF SaysAcceptedCommit, commitPredicate, Ballot
  <1>6. y \in acceptedCommit[st.node]
    BY <1>4, <1>5 DEF Recorded
  <1> QED BY <1>4, <1>6

\* All that is known, sent or on its way has been recorded, after the step too.
LEMMA MovesRecorded ==
    ASSUME VInv, RInv', NEW n \in Node, Moves(n), VotesKept(n)
    PROVE  StatementsRecorded'
  <1>1. OnlyNode(n) /\ Told(n) /\ VotesGrow /\ StatementsRecorded
    BY Zenon DEF Moves, VotesKept, VInv
  <1>2. TypeOK /\ TypeOK' /\ \A m \in Node : StatementsOf(m) \subseteq SCPStatement
    BY RecordTypes DEF VInv, RInv, IInv, StatementsOf
  <1>3. sent \subseteq SCPStatement /\ \A k, m \in Node : latest[k][m] \in SCPStatement
    BY <1>2 DEF TypeOK
  <1>4. RecordedNext(latest'[n][n]) /\ latest'[n][n].node = n
    <2>1. Recorded(latest[n][n])' /\ Labelled(n)'
      BY DEF VotesKept, RInv, Records
    <2> QED BY <2>1, Zenon DEF Recorded, RecordedNext, Labelled
  <1>5. \A k, m \in Node : latest[k][m].node = m /\ RecordedNext(latest[k][m])
    BY <1>1, <1>3, RecordedGrows, Zenon DEF StatementsRecorded, KnownRecorded
  <1>6. \A st \in sent : RecordedNext(st)
    BY <1>1, <1>3, RecordedGrows, Zenon DEF StatementsRecorded
  <1>7. \A m \in Node : \A st \in StatementsOf(m) : RecordedNext(st)
    BY <1>1, <1>2, RecordedGrows, Zenon DEF StatementsRecorded
  <1>8. \A m \in Node : NoStatement(m).node = m /\ RecordedNext(NoStatement(m))
    <2>1. \A m : NoStatement(m).node = m /\ NoStatement(m).type = "NONE"
      BY DEF NoStatement
    <2> QED BY <2>1, NothingSaid, Zenon DEF RecordedNext
  <1>9. \A k, m \in Node : latest'[k][m].node = m /\ RecordedNext(latest'[k][m])
    <2> SUFFICES ASSUME NEW k \in Node, NEW m \in Node
                 PROVE  latest'[k][m].node = m /\ RecordedNext(latest'[k][m])
      OBVIOUS
    <2>1. CASE k # n
      <3>1. latest'[k] = latest[k]
        BY <1>1, <2>1 DEF OnlyNode
      <3> QED BY <1>5, <3>1
    <2>2. CASE k = n /\ m # n
      <3>1. \/ latest'[n][m] = latest[n][m] \/ latest'[n][m] = NoStatement(m)
            \/ latest'[n][m] \in sent /\ latest'[n][m].node = m
        BY <1>1, <2>2 DEF Told
      <3> QED BY <1>5, <1>6, <1>8, <2>2, <3>1
    <2> QED BY <1>4, <2>1, <2>2
  <1>10. \A st \in sent' : RecordedNext(st)
    BY <1>1, <1>6, <1>7 DEF Told
  <1>11. \A m \in Node : \A st \in StatementsOf(m)' : RecordedNext(st)
    <2> SUFFICES ASSUME NEW m \in Node PROVE \A st \in StatementsOf(m)' : RecordedNext(st)
      OBVIOUS
    <2>1. CASE m = n
      BY <1>1, <1>4, <1>7, <2>1 DEF Told
    <2>2. CASE m # n
      <3>1. StatementsOf(m)' = StatementsOf(m)
        BY <1>1, <2>2, ZenonT(30) DEF OnlyNode, StatementsOf, Own
      <3> QED BY <1>7, <3>1
    <2> QED BY <2>1, <2>2
  <1> QED
    BY <1>9, <1>10, <1>11, Zenon DEF StatementsRecorded, KnownRecorded, Recorded, RecordedNext

\* A node that externalizes has accepted the commit, after the step too.
LEMMA MovesExternalized ==
    ASSUME VInv, NEW n \in Node, Moves(n), VotesGrow
    PROVE  ExternalizedAccepted'
  <1> SUFFICES ASSUME NEW m \in Node, Externalized(m)'
               PROVE  \E x \in acceptedCommit'[m] : x.value = local'[m].c.value
    BY DEF ExternalizedAccepted
  <1>1. OnlyNode(n) /\ Decides(n) /\ acceptedCommit[m] \subseteq acceptedCommit'[m]
    BY DEF Moves, VotesGrow
  <1>2. CASE Externalized(m) /\ local'[m].c.value = local[m].c.value
    BY <1>1, <1>2 DEF VInv, ExternalizedAccepted
  <1>3. CASE m # n
    <2>1. local'[m] = local[m]
      BY <1>1, <1>3 DEF OnlyNode
    <2> QED BY <1>2, <2>1 DEF Externalized
  <1>4. ASSUME m = n, NEW st \in {latest[n][n], emitted[n]}, Commits(st, local'[n].c.value)
        PROVE  \E x \in acceptedCommit'[m] : x.value = local'[m].c.value
    <2>1. Labelled(n) /\ StatementsRecorded
      BY DEF VInv, RInv, Records
    <2>2. st.node = n /\ Recorded(st)
      BY <2>1 DEF Labelled, StatementsRecorded, KnownRecorded, StatementsOf
    <2>3. \E x \in acceptedCommit[n] : x.value = local'[n].c.value
      BY <1>4, <2>2, CommitsAccepted
    <2> QED BY <1>1, <1>4, <2>3
  <1> QED BY <1>1, <1>2, <1>3, <1>4 DEF Decides

\* A step that changes nothing.
LEMMA StutterKeepsVInv ==
    ASSUME WellOrdered, VInv, UNCHANGED <<vars, votes>>
    PROVE  VInv'
  <1>1. UNCHANGED vars /\ UNCHANGED votes
    OBVIOUS
  <1>2. RInv'
    BY <1>1, StutterRecords DEF VInv
  <1>3. /\ local' = local /\ latest' = latest /\ last' = last /\ emitted' = emitted
        /\ calls' = calls /\ sent' = sent
    BY <1>1 DEF vars
  <1>4. Voting!IInv' /\ VotesClosed'
    BY <1>1, SameVotes DEF VInv
  <1>5. StatementsRecorded'
    BY <1>1, <1>3, SameVotes, ZenonT(30)
       DEF VInv, StatementsRecorded, KnownRecorded, Recorded, StatementsOf, Own
  <1>6. \A n \in Node : VotesBehind(n, latest[n][n])'
    BY <1>1, <1>3, SameVotes, Zenon DEF VInv, VotesBehind
  <1>7. ExternalizedAccepted'
    BY <1>1, <1>3, SameVotes, Zenon DEF VInv, ExternalizedAccepted, Externalized
  <1>8. MaxRestarts # 0 => \A n \in Node : local'[n].fullyValidated
    BY <1>3 DEF VInv
  <1> QED BY <1>2, <1>4, <1>5, <1>6, <1>7, <1>8 DEF VInv

----------------------------------------------------------------------------
(***************************************************************************)
(* What FederatedVotingProofs shows, for the quorums of the configuration. *)
(***************************************************************************)
VP == INSTANCE FederatedVotingProofs WITH Quorum <- QuorumSystem

LEMMA QuorumsIntersect == VP!QuorumAssumption
  BY QuorumsOfNodes, QuorumIntersection DEF VP!QuorumAssumption, QuorumIntersection

\* The instances define the same as this module.
LEMMA SameInstance ==
    /\ VP!SlotBallot = SlotBallot /\ Voting!SlotBallot = SlotBallot
    /\ \A x, y : /\ VP!areBallotsCompatible(x, y) <=> areBallotsCompatible(x, y)
                 /\ Voting!areBallotsCompatible(x, y) <=> areBallotsCompatible(x, y)
                 /\ VP!LessOrEqual(x, y) <=> LessOrEqual(x, y)
                 /\ Voting!areBallotsLessAndCompatible(x, y)
                        <=> areBallotsLessAndCompatible(x, y)
                 /\ VP!Aborts(y, x) <=> areBallotsLessAndIncompatible(x, y)
                 /\ Voting!Aborts(y, x) <=> areBallotsLessAndIncompatible(x, y)
    /\ VP!IInv <=> Voting!IInv
    /\ \A n : VP!Speak(n) <=> Voting!Speak(n)
    /\ \A x : /\ VP!Decided(x) <=> Voting!Decided(x)
              /\ VP!Prepared(x) <=> Voting!Prepared(x)
              /\ VP!Committed(x) <=> Voting!Committed(x)
              /\ VP!Aborted(x) <=> Voting!Aborted(x)
              /\ VP!MayAcceptCommit(x) <=> Voting!MayAcceptCommit(x)
  <1>1. VP!SlotBallot = SlotBallot /\ Voting!SlotBallot = SlotBallot
    BY DEF VP!SlotBallot, Voting!SlotBallot, SlotBallot,
           VP!Counter, Voting!Counter, Counter
  <1>2. ASSUME NEW x, NEW y
        PROVE  /\ VP!areBallotsCompatible(x, y) <=> areBallotsCompatible(x, y)
               /\ Voting!areBallotsCompatible(x, y) <=> areBallotsCompatible(x, y)
               /\ VP!LessOrEqual(x, y) <=> LessOrEqual(x, y)
               /\ Voting!LessOrEqual(x, y) <=> LessOrEqual(x, y)
    BY DEF VP!areBallotsCompatible, Voting!areBallotsCompatible, areBallotsCompatible,
           VP!LessOrEqual, Voting!LessOrEqual, LessOrEqual
  <1>3. ASSUME NEW x, NEW y
        PROVE  /\ Voting!areBallotsLessAndCompatible(x, y)
                      <=> areBallotsLessAndCompatible(x, y)
               /\ VP!areBallotsLessAndCompatible(x, y)
                      <=> areBallotsLessAndCompatible(x, y)
               /\ VP!Aborts(y, x) <=> areBallotsLessAndIncompatible(x, y)
               /\ Voting!Aborts(y, x) <=> areBallotsLessAndIncompatible(x, y)
    BY <1>2 DEF Voting!areBallotsLessAndCompatible, VP!areBallotsLessAndCompatible,
                areBallotsLessAndCompatible,
                VP!Aborts, Voting!Aborts, areBallotsLessAndIncompatible,
                VP!areBallotsLessAndIncompatible, Voting!areBallotsLessAndIncompatible
  <1>4. \A x : VP!Aborted(x) <=> Voting!Aborted(x)
    BY <1>3 DEF VP!Aborted, Voting!Aborted
  <1>5. \A x : /\ VP!Prepared(x) <=> Voting!Prepared(x)
               /\ VP!Committed(x) <=> Voting!Committed(x)
    BY <1>2 DEF VP!Prepared, Voting!Prepared, VP!Committed, Voting!Committed
  <1>6. \A x : VP!Decided(x) <=> Voting!Decided(x)
    BY <1>1, <1>2, <1>5, Zenon DEF VP!Decided, Voting!Decided
  <1>7. \A x : VP!MayAcceptCommit(x) <=> Voting!MayAcceptCommit(x)
    BY <1>3 DEF VP!MayAcceptCommit, Voting!MayAcceptCommit,
                VP!CommitsFrom, Voting!CommitsFrom
  <1>8. VP!TypeOK <=> Voting!TypeOK
    BY <1>1 DEF VP!TypeOK, Voting!TypeOK
  <1>9. VP!IInv <=> Voting!IInv
    <2>1. VP!VotesAreHonest <=> Voting!VotesAreHonest
      BY <1>3, <1>4 DEF VP!VotesAreHonest, Voting!VotesAreHonest
    <2>2. VP!AbortedByQuorum <=> Voting!AbortedByQuorum
      BY <1>1, <1>3, <1>4 DEF VP!AbortedByQuorum, Voting!AbortedByQuorum
    <2>3. /\ VP!CommitVotesPrepared <=> Voting!CommitVotesPrepared
          /\ VP!CommitsDecided <=> Voting!CommitsDecided
      BY <1>5, <1>6 DEF VP!CommitVotesPrepared, Voting!CommitVotesPrepared,
                        VP!CommitsDecided, Voting!CommitsDecided
    <2> QED BY <1>8, <2>1, <2>2, <2>3 DEF VP!IInv, Voting!IInv
  <1>10. ASSUME NEW n PROVE VP!Speak(n) <=> Voting!Speak(n)
    <2>1. \A x : VP!Aborted(x)' <=> Voting!Aborted(x)'
      BY <1>3 DEF VP!Aborted, Voting!Aborted
    <2>2. \A x : /\ VP!MayVotePrepare(n, x) <=> Voting!MayVotePrepare(n, x)
                 /\ VP!MayAcceptPrepared(x) <=> Voting!MayAcceptPrepared(x)
                 /\ VP!MayVoteCommit(n, x) <=> Voting!MayVoteCommit(n, x)
      BY <1>3, <1>5, <2>1, Zenon
         DEF VP!MayVotePrepare, Voting!MayVotePrepare,
             VP!MayAcceptPrepared, Voting!MayAcceptPrepared,
             VP!MayVoteCommit, Voting!MayVoteCommit
    <2>3. \A f : VP!Adding(f, n) = Voting!Adding(f, n)
      BY <1>1 DEF VP!Adding, Voting!Adding
    <2> QED BY <1>7, <2>2, <2>3, Zenon DEF VP!Speak, Voting!Speak
  <1> QED BY <1>1, <1>2, <1>3, <1>4, <1>5, <1>6, <1>7, <1>9, <1>10

LEMMA SameInvariant == VP!IInv <=> Voting!IInv
  BY SameInstance

\* The steps of federated voting keep its invariant and only add votes.
LEMMA VotingStep ==
    ASSUME Voting!IInv, NEW n \in Node, Voting!Speak(n)
    PROVE  Voting!IInv'
  <1>1. VP!IInv' <=> Voting!IInv'
    BY SameInvariant, PTL
  <1>2. VP!IInv /\ VP!Speak(n)
    BY SameInstance
  <1>3. VP!IInv'
    BY <1>2, VP!SpeakKeepsIInv, QuorumsIntersect, ValueAssumption, CounterAssumption, Zenon
       DEF ValueAssumption, CounterAssumption
  <1> QED BY <1>1, <1>3

\* Two decided values are equal.
LEMMA VotingDecidedAgree ==
    ASSUME Voting!IInv, NEW x, Voting!Decided(x), NEW y, Voting!Decided(y)
    PROVE  areBallotsCompatible(x, y)
  <1>1. VP!IInv /\ VP!Decided(x) /\ VP!Decided(y)
    BY SameInstance
  <1>2. VP!areBallotsCompatible(x, y)
    BY <1>1, VP!DecidedAgree, QuorumsIntersect, ValueAssumption, CounterAssumption
       DEF ValueAssumption, CounterAssumption
  <1> QED BY <1>2, SameInstance

\* What may be accepted as committed has a decided value.
LEMMA VotingMayAcceptDecided ==
    ASSUME Voting!IInv, NEW x \in SlotBallot, Voting!MayAcceptCommit(x)
    PROVE  Voting!Decided(x)
  <1>1. VP!IInv /\ VP!MayAcceptCommit(x) /\ x \in VP!SlotBallot
    BY SameInstance
  <1>2. VP!Decided(x)
    BY <1>1, VP!MayAcceptDecided, QuorumsIntersect, ValueAssumption, CounterAssumption
       DEF ValueAssumption, CounterAssumption
  <1> QED BY <1>2, SameInstance

\* A vote to commit another value than the decided one has been aborted.
LEMMA VotingDecidedAborts ==
    ASSUME Voting!IInv, NEW x, Voting!Decided(x),
           NEW n \in Node, NEW z \in votedCommit[n], ~areBallotsCompatible(x, z)
    PROVE  Voting!Aborted(z)
  <1>1. VP!IInv /\ VP!Decided(x) /\ ~VP!areBallotsCompatible(x, z)
    BY SameInstance, Zenon
  <1>2. VP!Aborted(z)
    BY <1>1, VP!DecidedAbortsVotes, QuorumsIntersect, ValueAssumption, CounterAssumption, Zenon
       DEF ValueAssumption, CounterAssumption
  <1> QED BY <1>2, SameInstance, Zenon

\* A prepared ballot of another value lies below one of the decided value.
LEMMA VotingPreparedBelow ==
    ASSUME Voting!IInv, NEW x, Voting!Decided(x),
           NEW n \in Node, NEW p \in acceptedPrepared[n], ~areBallotsCompatible(x, p)
    PROVE  \E y \in SlotBallot :
               areBallotsCompatible(x, y) /\ Voting!Prepared(y) /\ LessOrEqual(p, y)
  <1>1. VP!IInv /\ VP!Decided(x) /\ ~VP!areBallotsCompatible(x, p)
    BY SameInstance, Zenon
  <1>2. \E y \in VP!SlotBallot :
            /\ VP!areBallotsCompatible(x, y)
            /\ VP!Prepared(y)
            /\ VP!LessOrEqual(p, y)
    BY <1>1, VP!PreparedBelowDecided, QuorumsIntersect, ValueAssumption, CounterAssumption
       DEF ValueAssumption, CounterAssumption
  <1> QED BY <1>2, SameInstance, Zenon

----------------------------------------------------------------------------
\* What the proofs about the attempts need.
LEMMA Histories == VInv => HInv
  <1> SUFFICES ASSUME VInv PROVE HInv
    OBVIOUS
  <1>1. IInv /\ Voting!IInv /\ KnownRecorded
    BY DEF VInv, RInv, StatementsRecorded
  <1>2. TypeOK /\ RecordedWellFormed
    BY <1>1 DEF IInv
  <1>3. DecidedValue
    <2>1. \A x \in SlotBallot : Voting!MayAcceptCommit(x) => Voting!Decided(x)
      BY <1>1, VotingMayAcceptDecided, Zenon
    <2>2. ASSUME NEW x, Voting!Decided(x), NEW n \in Node
          PROVE  /\ \A z \in votedCommit[n] : areBallotsCompatible(x, z) \/ Voting!Aborted(z)
                 /\ \A p \in acceptedPrepared[n] :
                        \/ areBallotsCompatible(x, p)
                        \/ \E y \in SlotBallot : /\ areBallotsCompatible(x, y)
                                                /\ Voting!Prepared(y)
                                                /\ LessOrEqual(p, y)
      BY <1>1, <2>2, VotingDecidedAborts, VotingPreparedBelow
    <2> QED BY <2>1, <2>2, Zenon DEF DecidedValue
  <1>4. BlockingHasMember
    BY EmptySetBlocksNothing, Zenon DEF BlockingHasMember
  <1> QED BY <1>1, <1>2, <1>3, <1>4 DEF VInv, HInv

----------------------------------------------------------------------------
(***************************************************************************)
(* Every step of the protocol, with the votes it makes, keeps the          *)
(* invariant and is a step of federated voting.                            *)
(***************************************************************************)
LEMMA NextKeepsVInv ==
    ASSUME WellOrdered, VInv, RestartsRemember, NextVotes
    PROVE  VInv' /\ (Voting!Next \/ UNCHANGED votes)
  <1>1. Next /\ VotesChange
    BY DEF NextVotes, VotesChange
  <1>2. RInv'
    BY <1>1, NextRecords DEF VInv
  <1>3. PICK n \in Node : Moves(n)
    BY <1>1, Histories, NextMoves, Zenon
  <1>4. VotesKept(n) /\ (Voting!Speak(n) \/ UNCHANGED votes)
    BY <1>1, <1>3, Histories, MovesVotes
  <1>5. StatementsRecorded'
    BY <1>2, <1>3, <1>4, MovesRecorded
  <1>6. ExternalizedAccepted'
    BY <1>3, <1>4, MovesExternalized DEF VotesKept
  <1>7. MaxRestarts # 0 => \A m \in Node : local'[m].fullyValidated
    BY <1>3 DEF VInv, Moves, OnlyNode
  <1>8. Voting!IInv'
    BY <1>4, VotingStep, SameVotes, Zenon DEF VInv
  <1>9. VInv'
    BY <1>2, <1>4, <1>5, <1>6, <1>7, <1>8, Zenon DEF VInv, VotesKept
  <1> QED BY <1>4, <1>9 DEF Voting!Next

LEMMA InitVInv == InitVotes => VInv
  <1> SUFFICES ASSUME Init, Voting!Init PROVE VInv
    BY DEF InitVotes
  <1>1. RInv
    BY InitRInv
  <1>2. \A n \in Node : /\ votedPrepare[n] = {} /\ acceptedPrepared[n] = {}
                        /\ votedCommit[n] = {} /\ acceptedCommit[n] = {}
    BY DEF Voting!Init
  <1>3. Voting!IInv
    <2>1. VP!IInv <=> Voting!IInv
      BY SameInvariant
    <2>2. VP!Init
      BY DEF VP!Init, Voting!Init
    <2>3. VP!IInv
      BY <2>2, VP!InitIInv, QuorumsIntersect, ValueAssumption, CounterAssumption
         DEF ValueAssumption, CounterAssumption
    <2> QED BY <2>1, <2>3
  <1>4. /\ \A n \in Node : local[n] = InitLocal /\ calls[n] = <<>>
        /\ \A n \in Node : last[n] = NoStatement(n) /\ emitted[n] = NoStatement(n)
        /\ \A n, m \in Node : latest[n][m] = NoStatement(m)
        /\ sent = {}
    BY Zenon DEF Init
  <1>5. /\ \A m : NoStatement(m).node = m /\ NoStatement(m).type = "NONE"
        /\ \A m : Recorded(NoStatement(m))
    <2>1. \A m : NoStatement(m).node = m /\ NoStatement(m).type = "NONE"
      BY DEF NoStatement
    <2> QED BY <2>1, NothingSaid, Zenon DEF Recorded
  <1>6. \A n \in Node : StatementsOf(n) = {NoStatement(n)}
    <2>1. \A n \in Node : Own(n) = {}
      BY <1>4, OwnEmpty, Zenon DEF Own
    <2> QED BY <1>4, <2>1, Zenon DEF StatementsOf
  <1>7. StatementsRecorded
    BY <1>4, <1>5, <1>6 DEF StatementsRecorded, KnownRecorded
  <1>8. VotesClosed
    BY <1>2, Zenon DEF VotesClosed, DownwardClosed
  <1>9. \A n \in Node : VotesBehind(n, latest[n][n])
    <2>1. \A n \in Node : latest[n][n].type = "NONE"
      BY <1>4, <1>5, Zenon
    <2> QED BY <1>2, <2>1, Zenon DEF VotesBehind
  <1>10. InitLocal.phase = "PREPARE" /\ InitLocal.fullyValidated
    BY DEF InitLocal
  <1>11. ExternalizedAccepted
    BY <1>4, <1>10, Zenon DEF ExternalizedAccepted, Externalized
  <1> QED BY <1>1, <1>3, <1>4, <1>7, <1>8, <1>9, <1>10, <1>11, Zenon DEF VInv

----------------------------------------------------------------------------
(***************************************************************************)
(* The theorems. Naturals are well ordered, so that Highest, Lowest and    *)
(* the interval search find what they look for.                            *)
(***************************************************************************)
INSTANCE WellFoundedInduction

\* A nonempty set of naturals has a least element.
LEMMA NaturalsAreWellOrdered == WellOrdered
  <1> SUFFICES ASSUME NEW S \in SUBSET Nat, S # {}
               PROVE  \E k \in S : \A j \in S : k <= j
    BY DEF WellOrdered
  <1> DEFINE R == OpToRel(<, Nat)
  <1>1. \A x, y \in Nat : <<y, x>> \in R <=> y < x
    BY DEF OpToRel
  <1>2. IsWellFoundedOn(R, Nat)
    BY NatLessThanWellFounded, Zenon
  <1> HIDE DEF R
  <1>3. PICK x \in S : \A y \in S : ~(<<y, x>> \in R)
    BY <1>2, WFMin, Zenon
  <1>4. \A y \in S : y \in Nat /\ x \in Nat /\ ~(y < x)
    BY <1>1, <1>3, Zenon
  <1>5. \A y \in S : x <= y
    BY <1>4
  <1> QED BY <1>5

(***************************************************************************)
(* The state of the ballot protocol stays well typed whatever the quorum   *)
(* sets, the values, the schedule of messages, timers and restarts: the    *)
(* ballots the attempt* methods pick out of received statements exist      *)
(* (Highest, Lowest and the interval search always have something to pick, *)
(* attemptBump always finds a counter to move to), and                     *)
(* setStateFromEnvelope rebuilds a proper state.                           *)
(***************************************************************************)
THEOREM TypeCorrect == Spec => []TypeOK
  <1>1. IInv => TypeOK
    BY DEF IInv
  <1>2. IInv /\ [Next]_vars => IInv'
    BY NaturalsAreWellOrdered, NextKeepsIInv, Zenon
  <1> QED BY <1>1, <1>2, InitIInv, PTL DEF Spec

(***************************************************************************)
(* A node may process a PREPARE of its own without a ballot, "as long as   *)
(* it never gets emitted" (isStatementSane): every statement that is sent  *)
(* passes the sanity check its receivers make.                             *)
(***************************************************************************)
THEOREM SendsSaneStatements == Spec => []SentIsSane
  <1>1. IInv => SentIsSane
    BY Zenon DEF IInv
  <1>2. IInv /\ [Next]_vars => IInv'
    BY NaturalsAreWellOrdered, NextKeepsIInv
  <1> QED BY <1>1, <1>2, InitIInv, PTL DEF Spec

(***************************************************************************)
(* Every statement a node sends is newer than all it sent before, also     *)
(* when it restarted in between, so that a receiver never drops it         *)
(* (sendLatestEnvelope, processEnvelope and isNewerStatement).             *)
(***************************************************************************)
THEOREM SendsNewerStatements == Spec => SentIsNewer
  <1>1. RInv /\ [Next]_vars => RInv'
    BY NaturalsAreWellOrdered, NextRecords, StutterRecords
  <1>2. RInv /\ [Next]_vars =>
            [\A st \in sent' \ sent : \A old \in sent :
                old.node = st.node => isNewerStatement(old, st)]_vars
    BY NaturalsAreWellOrdered, NextRecords, Zenon
  <1> QED BY <1>1, <1>2, InitRInv, PTL DEF Spec, SentIsNewer

----------------------------------------------------------------------------
(***************************************************************************)
(* The invariant behind both theorems: the statements that nodes record,   *)
(* keep and send under any interleaving of envelopes, timers, candidates   *)
(* and restarts are backed by votes that obey federated voting.            *)
(***************************************************************************)
THEOREM VotesInvariance ==
    ASSUME RestartsRemember
    PROVE  SpecVotes => []VInv
  <1>1. VInv /\ [NextVotes]_<<vars, votes>> => VInv'
    BY NaturalsAreWellOrdered, NextKeepsVInv, StutterKeepsVInv
  <1> QED BY <1>1, InitVInv, PTL DEF SpecVotes

(***************************************************************************)
(* Taken as votes, the statements of advanceSlot and its attempt functions *)
(* follow the rules of federated voting, for every number of nodes, quorum *)
(* sets whose quorums intersect, values and bounds.                        *)
(***************************************************************************)
THEOREM ImplementsFederatedVoting ==
    ASSUME RestartsRemember
    PROVE  SpecVotes => FollowsFederatedVoting
  <1>1. InitVotes => Voting!Init
    BY DEF InitVotes
  <1>2. VInv /\ [NextVotes]_<<vars, votes>> => [Voting!Next]_votes
    BY NaturalsAreWellOrdered, NextKeepsVInv, Zenon
  <1> QED BY <1>1, <1>2, VotesInvariance, PTL
          DEF SpecVotes, FollowsFederatedVoting, Voting!Spec, votes, Voting!vars

(***************************************************************************)
(* No two nodes externalize different values in a slot: setConfirmCommit   *)
(* is reached only with a value whose commit the node has accepted, and    *)
(* two accepted commits have one value.                                    *)
(***************************************************************************)
THEOREM NodesAgree ==
    ASSUME RestartsRemember
    PROVE  SpecVotes => []Agreement
  <1>1. VInv => Agreement
    <2> SUFFICES ASSUME VInv, NEW n \in Node, NEW m \in Node, Externalized(n), Externalized(m)
                 PROVE  local[n].c.value = local[m].c.value
      BY DEF Agreement
    <2>1. PICK x \in acceptedCommit[n] : x.value = local[n].c.value
      BY DEF VInv, ExternalizedAccepted
    <2>2. PICK y \in acceptedCommit[m] : y.value = local[m].c.value
      BY DEF VInv, ExternalizedAccepted
    <2>3. Voting!Decided(x) /\ Voting!Decided(y)
      BY <2>1, <2>2, Zenon DEF VInv, Voting!IInv, Voting!CommitsDecided
    <2>4. areBallotsCompatible(x, y)
      BY <2>3, VotingDecidedAgree DEF VInv
    <2> QED BY <2>1, <2>2, <2>4, Zenon DEF areBallotsCompatible
  <1> QED BY <1>1, VotesInvariance, PTL
=============================================================================
