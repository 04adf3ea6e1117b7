------------------------ MODULE BallotProtocolProofs ------------------------
(***************************************************************************)
(* The ballot protocol keeps its state well typed, sends sane statements   *)
(* only, and every statement a node sends is newer than all it sent        *)
(* before, for every set of nodes, quorum sets, values and bounds.         *)
(***************************************************************************)
EXTENDS BallotFacts

----------------------------------------------------------------------------
\* The empty set has no element to count.
LEMMA EmptySetHasNone == Cardinality({}) = 0
  <1> DEFINE G(f) == [T \in SUBSET {} |->
                          IF T = {} THEN 0 ELSE 1 + f[T \ {CHOOSE x : x \in T}]]
             CS == CHOOSE f : f = G(f)
             g == [T \in SUBSET {} |-> 0]
  <1>1. g = G(g)
    <2>1. \A T \in SUBSET {} : T = {}
      OBVIOUS
    <2> QED BY <2>1, Zenon
  <1>2. CS = G(CS)
    BY <1>1, Zenon
  <1>3. Cardinality({}) = CS[{}]
    BY Zenon DEF Cardinality
  <1>4. {} \in SUBSET {}
    OBVIOUS
  <1> HIDE DEF CS
  <1>5. G(CS)[{}] = 0
    BY <1>4
  <1> QED BY <1>2, <1>3, <1>5, Zenon

(***************************************************************************)
(* No quorum set is blocked by the empty set of nodes.                     *)
(***************************************************************************)
LEMMA EmptySetBlocksNothing ==
    ASSUME NEW n \in Node
    PROVE  <<n, {}>> \notin Blocking
  <1> DEFINE B2(j) == BlockLevel(j, {}, LAMBDA k : FALSE)
             B1(i) == BlockLevel(i, {}, LAMBDA j : B2(j))
             B0(q) == BlockLevel(q, {}, LAMBDA i : B1(i))
  <1>0. Cardinality({}) = 0
    BY EmptySetHasNone
  <1>1. ASSUME NEW j PROVE ~B2(j)
    <2>1. j.validators \cap {} = {} /\ {k \in j.innerSets : FALSE} = {}
      OBVIOUS
    <2> QED BY <1>0, <2>1 DEF BlockLevel, Matching
  <1>2. ASSUME NEW i PROVE ~B1(i)
    <2>1. i.validators \cap {} = {} /\ {j \in i.innerSets : B2(j)} = {}
      BY <1>1
    <2> HIDE DEF B2
    <2>2. /\ Cardinality(i.validators \cap {}) = 0
          /\ Cardinality({j \in i.innerSets : B2(j)}) = 0
      BY <1>0, <2>1, Zenon
    <2> QED BY <2>2 DEF BlockLevel, Matching
  <1>3. ASSUME NEW q PROVE ~B0(q)
    <2> HIDE DEF B1
    <2>1. q.validators \cap {} = {} /\ {i \in q.innerSets : B1(i)} = {}
      BY <1>2
    <2>2. /\ Cardinality(q.validators \cap {}) = 0
          /\ Cardinality({i \in q.innerSets : B1(i)}) = 0
      BY <1>0, <2>1, Zenon
    <2> QED BY <2>2 DEF BlockLevel, Matching
  <1>4. ~B0(QSet[n])
    <2> HIDE DEF B0
    <2> QED BY <1>3
  <1>5. ~isVBlocking(QSet[n], {})
    BY <1>4 DEF isVBlocking
  <1> QED BY <1>5 DEF Blocking

----------------------------------------------------------------------------
(***************************************************************************)
(* What the attempt* methods return is well typed: the ballots they choose *)
(* come from statements the node has recorded.                             *)
(***************************************************************************)
\* attemptPreparedAccept picks a ballot of a nonempty set.
LEMMA attemptPreparedAcceptType ==
    ASSUME WellOrdered, TypeOK, RecordedWellFormed, NEW n \in Node,
           NEW hint \in SCPStatement, WellFormed(hint)
    PROVE  attemptPreparedAccept(n, hint) \in LocalState
  <1> DEFINE s == local[n]
             considered ==
                 {x \in getPrepareCandidates(n, hint) :
                     s.phase = "CONFIRM" => areBallotsLessAndCompatible(s.p, x)}
             accepted ==
                 {x \in considered :
                     /\ ~(Present(s.pp) /\ LessOrEqual(x, s.pp))
                     /\ ~(Present(s.p) /\ areBallotsLessAndCompatible(x, s.p))
                     /\ acceptsPrepared(n, x)}
  <1>1. s \in LocalState
    BY DEF TypeOK
  <1>2. accepted \subseteq SCPBallot
    BY getPrepareCandidatesType
  <1>3. attemptPreparedAccept(n, hint) \in
            {s, [s EXCEPT !.failed = TRUE]}
            \cup (IF accepted = {} THEN {s} ELSE {setPreparedAccept(s, Highest(accepted))})
    BY DEF attemptPreparedAccept
  <1> HIDE DEF accepted, s
  <1>4. accepted # {} => setPreparedAccept(s, Highest(accepted)) \in LocalState
    BY <1>1, <1>2, HighestIn, setPreparedAcceptType
  <1> QED BY <1>1, <1>3, <1>4, FailedType

\* So does attemptPreparedConfirmed, twice.
LEMMA attemptPreparedConfirmedType ==
    ASSUME WellOrdered, TypeOK, RecordedWellFormed, NEW n \in Node,
           NEW hint \in SCPStatement, WellFormed(hint)
    PROVE  attemptPreparedConfirmed(n, hint) \in LocalState
  <1> DEFINE s == local[n]
             candidates == getPrepareCandidates(n, hint)
             raising == {x \in candidates : /\ ~(Present(s.h) /\ LessOrEqual(x, s.h))
                                            /\ ratifiesPrepared(n, x)}
             newH == Highest(raising)
             mayCommit == /\ ~Present(s.c)
                          /\ \A y \in {s.p, s.pp} :
                                 Present(y) => ~areBallotsLessAndIncompatible(newH, y)
             below == {x \in candidates : /\ areBallotsLessAndCompatible(x, newH)
                                          /\ ~Less(x, s.b)}
             unbroken == {x \in below :
                             \A y \in below :
                                 LessOrEqual(x, y) => ratifiesPrepared(n, y)}
             newC == IF mayCommit /\ unbroken # {} THEN Lowest(unbroken) ELSE NoBallot
  <1>1. s \in LocalState
    BY DEF TypeOK
  <1>2. candidates \subseteq SCPBallot
    BY getPrepareCandidatesType
  <1>3. attemptPreparedConfirmed(n, hint) =
            IF s.phase # "PREPARE" \/ ~Present(s.p) \/ raising = {} THEN s
            ELSE setPreparedConfirmed(s, newC, newH)
    BY DEF attemptPreparedConfirmed
  <1>4. unbroken \subseteq SCPBallot /\ raising \subseteq SCPBallot
    BY <1>2
  <1> HIDE DEF unbroken, raising, mayCommit, s
  <1>5. newC \in SCPBallot
    BY <1>4, LowestIn DEF SCPBallot
  <1>6. raising # {} => newH \in SCPBallot
    BY <1>4, HighestIn
  <1> HIDE DEF newC, newH
  <1> QED BY <1>1, <1>3, <1>5, <1>6, setPreparedConfirmedType

\* attemptAcceptCommit: the interval and the value of the hint make two ballots.
LEMMA attemptAcceptCommitType ==
    ASSUME WellOrdered, TypeOK, NEW n \in Node,
           NEW hint \in SCPStatement, WellFormed(hint)
    PROVE  attemptAcceptCommit(n, hint) \in LocalState
  <1> DEFINE s == local[n]
             v == hint.b.value
             B == getCommitBoundaries(n, v)
             I == {j \in B \X B : acceptsCommit(n, v, j)}
             i == findExtendedInterval(B, I)
             skip == \/ s.phase = "EXTERNALIZE"
                     \/ hint.type = "PREPARE" /\ hint.nC = 0
                     \/ s.phase = "CONFIRM" /\ s.h.value # v
                     \/ i[1] = 0
                     \/ s.phase = "CONFIRM" /\ i[2] <= s.h.counter
  <1>1. s \in LocalState
    BY DEF TypeOK
  <1>2. attemptAcceptCommit(n, hint) =
            IF skip THEN s ELSE setAcceptCommit(s, Ballot(i[1], v), Ballot(i[2], v))
    BY DEF attemptAcceptCommit
  <1>3. ~skip => v \in Value
    <2>1. ~skip => ~(hint.type = "PREPARE" /\ hint.nC = 0)
      OBVIOUS
    <2>2. /\ hint.type # "PREPARE" => v \in Value
          /\ hint.nC # 0 => v \in Value
      BY WellFormedValue, Zenon
    <2> HIDE DEF skip, v
    <2> QED BY <2>1, <2>2
  <1>4. B \subseteq Counter
    BY getCommitBoundariesType
  <1>5. ~skip => i[1] # 0
    OBVIOUS
  <1> HIDE DEF B, I, skip, s, v
  <1>6. ~skip => i[1] \in Counter \ {0} /\ i[2] \in Counter \ {0}
    BY <1>4, <1>5, findExtendedIntervalType
  <1> HIDE DEF i
  <1> QED BY <1>1, <1>2, <1>3, <1>6, BallotIsTyped, setAcceptCommitType

\* attemptConfirmCommit: likewise.
LEMMA attemptConfirmCommitType ==
    ASSUME WellOrdered, TypeOK, NEW n \in Node,
           NEW hint \in SCPStatement, WellFormed(hint)
    PROVE  attemptConfirmCommit(n, hint) \in LocalState
  <1> DEFINE s == local[n]
             v == hint.b.value
             B == getCommitBoundaries(n, v)
             I == {j \in B \X B : ratifiesCommit(n, v, j)}
             i == findExtendedInterval(B, I)
             skip == \/ s.phase # "CONFIRM"
                     \/ ~Present(s.h) \/ ~Present(s.c)
                     \/ hint.type = "PREPARE"
                     \/ s.c.value # v
                     \/ i[1] = 0
  <1>1. s \in LocalState
    BY DEF TypeOK
  <1>2. attemptConfirmCommit(n, hint) =
            IF skip THEN s ELSE setConfirmCommit(s, Ballot(i[1], v), Ballot(i[2], v))
    BY DEF attemptConfirmCommit
  <1>3. ~skip => v \in Value
    <2>1. ~skip => hint.type # "PREPARE"
      OBVIOUS
    <2>2. /\ hint.type # "PREPARE" => v \in Value
          /\ hint.nC # 0 => v \in Value
      BY WellFormedValue, Zenon
    <2> HIDE DEF skip, v
    <2> QED BY <2>1, <2>2
  <1>4. B \subseteq Counter
    BY getCommitBoundariesType
  <1>5. ~skip => i[1] # 0
    OBVIOUS
  <1> HIDE DEF B, I, skip, s, v
  <1>6. ~skip => i[1] \in Counter \ {0} /\ i[2] \in Counter \ {0}
    BY <1>4, <1>5, findExtendedIntervalType
  <1> HIDE DEF i
  <1> QED BY <1>1, <1>2, <1>3, <1>6, BallotIsTyped, setConfirmCommitType

(***************************************************************************)
(* attemptBump finds a counter to move to: the highest counter in sight    *)
(* has nobody ahead of it, and nobody blocks nothing.                      *)
(***************************************************************************)
LEMMA attemptBumpType ==
    ASSUME WellOrdered, TypeOK, NEW n \in Node
    PROVE  attemptBump(n) \in LocalState
  <1> DEFINE s == local[n]
             K(m) == statementBallotCounter(latest[n][m])
             C == {K(m) : m \in Node}
             Ahead(k) == {m \in Node : latest[n][m].type # "NONE" /\ K(m) > k}
             targets == {k \in C : /\ k > s.b.counter
                                   /\ ~hasVBlockingSubsetStrictlyAheadOf(n, k)}
             skip == \/ s.phase = "EXTERNALIZE"
                     \/ ~hasVBlockingSubsetStrictlyAheadOf(n, s.b.counter)
             target == CHOOSE k \in targets : \A j \in targets : k <= j
  <1>1. s \in LocalState /\ s.b.counter \in Nat
    BY BallotTypes DEF TypeOK, LocalState
  <1>2. attemptBump(n) = IF skip THEN s ELSE abandonBallot(s, candidate[n], target)
    BY DEF attemptBump
  <1>3. C \subseteq Counter
    <2>1. ASSUME NEW m \in Node PROVE K(m) \in Counter
      <3>1. latest[n][m] \in SCPStatement
        BY DEF TypeOK
      <3>2. latest[n][m].b.counter \in Counter /\ UINT32_MAX \in Counter /\ 0 \in Counter
        BY <3>1, StatementTypes, BallotTypes, NumberTypes DEF Counter
      <3> QED BY <3>2 DEF statementBallotCounter
    <2> QED BY <2>1
  <1>4. \A k : hasVBlockingSubsetStrictlyAheadOf(n, k) <=> <<n, Ahead(k)>> \in Blocking
    BY DEF hasVBlockingSubsetStrictlyAheadOf, Saying
  <1>5. \A k : hasVBlockingSubsetStrictlyAheadOf(n, k) => Ahead(k) # {}
    <2> HIDE DEF Ahead
    <2> QED BY <1>4, EmptySetBlocksNothing, Zenon
  <1>6. ASSUME ~skip PROVE target \in Counter
    <2> DEFINE D == {k \in C : k > s.b.counter}
    <2>1. Ahead(s.b.counter) # {}
      BY <1>5, <1>6
    <2>2. D # {}
      BY <2>1
    <2>3. D \subseteq Nat /\ \A k \in D : k <= UINT32_MAX
      <3> HIDE DEF C
      <3> QED BY <1>3, NumberTypes, Zenon
    <2>4. \E k \in D : \A j \in D : j <= k
      <3> HIDE DEF D
      <3>1. UINT32_MAX \in Nat
        BY NumberTypes
      <3> QED BY <2>2, <2>3, <3>1, GreatestElement, Zenon
    <2>4a. PICK k \in D : \A j \in D : j <= k
      BY <2>4
    <2>5. k \in C /\ k \in Nat /\ k > s.b.counter
      BY <2>3, <2>4a
    <2>6. Ahead(k) = {}
      <3>1. ASSUME NEW m \in Node, K(m) > k PROVE FALSE
        <4>1. K(m) \in C /\ K(m) \in Nat
          BY <1>3, NumberTypes
        <4> HIDE DEF K
        <4>2. K(m) > s.b.counter
          BY <1>1, <2>5, <3>1, <4>1
        <4>3. K(m) \in D
          BY <4>1, <4>2
        <4>4. K(m) <= k
          BY <2>4a, <4>3
        <4> QED BY <2>5, <3>1, <4>1, <4>4
      <3> QED BY <3>1
    <2>7. k \in targets
      BY <1>5, <2>5, <2>6
    <2>8. targets \subseteq Nat /\ targets \subseteq Counter
      <3> HIDE DEF C
      <3> QED BY <1>3, NumberTypes, Zenon
    <2>9. \E t \in targets : \A j \in targets : t <= j
      <3>1. targets # {}
        BY <2>7
      <3> HIDE DEF targets
      <3> QED BY <3>1, <2>8, Zenon DEF WellOrdered
    <2>10. target \in targets
      <3> HIDE DEF targets
      <3> QED BY <2>9
    <2> HIDE DEF targets, target
    <2> QED BY <2>8, <2>10, Zenon
  <1>7. candidate[n] \in Value \cup {NoValue}
    BY DEF TypeOK
  <1> HIDE DEF skip, target, s
  <1> QED BY <1>1, <1>2, <1>6, <1>7, abandonBallotType

----------------------------------------------------------------------------
(***************************************************************************)
(* The remaining functions of the local state.                             *)
(***************************************************************************)
LEMMA createStatementType ==
    ASSUME NEW n \in Node, NEW s \in LocalState
    PROVE  /\ createStatement(n, s) \in SCPStatement
           /\ createStatement(n, s).type = s.phase
           /\ s.phase = "CONFIRM" => createStatement(n, s).nP = s.p.counter
  <1>1. /\ s.b \in SCPBallot /\ s.p \in SCPBallot /\ s.pp \in SCPBallot
        /\ s.c \in SCPBallot /\ s.h \in SCPBallot /\ s.phase \in StatementType
    BY DEF LocalState
  <1>2. /\ s.p.counter \in Counter /\ s.c.counter \in Counter
        /\ s.h.counter \in Counter /\ 0 \in Counter /\ NoBallot \in SCPBallot
    BY <1>1, BallotTypes, NumberTypes DEF Counter, SCPBallot
  <1>3. CASE s.phase = "PREPARE"
    BY <1>1, <1>2, <1>3 DEF createStatement, Prepare, SCPStatement, StatementType
  <1>4. CASE s.phase = "CONFIRM"
    BY <1>1, <1>2, <1>4 DEF createStatement, Confirm, SCPStatement, StatementType
  <1>5. CASE s.phase = "EXTERNALIZE"
    BY <1>1, <1>2, <1>5 DEF createStatement, Externalize, SCPStatement, StatementType
  <1> QED BY <1>1, <1>3, <1>4, <1>5 DEF StatementType

\* createStatement leaves no counter in a field that its pledge does not have.
LEMMA createStatementWellFormed ==
    ASSUME NEW n \in Node, NEW s \in LocalState, checkInvariants(s),
           isStatementSane(createStatement(n, s), TRUE)
    PROVE  WellFormed(createStatement(n, s))
  <1>1. /\ s.b \in SCPBallot /\ s.p \in SCPBallot /\ s.pp \in SCPBallot
        /\ s.c \in SCPBallot /\ s.h \in SCPBallot /\ s.phase \in StatementType
    BY DEF LocalState
  <1>2. CASE s.phase = "PREPARE"
    <2>1. createStatement(n, s) = Prepare(n, s.b, s.p, s.pp, s.c.counter, s.h.counter)
      BY <1>2 DEF createStatement
    <2>2. s.h.counter <= s.b.counter
      BY <1>1, BallotTypes DEF checkInvariants, areBallotsLessAndCompatible, LessOrEqual,
                               Present
    <2>3. /\ createStatement(n, s).type = "PREPARE" /\ createStatement(n, s).nP = 0
          /\ createStatement(n, s).nH <= createStatement(n, s).b.counter
      BY <2>1, <2>2 DEF Prepare
    <2> QED BY <2>3, Zenon DEF WellFormed
  <1>3. CASE s.phase = "CONFIRM"
    <2>1. createStatement(n, s) = Confirm(n, s.b, s.p.counter, s.c.counter, s.h.counter)
      BY <1>3 DEF createStatement
    <2>2. s.p.counter # 0 /\ s.c.counter # 0
      BY <1>3 DEF checkInvariants, Present
    <2>3. /\ createStatement(n, s).type = "CONFIRM"
          /\ createStatement(n, s).nP # 0 /\ createStatement(n, s).nC # 0
          /\ createStatement(n, s).p = NoBallot /\ createStatement(n, s).pp = NoBallot
      BY <2>1, <2>2 DEF Confirm
    <2> QED BY <2>3, Zenon DEF WellFormed
  <1>4. CASE s.phase = "EXTERNALIZE"
    <2>1. createStatement(n, s) = Externalize(n, s.c, s.h.counter)
      BY <1>4 DEF createStatement
    <2>2. /\ createStatement(n, s).type = "EXTERNALIZE"
          /\ createStatement(n, s).nP = 0 /\ createStatement(n, s).nC = 0
          /\ createStatement(n, s).p = NoBallot /\ createStatement(n, s).pp = NoBallot
      BY <2>1 DEF Externalize
    <2> QED BY <2>2, Zenon DEF WellFormed
  <1> QED BY <1>1, <1>2, <1>3, <1>4 DEF StatementType

\* Marking the slot as not fully validated keeps the types.
LEMMA validatedType ==
    ASSUME NEW n \in Node, NEW s \in LocalState, NEW st
    PROVE  validated(n, s, st) \in LocalState
  <1> DEFINE f == s.fullyValidated /\ validateValues(n, st) = "kFullyValidatedValue"
  <1>1. f \in BOOLEAN
    BY DEF LocalState
  <1>2. validated(n, s, st) = [s EXCEPT !.fullyValidated = f]
    BY DEF validated
  <1> HIDE DEF f
  <1> QED BY <1>1, <1>2 DEF LocalState

\* checkHeardFromQuorum keeps the types.
LEMMA checkHeardFromQuorumType ==
    ASSUME NEW n \in Node, NEW s \in LocalState
    PROVE  checkHeardFromQuorum(n, s) \in LocalState
  <1> DEFINE t == s.phase # "EXTERNALIZE" /\ (~s.heard \/ s.timer)
  <1>1. t \in BOOLEAN
    OBVIOUS
  <1>2. checkHeardFromQuorum(n, s) \in
            {s, [s EXCEPT !.heard = TRUE, !.timer = t],
             [s EXCEPT !.heard = FALSE, !.timer = FALSE]}
    BY DEF checkHeardFromQuorum
  <1> HIDE DEF t
  <1> QED BY <1>1, <1>2, Zenon DEF LocalState

\* The state of a new ballot protocol is well typed.
LEMMA InitLocalType == InitLocal \in LocalState
  BY DEF InitLocal, LocalState, StatementType, SCPBallot

\* A sane statement of the node's own restores a well-typed state.
LEMMA setStateFromEnvelopeType ==
    ASSUME NEW st \in SCPStatement,
           \/ st.type = "NONE"
           \/ WellFormed(st) /\ isStatementSane(st, FALSE)
    PROVE  setStateFromEnvelope(st) \in LocalState
  <1> DEFINE v == st.b.value
             at(k) == IF k = 0 THEN NoBallot ELSE Ballot(k, v)
  <1>1. CASE st.type = "NONE"
    BY <1>1, InitLocalType DEF setStateFromEnvelope
  <1>2. CASE WellFormed(st) /\ isStatementSane(st, FALSE)
    <2>1. st.b.counter > 0 /\ st.b \in SCPBallot /\ st.p \in SCPBallot /\ st.pp \in SCPBallot
      BY <1>2, StatementTypes DEF isStatementSane, isPrepareSane, isConfirmSane,
                                  isExternalizeSane
    <2>2. Present(st.b)
      BY <2>1, BallotTypes DEF Present
    <2>3. v \in Value
      BY <2>1, <2>2, BallotTypes
    <2> HIDE DEF v
    <2>4. \A k \in Counter : at(k) \in SCPBallot
      BY <2>3, BallotIsTyped DEF SCPBallot
    <2>5. /\ at(st.nH) \in SCPBallot /\ at(st.nC) \in SCPBallot
          /\ at(st.nP) \in SCPBallot /\ at(UINT32_MAX) \in SCPBallot
      BY <2>4, StatementTypes, NumberTypes, Zenon
    <2>6. CASE st.type = "PREPARE"
      <3>1. setStateFromEnvelope(st) =
                [InitLocal EXCEPT !.b = st.b, !.p = st.p, !.pp = st.pp,
                                  !.h = at(st.nH), !.c = at(st.nC)]
        BY <2>6 DEF setStateFromEnvelope, v
      <3> HIDE DEF at
      <3> QED BY <2>1, <2>5, <3>1, InitLocalType, Zenon DEF LocalState
    <2>7. CASE st.type = "CONFIRM"
      <3>1. setStateFromEnvelope(st) =
                [InitLocal EXCEPT !.b = st.b, !.p = at(st.nP), !.h = at(st.nH),
                                  !.c = at(st.nC), !.phase = "CONFIRM"]
        BY <2>7 DEF setStateFromEnvelope, v
      <3> HIDE DEF at
      <3> QED BY <2>1, <2>5, <3>1, InitLocalType, Zenon DEF LocalState, StatementType
    <2>8. CASE st.type = "EXTERNALIZE"
      <3>1. setStateFromEnvelope(st) =
                [InitLocal EXCEPT !.b = at(UINT32_MAX), !.p = at(UINT32_MAX),
                                  !.h = at(st.nH), !.c = st.b,
                                  !.phase = "EXTERNALIZE"]
        BY <2>8 DEF setStateFromEnvelope, v
      <3> HIDE DEF at
      <3> QED BY <2>1, <2>5, <3>1, InitLocalType, Zenon DEF LocalState, StatementType
    <2> QED BY <1>2, <2>6, <2>7, <2>8, Zenon DEF WellFormed, isStatementSane
  <1> QED BY <1>1, <1>2, Zenon

----------------------------------------------------------------------------
(***************************************************************************)
(* What a step inside a handler keeps: the types of what it writes, and    *)
(* that recorded statements are well formed and last ones have a ballot.   *)
(***************************************************************************)
LastOK(n, st) ==
    \/ st = NoStatement(n)
    \/ WellFormed(st) /\ isStatementSane(st, FALSE)

HandlerKeeps ==
    /\ local' \in [Node -> LocalState]
    /\ latest' \in [Node -> [Node -> SCPStatement]]
    /\ last' \in [Node -> SCPStatement]
    /\ calls' \in [Node -> Seq(Frame)]
    /\ RecordedWellFormed'
    /\ \A m \in Node : LastOK(m, last'[m])
    /\ \A m \in Node : last[m] # NoStatement(m) => last'[m] # NoStatement(m)

(***************************************************************************)
(* A step that keeps these and sends nothing keeps the invariant.          *)
(***************************************************************************)
LEMMA QuietStep ==
    ASSUME IInv, HandlerKeeps, UNCHANGED <<emitted, sent>>,
           candidate' \in [Node -> Value \cup {NoValue}],
           timeouts' \in 0 .. MaxTimeouts, restarts' \in 0 .. MaxRestarts
    PROVE  IInv'
  <1>1. TypeOK'
    BY DEF IInv, TypeOK, HandlerKeeps
  <1>2. SentIsSane'
    BY Zenon DEF IInv, SentIsSane
  <1>3. LastHasBallot'
    <2>1. \A st \in sent' : WellFormed(st)
      BY DEF IInv, LastHasBallot
    <2>2. \A n \in Node :
              \/ last'[n] = NoStatement(n)
              \/ WellFormed(last'[n]) /\ isStatementSane(last'[n], FALSE)
      BY Zenon DEF HandlerKeeps, LastOK
    <2>3. \A n \in Node :
              \/ emitted'[n] = NoStatement(n)
              \/ emitted'[n] \in sent' /\ last'[n] # NoStatement(n)
      BY DEF IInv, LastHasBallot, HandlerKeeps
    <2> QED BY <2>1, <2>2, <2>3, Zenon DEF LastHasBallot
  <1> QED BY <1>1, <1>2, <1>3 DEF IInv, HandlerKeeps

\* A statement becomes mLastEnvelope only when it has a ballot.
LEMMA nextLastType ==
    ASSUME TypeOK, LastHasBallot, NEW n \in Node,
           NEW st \in SCPStatement, WellFormed(st)
    PROVE  /\ nextLast(n, st) \in SCPStatement
           /\ LastOK(n, nextLast(n, st))
           /\ last[n] # NoStatement(n) => nextLast(n, st) # NoStatement(n)
  <1>1. last[n] \in SCPStatement /\ LastOK(n, last[n])
    BY Zenon DEF TypeOK, LastHasBallot, LastOK
  <1>2. st # NoStatement(n)
    BY WellFormedValue, NoStatementTyped, Zenon DEF StatementType
  <1>3. Present(st.b) => LastOK(n, st)
    BY WellFormedValue, Zenon DEF LastOK
  <1> QED BY <1>1, <1>2, <1>3 DEF nextLast

(***************************************************************************)
(* emitCurrentStateStatement.                                              *)
(***************************************************************************)
LEMMA EmitKeeps ==
    ASSUME IInv, NEW n \in Node, NEW s \in LocalState, NEW stack \in Seq(Frame),
           \A i \in 1 .. Len(stack) : WellFormed(stack[i].hint),
           NEW purpose \in {"emit", "bump"},
           emitCurrentStateStatement(n, s, stack, purpose)
    PROVE  HandlerKeeps
  <1> DEFINE st == createStatement(n, s)
  <1>1. TypeOK /\ RecordedWellFormed /\ LastHasBallot
    BY DEF IInv
  <1>2. st \in SCPStatement
    BY createStatementType
  <1>3. \A m \in Node : LastOK(m, last[m])
    BY <1>1, Zenon DEF LastHasBallot, LastOK
  <1>4. CASE Fail(n, s)
    <2>1. local' \in [Node -> LocalState]
      BY <1>1, <1>4, FailedType DEF Fail, TypeOK
    <2>2. calls' \in [Node -> Seq(Frame)]
      BY <1>1, <1>4 DEF Fail, TypeOK
    <2>3. \A m \in Node : \A i \in 1 .. Len(calls'[m]) : WellFormed(calls'[m][i].hint)
      BY <1>1, <1>4 DEF Fail, TypeOK, RecordedWellFormed
    <2>4. UNCHANGED <<latest, last>>
      BY <1>4 DEF Fail
    <2>5. RecordedWellFormed'
      BY <1>1, <2>3, <2>4 DEF RecordedWellFormed
    <2> QED BY <1>1, <1>3, <2>1, <2>2, <2>4, <2>5 DEF TypeOK, HandlerKeeps
  <1>5. CASE /\ local' = [local EXCEPT ![n] = s]
             /\ calls' = [calls EXCEPT ![n] = stack]
             /\ UNCHANGED <<latest, last>>
    <2>3. \A m \in Node : \A i \in 1 .. Len(calls'[m]) : WellFormed(calls'[m][i].hint)
      BY <1>1, <1>5 DEF TypeOK, RecordedWellFormed
    <2>5. RecordedWellFormed'
      BY <1>1, <1>5, <2>3 DEF RecordedWellFormed
    <2> QED BY <1>1, <1>3, <1>5, <2>5 DEF TypeOK, HandlerKeeps
  <1>6. CASE /\ checkInvariants(s)
             /\ selfValid(n, s, st, Len(stack) + 1)
             /\ latest' = [latest EXCEPT ![n][n] = st]
             /\ IF s.phase = "EXTERNALIZE" THEN
                    /\ local' = [local EXCEPT ![n] = s]
                    /\ calls' = [calls EXCEPT ![n] = stack]
                    /\ last' = [last EXCEPT ![n] = nextLast(n, st)]
                ELSE
                    /\ local' = [local EXCEPT ![n] = validated(n, s, st)]
                    /\ calls' = [calls EXCEPT ![n] =
                           Append(stack, [hint |-> st, next |-> 1,
                                          purpose |-> purpose])]
                    /\ last' = last
    <2>1. WellFormed(st)
      BY <1>6, createStatementWellFormed, Zenon DEF selfValid
    <2> DEFINE f == [hint |-> st, next |-> 1, purpose |-> purpose]
    <2>2. f \in Frame /\ f.hint = st
      BY <1>2 DEF Frame
    <2> HIDE DEF f, st
    <2>3. local' \in [Node -> LocalState]
      <3> DEFINE w == validated(n, s, st)
      <3>1. w \in LocalState
        BY validatedType
      <3>2. \/ local' = [local EXCEPT ![n] = s]
            \/ local' = [local EXCEPT ![n] = w]
        BY <1>6
      <3> HIDE DEF w
      <3> QED BY <1>1, <3>1, <3>2, Zenon DEF TypeOK
    <2>4. latest' \in [Node -> [Node -> SCPStatement]]
      BY <1>1, <1>2, <1>6 DEF TypeOK
    <2>5. \A k, m \in Node :
              latest'[k][m].type = "NONE" \/ WellFormed(latest'[k][m])
      BY <1>1, <1>6, <2>1 DEF TypeOK, RecordedWellFormed
    <2>6. calls' \in [Node -> Seq(Frame)] /\ calls'[n] \in {stack, Append(stack, f)}
          /\ \A m \in Node : m # n => calls'[m] = calls[m]
      <3> DEFINE w == Append(stack, f)
      <3>1. \/ calls' = [calls EXCEPT ![n] = stack]
            \/ calls' = [calls EXCEPT ![n] = w]
        BY <1>6 DEF f
      <3>2. w \in Seq(Frame)
        BY <2>2
      <3> HIDE DEF w
      <3>3. calls' \in [Node -> Seq(Frame)] /\ calls'[n] \in {stack, w}
            /\ \A m \in Node : m # n => calls'[m] = calls[m]
        BY <1>1, <3>1, <3>2, Zenon DEF TypeOK
      <3> QED BY <3>3 DEF w
    <2>7. \A i \in 1 .. Len(Append(stack, f)) : WellFormed(Append(stack, f)[i].hint)
      BY <2>1, <2>2
    <2>8. \A m \in Node : \A i \in 1 .. Len(calls'[m]) : WellFormed(calls'[m][i].hint)
      BY <1>1, <2>6, <2>7 DEF RecordedWellFormed
    <2>9. /\ last' \in [Node -> SCPStatement]
          /\ \A m \in Node : LastOK(m, last'[m])
          /\ \A m \in Node : last[m] # NoStatement(m) => last'[m] # NoStatement(m)
      <3>1. CASE last' = last
        BY <1>1, <1>3, <3>1 DEF TypeOK
      <3>2. CASE last' = [last EXCEPT ![n] = nextLast(n, st)]
        BY <1>1, <1>2, <1>3, <2>1, <3>2, nextLastType DEF TypeOK
      <3> QED BY <1>6, <3>1, <3>2
    <2> QED BY <2>3, <2>4, <2>5, <2>6, <2>8, <2>9 DEF HandlerKeeps, RecordedWellFormed
  <1> QED BY <1>4, <1>5, <1>6 DEF emitCurrentStateStatement

----------------------------------------------------------------------------
(***************************************************************************)
(* One lemma per action; the innermost advanceSlot has a well-formed hint. *)
(***************************************************************************)
LEMMA TopType ==
    ASSUME IInv, NEW n \in Node, InAdvanceSlot(n)
    PROVE  /\ Len(calls[n]) \in Nat \ {0}
           /\ Top(n) \in Frame /\ Top(n).hint \in SCPStatement /\ WellFormed(Top(n).hint)
  <1>1. calls[n] \in Seq(Frame) /\ calls[n] # <<>>
    BY DEF IInv, TypeOK, InAdvanceSlot
  <1>2. Len(calls[n]) \in Nat \ {0}
    BY <1>1
  <1>3. Top(n) \in Frame /\ WellFormed(Top(n).hint)
    BY <1>1, <1>2 DEF Top, IInv, RecordedWellFormed
  <1> QED BY <1>2, <1>3 DEF Frame

\* Every attempt* leaves a well-typed state.
LEMMA OutcomeType ==
    ASSUME WellOrdered, IInv, NEW n \in Node, InAdvanceSlot(n), NEW k \in 1 .. 5
    PROVE  Outcome(n, k) \in LocalState
  <1>1. Top(n).hint \in SCPStatement /\ WellFormed(Top(n).hint)
    BY TopType
  <1>2. TypeOK /\ RecordedWellFormed /\ local[n] \in LocalState
    BY DEF IInv, TypeOK
  <1>3. CASE k = 1
    BY <1>1, <1>2, <1>3, attemptPreparedAcceptType DEF Outcome
  <1>4. CASE k = 2
    BY <1>1, <1>2, <1>4, attemptPreparedConfirmedType DEF Outcome
  <1>5. CASE k = 3
    BY <1>1, <1>2, <1>5, attemptAcceptCommitType DEF Outcome
  <1>6. CASE k = 4
    BY <1>1, <1>2, <1>6, attemptConfirmCommitType DEF Outcome
  <1>7. CASE k = 5
    BY <1>2, <1>7, attemptBumpType DEF Outcome
  <1> QED BY <1>3, <1>4, <1>5, <1>6, <1>7

\* An attempt moves its call on to the next attempt.
LEMMA AdvanceStackType ==
    ASSUME IInv, NEW n \in Node, InAdvanceSlot(n), NEW j \in 1 .. 5
    PROVE  LET stack == [calls[n] EXCEPT ![Len(calls[n])].next = j]
           IN  /\ stack \in Seq(Frame)
               /\ Len(stack) = Len(calls[n])
               /\ \A i \in 1 .. Len(stack) : WellFormed(stack[i].hint)
  <1> DEFINE l == Len(calls[n])
             stack == [calls[n] EXCEPT ![l].next = j]
             g == [calls[n][l] EXCEPT !.next = j]
  <1>1. calls[n] \in Seq(Frame) /\ l \in Nat \ {0}
    BY TopType DEF IInv, TypeOK
  <1>2. calls[n][l] \in Frame
    BY <1>1
  <1>3. g \in Frame /\ g.hint = calls[n][l].hint
    BY <1>2 DEF Frame
  <1>4. stack = [calls[n] EXCEPT ![l] = g]
    OBVIOUS
  <1> HIDE DEF g
  <1>5. stack \in Seq(Frame) /\ Len(stack) = Len(calls[n])
        /\ \A i \in 1 .. Len(calls[n]) : stack[i] = IF i = l THEN g ELSE calls[n][i]
    BY <1>1, <1>3, <1>4
  <1>6. \A i \in 1 .. Len(calls[n]) : WellFormed(calls[n][i].hint)
    BY DEF IInv, RecordedWellFormed
  <1> QED BY <1>3, <1>5, <1>6

\* An attempt*, with the statement it emits, keeps the invariant.
LEMMA AttemptKeepsIInv ==
    ASSUME WellOrdered, IInv, NEW n \in Node, InAdvanceSlot(n), NEW k \in 1 .. 5, Attempt(n, k)
    PROVE  IInv'
  <1> DEFINE j == IF k = 5 THEN 5 ELSE k + 1
             stack == [calls[n] EXCEPT ![Len(calls[n])].next = j]
             s == Outcome(n, k)
             purpose == IF k = 5 THEN "bump" ELSE "emit"
  <1>1. j \in 1 .. 5 /\ purpose \in {"emit", "bump"}
    OBVIOUS
  <1>2. s \in LocalState
    BY OutcomeType
  <1>3. calls[n] \in Seq(Frame) /\ Len(calls[n]) \in Nat \ {0} /\ TypeOK
    BY TopType DEF IInv, TypeOK
  <1>4. stack \in Seq(Frame)
        /\ \A i \in 1 .. Len(stack) : WellFormed(stack[i].hint)
    BY <1>1, AdvanceStackType, Zenon
  <1>5. ASSUME emitCurrentStateStatement(n, s, stack, purpose) PROVE HandlerKeeps
    <2> HIDE DEF s, stack, purpose
    <2> QED BY <1>1, <1>2, <1>4, <1>5, EmitKeeps
  <1>6. ASSUME /\ local' = [local EXCEPT ![n] = s]
               /\ calls' = [calls EXCEPT ![n] = stack]
               /\ UNCHANGED <<latest, last>>
        PROVE  HandlerKeeps
    <2> HIDE DEF s, stack
    <2>1. \A m \in Node : \A i \in 1 .. Len(calls'[m]) : WellFormed(calls'[m][i].hint)
      BY <1>3, <1>4, <1>6 DEF IInv, TypeOK, RecordedWellFormed
    <2>2. RecordedWellFormed'
      BY <1>6, <2>1 DEF IInv, RecordedWellFormed
    <2>3. \A m \in Node : LastOK(m, last[m])
      BY Zenon DEF IInv, LastHasBallot, LastOK
    <2> QED BY <1>2, <1>3, <1>4, <1>6, <2>2, <2>3 DEF TypeOK, HandlerKeeps
  <1>7. HandlerKeeps
    BY <1>5, <1>6 DEF Attempt
  <1>8. UNCHANGED <<emitted, candidate, sent, timeouts, restarts>>
    BY DEF Attempt
  <1> QED BY <1>3, <1>7, <1>8, QuietStep DEF TypeOK

\* The return from advanceSlot, which may send, keeps the invariant.
LEMMA ReturnKeepsIInv ==
    ASSUME IInv, NEW n \in Node, InAdvanceSlot(n), ReturnFromAdvanceSlot(n)
    PROVE  IInv'
  <1> DEFINE outer == SubSeq(calls[n], 1, Len(calls[n]) - 1)
             purpose == Top(n).purpose
             newLast == IF purpose = "receive" THEN last[n]
                        ELSE nextLast(n, Top(n).hint)
             send == /\ outer = <<>>
                     /\ local[n].fullyValidated
                     /\ newLast # emitted[n]
             s == IF outer = <<>> \/ purpose = "bump"
                  THEN checkHeardFromQuorum(n, local[n]) ELSE local[n]
  <1>1. TypeOK /\ RecordedWellFormed /\ LastHasBallot
    BY DEF IInv
  <1>2. calls[n] \in Seq(Frame) /\ Len(calls[n]) \in Nat \ {0}
    BY <1>1, TopType DEF TypeOK
  <1>3. outer \in Seq(Frame)
        /\ \A i \in 1 .. Len(outer) : WellFormed(outer[i].hint)
    <2>1. \A i \in 1 .. Len(calls[n]) : WellFormed(calls[n][i].hint)
      BY <1>1 DEF RecordedWellFormed
    <2>2. /\ outer \in Seq(Frame) /\ Len(outer) = Len(calls[n]) - 1
          /\ \A i \in 1 .. Len(outer) : outer[i] = calls[n][i]
      BY <1>2
    <2> HIDE DEF outer
    <2>3. Len(outer) \in Nat /\ Len(outer) <= Len(calls[n])
      BY <1>2, <2>2
    <2>4. ASSUME NEW i \in 1 .. Len(outer) PROVE WellFormed(outer[i].hint)
      <3>1. i \in 1 .. Len(calls[n])
        BY <1>2, <2>3
      <3>2. outer[i] = calls[n][i]
        BY <2>2
      <3> QED BY <2>1, <3>1, <3>2, Zenon
    <2> QED BY <2>2, <2>4, Zenon
  <1>4. s \in LocalState
    BY <1>1, checkHeardFromQuorumType DEF TypeOK
  <1>5. /\ newLast \in SCPStatement
        /\ LastOK(n, newLast)
        /\ last[n] # NoStatement(n) => newLast # NoStatement(n)
    <2>1. last[n] \in SCPStatement /\ LastOK(n, last[n])
      BY <1>1, Zenon DEF TypeOK, LastHasBallot, LastOK
    <2> QED BY <1>1, <2>1, TopType, nextLastType
  <1>6. /\ local' = [local EXCEPT ![n] = s]
        /\ calls' = [calls EXCEPT ![n] = outer]
        /\ last' = [last EXCEPT ![n] = newLast]
        /\ emitted' = [emitted EXCEPT ![n] = IF send THEN newLast ELSE @]
        /\ sent' = IF send THEN sent \cup {newLast} ELSE sent
        /\ UNCHANGED <<latest, candidate, timeouts, restarts>>
    BY <1>1 DEF ReturnFromAdvanceSlot, TypeOK
  <1>7. send => newLast # emitted[n]
    OBVIOUS
  <1> HIDE DEF outer, newLast, send, s
  <1>8. RecordedWellFormed'
    <2>1. \A m \in Node : \A i \in 1 .. Len(calls'[m]) : WellFormed(calls'[m][i].hint)
      BY <1>1, <1>3, <1>6 DEF TypeOK, RecordedWellFormed
    <2> QED BY <1>1, <1>6, <2>1 DEF RecordedWellFormed
  <1>9. TypeOK'
    <2>1. local' \in [Node -> LocalState] /\ calls' \in [Node -> Seq(Frame)]
      BY <1>1, <1>3, <1>4, <1>6 DEF TypeOK
    <2>2. last' \in [Node -> SCPStatement] /\ emitted' \in [Node -> SCPStatement]
      BY <1>1, <1>5, <1>6 DEF TypeOK
    <2>3. sent' \in SUBSET SCPStatement
      BY <1>1, <1>5, <1>6 DEF TypeOK
    <2> QED BY <1>1, <1>6, <2>1, <2>2, <2>3 DEF TypeOK
  <1>10. send => newLast # NoStatement(n)
    BY <1>1, <1>5, <1>7 DEF LastHasBallot
  <1>11. send => WellFormed(newLast) /\ isStatementSane(newLast, FALSE)
    BY <1>5, <1>10, Zenon DEF LastOK
  <1>12. SentIsSane'
    BY <1>6, <1>11, Zenon DEF IInv, SentIsSane
  <1>13. LastHasBallot'
    <2>1. \A st \in sent' : WellFormed(st)
      BY <1>1, <1>6, <1>11, Zenon DEF LastHasBallot
    <2>2. \A m \in Node :
              \/ last'[m] = NoStatement(m)
              \/ WellFormed(last'[m]) /\ isStatementSane(last'[m], FALSE)
      BY <1>1, <1>5, <1>6, Zenon DEF LastHasBallot, LastOK, TypeOK
    <2>3. \A m \in Node :
              \/ emitted'[m] = NoStatement(m)
              \/ emitted'[m] \in sent' /\ last'[m] # NoStatement(m)
      BY <1>1, <1>5, <1>6, <1>10 DEF LastHasBallot, TypeOK
    <2> QED BY <2>1, <2>2, <2>3, Zenon DEF LastHasBallot
  <1> QED BY <1>8, <1>9, <1>12, <1>13 DEF IInv

\* processEnvelope of another node's statement keeps the invariant.
LEMMA processEnvelopeKeepsIInv ==
    ASSUME IInv, NEW n \in Node, NEW st \in sent, processEnvelope(n, st)
    PROVE  IInv'
  <1>1. TypeOK /\ RecordedWellFormed /\ LastHasBallot
    BY DEF IInv
  <1>2. st \in SCPStatement /\ st.node \in Node /\ WellFormed(st)
    BY <1>1, StatementTypes DEF TypeOK, LastHasBallot
  <1>3. /\ latest' = [latest EXCEPT ![n][st.node] = st]
        /\ UNCHANGED <<last, emitted, candidate, sent, timeouts, restarts>>
    BY DEF processEnvelope
  <1> DEFINE f == [hint |-> st, next |-> 1, purpose |-> "receive"]
             w == validated(n, local[n], st)
  <1>4. f \in Frame /\ f.hint = st
    BY <1>2 DEF Frame
  <1>5. w \in LocalState
    BY <1>1, validatedType DEF TypeOK
  <1>6. \/ UNCHANGED <<local, calls>>
        \/ /\ local' = [local EXCEPT ![n] = w]
           /\ calls' = [calls EXCEPT ![n] = <<f>>]
    BY <1>1 DEF processEnvelope, TypeOK
  <1> HIDE DEF f, w
  <1>7. local' \in [Node -> LocalState] /\ calls' \in [Node -> Seq(Frame)]
    <2>1. <<f>> \in Seq(Frame)
      BY <1>4
    <2>2. local' \in [Node -> LocalState]
      BY <1>1, <1>5, <1>6 DEF TypeOK
    <2>3. calls' \in [Node -> Seq(Frame)]
      <3> DEFINE z == <<f>>
      <3> HIDE DEF z
      <3>1. z \in Seq(Frame)
        BY <2>1 DEF z
      <3>2. UNCHANGED calls \/ calls' = [calls EXCEPT ![n] = z]
        BY <1>6 DEF z
      <3> QED BY <1>1, <3>1, <3>2, Zenon DEF TypeOK
    <2> QED BY <2>2, <2>3
  <1>8. \A m \in Node : \A i \in 1 .. Len(calls'[m]) : WellFormed(calls'[m][i].hint)
    <2>1. Len(<<f>>) = 1 /\ <<f>>[1] = f
      OBVIOUS
    <2>2. \A i \in 1 .. Len(<<f>>) : WellFormed(<<f>>[i].hint)
      BY <1>2, <1>4, <2>1
    <2> QED BY <1>1, <1>6, <2>2, Zenon DEF TypeOK, RecordedWellFormed
  <1>9. latest' \in [Node -> [Node -> SCPStatement]]
    BY <1>1, <1>2, <1>3 DEF TypeOK
  <1>10. \A k, m \in Node :
             latest'[k][m].type = "NONE" \/ WellFormed(latest'[k][m])
    BY <1>1, <1>2, <1>3 DEF TypeOK, RecordedWellFormed
  <1>11. \A m \in Node : LastOK(m, last[m])
    BY <1>1, Zenon DEF LastHasBallot, LastOK
  <1>12. HandlerKeeps
    BY <1>1, <1>3, <1>7, <1>8, <1>9, <1>10, <1>11, Zenon DEF HandlerKeeps, RecordedWellFormed, TypeOK
  <1> QED BY <1>1, <1>3, <1>12, QuietStep DEF TypeOK

\* bumpState from nomination keeps the invariant.
LEMMA NewCandidateKeepsIInv ==
    ASSUME IInv, NEW n \in Node, NEW v \in Composites[n], NewCandidate(n, v)
    PROVE  IInv'
  <1>1. TypeOK /\ RecordedWellFormed /\ LastHasBallot
    BY DEF IInv
  <1>2. v \in Value
    BY CompositesAssumption DEF CompositesAssumption
  <1>3. candidate' \in [Node -> Value \cup {NoValue}]
    BY <1>1, <1>2 DEF NewCandidate, TypeOK
  <1>4. UNCHANGED <<emitted, sent, timeouts, restarts>>
    BY DEF NewCandidate
  <1>5. \A m \in Node : LastOK(m, last[m])
    BY <1>1, Zenon DEF LastHasBallot, LastOK
  <1>6. ASSUME UNCHANGED <<local, latest, last, calls>> PROVE HandlerKeeps
    <2>1. RecordedWellFormed'
      BY <1>1, <1>6 DEF RecordedWellFormed
    <2> QED BY <1>1, <1>5, <1>6, <2>1 DEF HandlerKeeps, TypeOK
  <1> DEFINE s == bumpState(local[n], v, 1)
  <1>7. ASSUME emitCurrentStateStatement(n, s, <<>>, "bump") PROVE HandlerKeeps
    <2>1. s \in LocalState
      <3>1. local[n] \in LocalState /\ 1 \in Counter
        BY <1>1, NumberTypes DEF TypeOK, Counter
      <3> QED BY <1>2, <3>1, bumpStateType
    <2>2. <<>> \in Seq(Frame) /\ \A i \in 1 .. Len(<<>>) : WellFormed(<<>>[i].hint)
      OBVIOUS
    <2> HIDE DEF s
    <2> QED BY <1>7, <2>1, <2>2, EmitKeeps, Zenon
  <1>8. HandlerKeeps
    BY <1>6, <1>7 DEF NewCandidate
  <1> QED BY <1>1, <1>3, <1>4, <1>8, QuietStep DEF TypeOK

\* The timer of the ballot protocol keeps the invariant.
LEMMA TimerKeepsIInv ==
    ASSUME IInv, NEW n \in Node, ballotProtocolTimerExpired(n)
    PROVE  IInv'
  <1> DEFINE s == [local[n] EXCEPT !.timer = FALSE]
             t == abandonBallot(s, candidate[n], 0)
  <1>1. TypeOK /\ RecordedWellFormed /\ LastHasBallot
    BY DEF IInv
  <1>2. s \in LocalState
    <2>1. local[n] \in LocalState
      BY <1>1 DEF TypeOK
    <2> QED BY <2>1, Zenon DEF LocalState
  <1>3. t \in LocalState
    <2> HIDE DEF s
    <2>1. candidate[n] \in Value \cup {NoValue} /\ 0 \in Counter
      BY <1>1, NumberTypes DEF TypeOK, Counter
    <2> QED BY <1>2, <2>1, abandonBallotType
  <1>4. UNCHANGED <<emitted, candidate, sent, restarts>>
        /\ timeouts' \in 0 .. MaxTimeouts
    BY <1>1, BoundsAssumption DEF ballotProtocolTimerExpired, TypeOK, BoundsAssumption
  <1>5. \/ emitCurrentStateStatement(n, t, <<>>, "bump")
        \/ /\ local' = [local EXCEPT ![n] = s]
           /\ UNCHANGED <<latest, last, calls>>
    BY DEF ballotProtocolTimerExpired
  <1> HIDE DEF s, t
  <1>6. ASSUME emitCurrentStateStatement(n, t, <<>>, "bump") PROVE HandlerKeeps
    <2>1. <<>> \in Seq(Frame) /\ \A i \in 1 .. Len(<<>>) : WellFormed(<<>>[i].hint)
      OBVIOUS
    <2> QED BY <1>3, <1>6, <2>1, EmitKeeps, Zenon
  <1>7. ASSUME local' = [local EXCEPT ![n] = s], UNCHANGED <<latest, last, calls>>
        PROVE  HandlerKeeps
    <2>1. RecordedWellFormed'
      BY <1>1, <1>7 DEF RecordedWellFormed
    <2>2. \A m \in Node : LastOK(m, last[m])
      BY <1>1, Zenon DEF LastHasBallot, LastOK
    <2> QED BY <1>1, <1>2, <1>7, <2>1, <2>2 DEF HandlerKeeps, TypeOK
  <1> QED BY <1>1, <1>4, <1>5, <1>6, <1>7, QuietStep DEF TypeOK

\* A restart keeps the invariant.
LEMMA RestartKeepsIInv ==
    ASSUME IInv, NEW n \in Node, Restart(n)
    PROVE  IInv'
  <1>1. TypeOK /\ RecordedWellFormed /\ LastHasBallot
    BY DEF IInv
  <1> DEFINE st == emitted[n]
             s == setStateFromEnvelope(st)
             L == [m \in Node |-> IF m = n THEN st ELSE NoStatement(m)]
  <1>2. st \in SCPStatement
    BY <1>1 DEF TypeOK
  <1>3. /\ LastOK(n, st)
        /\ st.type = "NONE" \/ (WellFormed(st) /\ isStatementSane(st, FALSE))
    BY NoStatementTyped, Zenon DEF IInv, LastHasBallot, SentIsSane, LastOK
  <1>4. s \in LocalState
    BY <1>2, <1>3, setStateFromEnvelopeType, Zenon
  <1>5. L \in [Node -> SCPStatement]
        /\ \A m \in Node : L[m].type = "NONE" \/ WellFormed(L[m])
    BY <1>2, <1>3, NoStatementTyped, Zenon
  <1>6. /\ local' = [local EXCEPT ![n] = s]
        /\ latest' = [latest EXCEPT ![n] = L]
        /\ last' = [last EXCEPT ![n] = st]
        /\ candidate' = [candidate EXCEPT ![n] = NoValue]
        /\ UNCHANGED <<emitted, calls, sent, timeouts>>
        /\ restarts' = restarts + 1 /\ restarts < MaxRestarts
    BY DEF Restart, RestartFrom
  <1>7. UNCHANGED <<emitted, sent>>
    BY <1>6
  <1> HIDE DEF s, L
  <1>8. restarts' \in 0 .. MaxRestarts
    BY <1>1, <1>6, BoundsAssumption DEF TypeOK, BoundsAssumption
  <1>9. TypeOK'
    BY <1>1, <1>2, <1>4, <1>5, <1>6, <1>8 DEF TypeOK
  <1>10. RecordedWellFormed'
    BY <1>1, <1>5, <1>6 DEF TypeOK, RecordedWellFormed
  <1>11. SentIsSane'
    BY <1>7, Zenon DEF IInv, SentIsSane
  <1>12. LastHasBallot'
    <2>1. \A x \in sent' : WellFormed(x)
      BY <1>1, <1>7 DEF LastHasBallot
    <2>2. \A m \in Node :
              \/ last'[m] = NoStatement(m)
              \/ WellFormed(last'[m]) /\ isStatementSane(last'[m], FALSE)
      BY <1>1, <1>3, <1>6, Zenon DEF LastHasBallot, LastOK, TypeOK
    <2>3. \A m \in Node :
              \/ emitted'[m] = NoStatement(m)
              \/ emitted'[m] \in sent' /\ last'[m] # NoStatement(m)
      BY <1>1, <1>6 DEF LastHasBallot, TypeOK
    <2> QED BY <2>1, <2>2, <2>3, Zenon DEF LastHasBallot
  <1> QED BY <1>9, <1>10, <1>11, <1>12 DEF IInv

\* The invariant holds initially.
LEMMA InitIInv == Init => IInv
  <1> SUFFICES ASSUME Init PROVE IInv
    OBVIOUS
  <1>1. TypeOK
    <2>1. 0 \in 0 .. MaxTimeouts /\ 0 \in 0 .. MaxRestarts
      BY BoundsAssumption DEF BoundsAssumption
    <2> QED BY <2>1, InitLocalType, NoStatementTyped DEF Init, TypeOK
  <1>2. RecordedWellFormed
    <2>1. ASSUME NEW n \in Node, NEW m \in Node
          PROVE  latest[n][m].type = "NONE"
      <3>1. latest[n][m] = NoStatement(m)
        BY Zenon DEF Init
      <3> QED BY <3>1, NoStatementTyped
    <2>2. ASSUME NEW n \in Node PROVE calls[n] = <<>>
      BY Zenon DEF Init
    <2>3. \A n \in Node : Len(calls[n]) = 0
      BY <2>2
    <2> QED BY <2>1, <2>3, SMTT(30) DEF RecordedWellFormed
  <1>3. SentIsSane /\ LastHasBallot
    BY DEF Init, SentIsSane, LastHasBallot
  <1> QED BY <1>1, <1>2, <1>3 DEF IInv

\* Every step keeps the invariant.
LEMMA NextKeepsIInv ==
    ASSUME WellOrdered, IInv, [Next]_vars
    PROVE  IInv'
  <1>1. CASE UNCHANGED vars
    BY <1>1, Zenon DEF vars, IInv, TypeOK, SentIsSane, RecordedWellFormed, LastHasBallot
  <1>2. ASSUME NEW n \in Node, advanceSlot(n) PROVE IInv'
    <2>1. InAdvanceSlot(n)
      BY <1>2 DEF advanceSlot
    <2>2. \/ \E k \in 1 .. 5 : Attempt(n, k)
          \/ ReturnFromAdvanceSlot(n)
      BY <1>2 DEF advanceSlot, AcceptPrepared, ConfirmPrepared, AcceptCommit,
                  ConfirmCommit, Bump
    <2> QED BY <2>1, <2>2, AttemptKeepsIInv, ReturnKeepsIInv
  <1>3. ASSUME NEW n \in Node, NEW st \in sent, processEnvelope(n, st) PROVE IInv'
    BY <1>3, processEnvelopeKeepsIInv
  <1>4. ASSUME NEW n \in Node, NEW v \in Composites[n], NewCandidate(n, v) PROVE IInv'
    BY <1>4, NewCandidateKeepsIInv
  <1>5. ASSUME NEW n \in Node, ballotProtocolTimerExpired(n) PROVE IInv'
    BY <1>5, TimerKeepsIInv
  <1>6. ASSUME NEW n \in Node, Restart(n) PROVE IInv'
    BY <1>6, RestartKeepsIInv
  <1> QED BY <1>1, <1>2, <1>3, <1>4, <1>5, <1>6 DEF Next

----------------------------------------------------------------------------
(***************************************************************************)
(* What a node has recorded, emitted and sent of its own stays in order.   *)
(***************************************************************************)

(***************************************************************************)
(* The statements of its own that node n is processing.                    *)
(***************************************************************************)
OwnIn(stack) ==
    {stack[i].hint : i \in {j \in 1 .. Len(stack) : stack[j].purpose # "receive"}}

Own(n) == OwnIn(calls[n])

(***************************************************************************)
(* x is y or an older statement.                                           *)
(***************************************************************************)
NotAfter(x, y) == x = y \/ isNewerStatement(x, y)

(***************************************************************************)
(* The inductive invariant, per node.                                      *)
(***************************************************************************)
Labelled(n) ==
    \A st \in {latest[n][n], last[n], emitted[n]} \cup Own(n) : st.node = n

InOrder(n) ==
    /\ \A st \in sent : st.node = n => NotAfter(st, emitted[n])
    /\ NotAfter(emitted[n], last[n])
    /\ NotAfter(last[n], latest[n][n])
    /\ \A st \in Own(n) : NotAfter(st, latest[n][n])

Current(n) ==
    /\ local[n].failed => calls[n] = <<>>
    /\ ~local[n].failed => Reflects(n, local[n], latest[n][n])

(***************************************************************************)
(* What a node last recorded for itself is on its way to be sent: it has   *)
(* become mLastEnvelope or will when the call processing it returns, and   *)
(* when no call is active mLastEnvelope has been sent, unless the node has *)
(* seen a value it could not fully validate.                               *)
(***************************************************************************)
OnItsWay(n) ==
    ~local[n].failed =>
        /\ Present(latest[n][n].b) => latest[n][n] \in {last[n]} \cup Own(n)
        /\ calls[n] = <<>> /\ local[n].fullyValidated => emitted[n] = last[n]

Records(n) == Labelled(n) /\ InOrder(n) /\ Current(n) /\ OnItsWay(n)

RInv == IInv /\ \A n \in Node : Records(n)

----------------------------------------------------------------------------
(***************************************************************************)
(* isNewerStatement is a strict order on the statements of one node.       *)
(***************************************************************************)
LEMMA LessTransitive ==
    ASSUME NEW x \in SCPBallot, NEW y \in SCPBallot, NEW z \in SCPBallot
    PROVE  /\ ~Less(x, x)
           /\ Less(x, y) /\ Less(y, z) => Less(x, z)
  BY BallotTypes DEF Less

\* No statement is newer than itself.
LEMMA NewerIrreflexive ==
    ASSUME NEW st \in SCPStatement
    PROVE  ~isNewerStatement(st, st)
  <1>1. /\ ~Less(st.b, st.b) /\ ~Less(st.p, st.p) /\ ~Less(st.pp, st.pp)
        /\ st.nH \in Nat /\ st.nP \in Nat
    BY StatementTypes, LessTransitive, NumberTypes, Zenon
  <1>2. ~(TypeRank(st) < TypeRank(st))
    BY TypeRanks
  <1> QED BY <1>1, <1>2 DEF isNewerStatement, isNewerPrepare, isNewerConfirm

\* What is newer than a newer statement is newer.
LEMMA NewerTransitive ==
    ASSUME NEW x \in SCPStatement, NEW y \in SCPStatement, NEW z \in SCPStatement,
           isNewerStatement(x, y), isNewerStatement(y, z)
    PROVE  isNewerStatement(x, z)
  <1>1. /\ TypeRank(x) \in 0 .. 3 /\ TypeRank(y) \in 0 .. 3 /\ TypeRank(z) \in 0 .. 3
        /\ x.type = "PREPARE" <=> TypeRank(x) = 1
        /\ y.type = "PREPARE" <=> TypeRank(y) = 1
        /\ z.type = "PREPARE" <=> TypeRank(z) = 1
        /\ x.type = "CONFIRM" <=> TypeRank(x) = 2
        /\ y.type = "CONFIRM" <=> TypeRank(y) = 2
        /\ z.type = "CONFIRM" <=> TypeRank(z) = 2
    BY TypeRanks
  <1>2. /\ x.nH \in Nat /\ y.nH \in Nat /\ z.nH \in Nat
        /\ x.nP \in Nat /\ y.nP \in Nat /\ z.nP \in Nat
    BY StatementTypes, NumberTypes, Zenon
  <1>3. /\ Less(x.b, y.b) /\ Less(y.b, z.b) => Less(x.b, z.b)
        /\ Less(x.p, y.p) /\ Less(y.p, z.p) => Less(x.p, z.p)
        /\ Less(x.pp, y.pp) /\ Less(y.pp, z.pp) => Less(x.pp, z.pp)
    BY StatementTypes, LessTransitive
  <1>4. CASE TypeRank(x) < TypeRank(y) \/ TypeRank(y) < TypeRank(z)
    <2>1. TypeRank(x) <= TypeRank(y) /\ TypeRank(y) <= TypeRank(z)
      BY <1>1 DEF isNewerStatement
    <2>2. TypeRank(x) < TypeRank(z)
      BY <1>1, <1>4, <2>1
    <2> QED BY <2>2 DEF isNewerStatement
  <1>5. CASE x.type = "PREPARE" /\ y.type = "PREPARE" /\ z.type = "PREPARE"
    <2>1. isNewerPrepare(x, y) /\ isNewerPrepare(y, z)
      BY <1>1, <1>5 DEF isNewerStatement
    <2>2. isNewerPrepare(x, z)
      BY <1>2, <1>3, <2>1 DEF isNewerPrepare
    <2> QED BY <1>5, <2>2 DEF isNewerStatement
  <1>6. CASE x.type = "CONFIRM" /\ y.type = "CONFIRM" /\ z.type = "CONFIRM"
    <2>1. isNewerConfirm(x, y) /\ isNewerConfirm(y, z)
      BY <1>1, <1>6 DEF isNewerStatement
    <2>2. isNewerConfirm(x, z)
      BY <1>2, <1>3, <2>1 DEF isNewerConfirm
    <2> QED BY <1>6, <2>2 DEF isNewerStatement
  <1> QED BY <1>1, <1>4, <1>5, <1>6 DEF isNewerStatement

\* The same for NotAfter on either side.
LEMMA NotAfterTransitive ==
    ASSUME NEW x \in SCPStatement, NEW y \in SCPStatement, NEW z \in SCPStatement,
           NotAfter(x, y)
    PROVE  /\ NotAfter(y, z) => NotAfter(x, z)
           /\ isNewerStatement(y, z) => isNewerStatement(x, z)
  BY NewerTransitive, Zenon DEF NotAfter

\* Of two different statements at most one is newer.
LEMMA NotAfterNewer ==
    ASSUME NEW x \in SCPStatement, NEW y \in SCPStatement,
           NotAfter(x, y), isNewerStatement(y, x)
    PROVE  FALSE
  BY NewerTransitive, NewerIrreflexive, Zenon DEF NotAfter

----------------------------------------------------------------------------
(***************************************************************************)
(* The statements of its own on a node's call stack.                       *)
(***************************************************************************)
LEMMA OwnEmpty == OwnIn(<<>>) = {}
  BY DEF OwnIn

\* A new call adds its statement.
LEMMA OwnAppend ==
    ASSUME NEW stack \in Seq(Frame), NEW f \in Frame, f.purpose # "receive"
    PROVE  OwnIn(Append(stack, f)) = OwnIn(stack) \cup {f.hint}
  <1> DEFINE t == Append(stack, f)
             l == Len(stack)
  <1>1. /\ l \in Nat /\ Len(t) = l + 1
        /\ \A i \in 1 .. l : t[i] = stack[i]
        /\ t[l + 1] = f
    OBVIOUS
  <1> HIDE DEF t, l
  <1>2. ASSUME NEW st \in OwnIn(t) PROVE st \in OwnIn(stack) \cup {f.hint}
    <2>1. PICK i \in 1 .. Len(t) : t[i].purpose # "receive" /\ st = t[i].hint
      BY DEF OwnIn
    <2>2. i = l + 1 \/ i \in 1 .. l
      BY <1>1, <2>1
    <2> QED BY <1>1, <2>1, <2>2 DEF OwnIn, l
  <1>3. ASSUME NEW st \in OwnIn(stack) PROVE st \in OwnIn(t)
    <2>1. PICK i \in 1 .. l : stack[i].purpose # "receive" /\ st = stack[i].hint
      BY DEF OwnIn, l
    <2>2. i \in 1 .. Len(t)
      BY <1>1
    <2> QED BY <1>1, <2>1, <2>2 DEF OwnIn
  <1>4. f.hint \in OwnIn(t)
    <2>1. l + 1 \in 1 .. Len(t)
      BY <1>1
    <2> QED BY <1>1, <2>1 DEF OwnIn
  <1>5. OwnIn(t) = OwnIn(stack) \cup {f.hint}
    BY <1>2, <1>3, <1>4
  <1> QED BY <1>5 DEF t

\* The next attempt of a call changes none.
LEMMA OwnAdvance ==
    ASSUME NEW stack \in Seq(Frame), Len(stack) # 0, NEW j
    PROVE  OwnIn([stack EXCEPT ![Len(stack)].next = j]) = OwnIn(stack)
  <1> DEFINE l == Len(stack)
             g == [stack[l] EXCEPT !.next = j]
             t == [stack EXCEPT ![l] = g]
  <1>1. l \in Nat /\ l # 0 /\ stack[l] \in Frame
    OBVIOUS
  <1>2. g.hint = stack[l].hint /\ g.purpose = stack[l].purpose
    BY <1>1 DEF Frame
  <1>4. [stack EXCEPT ![Len(stack)].next = j] = t
    OBVIOUS
  <1> HIDE DEF g
  <1>3. /\ Len(t) = l
        /\ \A i \in 1 .. l : t[i] = IF i = l THEN g ELSE stack[i]
    BY <1>1
  <1> HIDE DEF t
  <1>5. \A i \in 1 .. l : t[i].hint = stack[i].hint /\ t[i].purpose = stack[i].purpose
    BY <1>2, <1>3
  <1>6. OwnIn(t) = OwnIn(stack)
    BY <1>3, <1>5 DEF OwnIn
  <1> QED BY <1>4, <1>6, Zenon

\* A stack without its last frame.
LEMMA WithoutLast ==
    ASSUME NEW stack \in Seq(Frame), NEW l \in Nat \ {0}, l = Len(stack)
    PROVE  /\ Len(SubSeq(stack, 1, l - 1)) = l - 1
           /\ \A i \in 1 .. l - 1 : SubSeq(stack, 1, l - 1)[i] = stack[i]
  OBVIOUS

\* The return of the innermost call removes its statement, if it is the node's own.
LEMMA OwnReturn ==
    ASSUME NEW stack \in Seq(Frame), Len(stack) # 0
    PROVE  OwnIn(stack) =
               OwnIn(SubSeq(stack, 1, Len(stack) - 1))
                   \cup (IF stack[Len(stack)].purpose = "receive" THEN {}
                         ELSE {stack[Len(stack)].hint})
  <1> DEFINE l == Len(stack)
             t == SubSeq(stack, 1, l - 1)
  <1>1. l \in Nat \ {0} /\ stack \in Seq(Frame)
    OBVIOUS
  <1>2. Len(t) = l - 1 /\ \A i \in 1 .. l - 1 : t[i] = stack[i]
    BY <1>1, WithoutLast, Zenon
  <1> HIDE DEF t, l
  <1>3. ASSUME NEW st \in OwnIn(t) PROVE st \in OwnIn(stack)
    <2>1. PICK i \in 1 .. Len(t) : t[i].purpose # "receive" /\ st = t[i].hint
      BY DEF OwnIn
    <2>2. i \in 1 .. l - 1 /\ i \in 1 .. l
      BY <1>1, <1>2
    <2> QED BY <1>2, <2>1, <2>2 DEF OwnIn, l
  <1>4. stack[l].purpose # "receive" => stack[l].hint \in OwnIn(stack)
    <2>1. l \in 1 .. l
      BY <1>1
    <2> QED BY <2>1 DEF OwnIn, l
  <1>5. ASSUME NEW st \in OwnIn(stack)
        PROVE  \/ st \in OwnIn(t)
               \/ stack[l].purpose # "receive" /\ st = stack[l].hint
    <2>1. PICK i \in 1 .. l : stack[i].purpose # "receive" /\ st = stack[i].hint
      BY DEF OwnIn, l
    <2>2. CASE i = l
      BY <2>1, <2>2
    <2>3. CASE i # l
      <3>1. i \in 1 .. l - 1
        BY <1>1, <2>3
      <3> QED BY <1>2, <2>1, <3>1 DEF OwnIn
    <2> QED BY <2>2, <2>3
  <1> DEFINE X == IF stack[l].purpose = "receive" THEN {} ELSE {stack[l].hint}
  <1>6. \A st : st \in X <=> stack[l].purpose # "receive" /\ st = stack[l].hint
    OBVIOUS
  <1> HIDE DEF X
  <1>7. OwnIn(stack) = OwnIn(t) \cup X
    BY <1>3, <1>4, <1>5, <1>6
  <1> QED BY <1>7 DEF t, X, l

\* Statements on the stack are statements.
LEMMA OwnType ==
    ASSUME NEW stack \in Seq(Frame)
    PROVE  OwnIn(stack) \subseteq SCPStatement
  <1> SUFFICES ASSUME NEW i \in 1 .. Len(stack) PROVE stack[i].hint \in SCPStatement
    BY DEF OwnIn
  <1>1. stack[i] \in Frame
    OBVIOUS
  <1> QED BY <1>1 DEF Frame

----------------------------------------------------------------------------
\* Validation, timers and the value override are not part of a statement.
LEMMA SameBallotsUpdates ==
    ASSUME NEW n \in Node, NEW s \in LocalState, NEW st
    PROVE  /\ SameBallots(validated(n, s, st), s)
           /\ SameBallots(checkHeardFromQuorum(n, s), s)
           /\ SameBallots([s EXCEPT !.timer = FALSE], s)
           /\ \A v : SameBallots([s EXCEPT !.z = v], s)
           /\ validated(n, s, st).failed <=> s.failed
           /\ checkHeardFromQuorum(n, s).failed <=> s.failed
           /\ checkHeardFromQuorum(n, s).fullyValidated <=> s.fullyValidated
  <1> DEFINE f == s.fullyValidated /\ validateValues(n, st) = "kFullyValidatedValue"
             t == s.phase # "EXTERNALIZE" /\ (~s.heard \/ s.timer)
             u == [s EXCEPT !.heard = TRUE, !.timer = t]
             w == [s EXCEPT !.heard = FALSE, !.timer = FALSE]
  <1>1. validated(n, s, st) = [s EXCEPT !.fullyValidated = f]
    BY DEF validated
  <1>2. checkHeardFromQuorum(n, s) \in {s, u, w}
    BY DEF checkHeardFromQuorum
  <1> HIDE DEF f, t
  <1>3. SameBallots(validated(n, s, st), s) /\ (validated(n, s, st).failed <=> s.failed)
    BY <1>1, Zenon DEF SameBallots, LocalState
  <1>4. /\ SameBallots(u, s) /\ SameBallots(w, s) /\ SameBallots(s, s)
        /\ (u.failed <=> s.failed) /\ (w.failed <=> s.failed)
        /\ (u.fullyValidated <=> s.fullyValidated)
        /\ (w.fullyValidated <=> s.fullyValidated)
    BY Zenon DEF SameBallots, LocalState
  <1>5. /\ SameBallots([s EXCEPT !.timer = FALSE], s)
        /\ \A v : SameBallots([s EXCEPT !.z = v], s)
    BY Zenon DEF SameBallots, LocalState
  <1> HIDE DEF u, w
  <1>6. /\ SameBallots(checkHeardFromQuorum(n, s), s)
        /\ checkHeardFromQuorum(n, s).failed <=> s.failed
        /\ checkHeardFromQuorum(n, s).fullyValidated <=> s.fullyValidated
    BY <1>2, <1>4, Zenon
  <1> QED BY <1>3, <1>5, <1>6, Zenon

\* A statement is labelled with the node that makes it.
LEMMA createStatementNode ==
    ASSUME NEW n \in Node, NEW s \in LocalState
    PROVE  createStatement(n, s).node = n
  <1>1. s.phase \in StatementType
    BY DEF LocalState
  <1> QED BY <1>1 DEF createStatement, Prepare, Confirm, Externalize, StatementType

----------------------------------------------------------------------------
(***************************************************************************)
(* A step of node n leaves alone what other nodes have recorded of         *)
(* themselves.                                                             *)
(***************************************************************************)
OnlyNode(n) ==
    /\ \A m \in Node : m # n =>
           /\ local'[m] = local[m] /\ latest'[m] = latest[m] /\ last'[m] = last[m]
           /\ emitted'[m] = emitted[m] /\ calls'[m] = calls[m]
    /\ \A st \in sent' : st \in sent \/ st.node = n

LEMMA OtherNodes ==
    ASSUME NEW n \in Node, OnlyNode(n), NEW m \in Node, m # n, Records(m)
    PROVE  Records(m)'
  <1>1. /\ local'[m] = local[m] /\ latest'[m] = latest[m] /\ last'[m] = last[m]
        /\ emitted'[m] = emitted[m] /\ calls'[m] = calls[m]
    BY DEF OnlyNode
  <1>2. Own(m)' = Own(m)
    BY <1>1 DEF Own
  <1>3. Labelled(m)'
    BY <1>1, <1>2, Zenon DEF Records, Labelled
  <1>4. InOrder(m)'
    <2>1. \A st \in sent' : st.node = m => st \in sent
      BY DEF OnlyNode
    <2> QED BY <1>1, <1>2, <2>1, Zenon DEF Records, InOrder
  <1>5. Current(m)'
    BY <1>1, Zenon DEF Records, Current
  <1>6. OnItsWay(m)'
    BY <1>1, <1>2, Zenon DEF Records, OnItsWay
  <1> QED BY <1>3, <1>4, <1>5, <1>6 DEF Records

(***************************************************************************)
(* emitCurrentStateStatement: the statement is newer than the recorded one *)
(* or nothing changes.                                                     *)
(***************************************************************************)
EmitRecord(n, s, stack, purpose) ==
    LET st == createStatement(n, s)
    IN  /\ ~s.failed /\ checkInvariants(s)
        /\ st # latest[n][n]
        /\ selfValid(n, s, st, Len(stack) + 1)
        /\ latest' = [latest EXCEPT ![n][n] = st]
        /\ IF s.phase = "EXTERNALIZE" THEN
               /\ local' = [local EXCEPT ![n] = s]
               /\ calls' = [calls EXCEPT ![n] = stack]
               /\ last' = [last EXCEPT ![n] = nextLast(n, st)]
           ELSE
               /\ local' = [local EXCEPT ![n] = validated(n, s, st)]
               /\ calls' = [calls EXCEPT ![n] =
                      Append(stack, [hint |-> st, next |-> 1, purpose |-> purpose])]
               /\ last' = last

EmitNothing(n, s, stack) ==
    /\ ~s.failed /\ checkInvariants(s)
    /\ createStatement(n, s) = latest[n][n]
    /\ local' = [local EXCEPT ![n] = s]
    /\ calls' = [calls EXCEPT ![n] = stack]
    /\ UNCHANGED <<latest, last>>

LEMMA EmitCases ==
    ASSUME NEW n \in Node, NEW s \in LocalState, NEW stack, NEW purpose,
           emitCurrentStateStatement(n, s, stack, purpose)
    PROVE  \/ Fail(n, s)
           \/ EmitNothing(n, s, stack)
           \/ EmitRecord(n, s, stack, purpose)
  BY Zenon DEF emitCurrentStateStatement, EmitNothing, EmitRecord

\* What the parts of a node's record are.
LEMMA RecordTypes ==
    ASSUME RInv, NEW n \in Node
    PROVE  /\ local[n] \in LocalState /\ local[n].failed \in BOOLEAN
           /\ latest[n][n] \in SCPStatement /\ last[n] \in SCPStatement
           /\ emitted[n] \in SCPStatement /\ calls[n] \in Seq(Frame)
           /\ Own(n) \subseteq SCPStatement
           /\ TypeOK /\ IInv /\ Records(n)
  <1>1. TypeOK /\ IInv /\ Records(n)
    BY DEF RInv, IInv
  <1>2. /\ local[n] \in LocalState
        /\ latest[n][n] \in SCPStatement /\ last[n] \in SCPStatement
        /\ emitted[n] \in SCPStatement /\ calls[n] \in Seq(Frame)
    BY <1>1 DEF TypeOK
  <1> QED BY <1>1, <1>2, OwnType DEF Own, LocalState

\* An assertion fails: the node keeps its record and stops.
LEMMA FailRecords ==
    ASSUME RInv, NEW n \in Node, NEW s \in LocalState, Fail(n, s),
           UNCHANGED <<emitted, sent>>
    PROVE  OnlyNode(n) /\ Records(n)'
  <1> DEFINE t == [s EXCEPT !.failed = TRUE]
  <1>1. TypeOK /\ Records(n)
    BY RecordTypes
  <1>2. t.failed = TRUE
    BY Zenon DEF LocalState
  <1>3. /\ local' = [local EXCEPT ![n] = t]
        /\ calls' = [calls EXCEPT ![n] = <<>>]
        /\ UNCHANGED <<latest, last, emitted, sent>>
    BY Zenon DEF Fail
  <1> HIDE DEF t
  <1>4. local'[n].failed /\ calls'[n] = <<>>
    BY <1>1, <1>2, <1>3, Zenon DEF TypeOK
  <1>5. Own(n)' = {}
    BY <1>4, OwnEmpty, Zenon DEF Own
  <1>6. OnlyNode(n)
    BY <1>1, <1>3, Zenon DEF OnlyNode, TypeOK
  <1>7. Labelled(n)' /\ InOrder(n)'
    BY <1>1, <1>3, <1>5, Zenon DEF Records, Labelled, InOrder
  <1>8. Current(n)' /\ OnItsWay(n)'
    BY <1>4, Zenon DEF Current, OnItsWay
  <1> QED BY <1>6, <1>7, <1>8 DEF Records

\* The statement is the recorded one: only the state and the stack change.
LEMMA NothingRecords ==
    ASSUME RInv, NEW n \in Node, ~local[n].failed,
           NEW s \in LocalState, ~s.failed, Reflects(n, s, latest[n][n]),
           NEW stack \in Seq(Frame), OwnIn(stack) = Own(n),
           stack = <<>> => /\ calls[n] = <<>>
                           /\ s.fullyValidated <=> local[n].fullyValidated,
           local' = [local EXCEPT ![n] = s],
           calls' = [calls EXCEPT ![n] = stack],
           UNCHANGED <<latest, last, emitted, sent>>
    PROVE  OnlyNode(n) /\ Records(n)'
  <1>1. TypeOK /\ Records(n)
    BY RecordTypes
  <1>2. local'[n] = s /\ calls'[n] = stack
    BY <1>1, Zenon DEF TypeOK
  <1>3. Own(n)' = Own(n)
    BY <1>2, Zenon DEF Own
  <1>4. OnlyNode(n)
    BY <1>1, Zenon DEF OnlyNode, TypeOK
  <1>5. Labelled(n)' /\ InOrder(n)'
    BY <1>1, <1>3, Zenon DEF Records, Labelled, InOrder
  <1>6. Current(n)'
    BY <1>2, Zenon DEF Current
  <1>7. OnItsWay(n)'
    BY <1>1, <1>2, <1>3, Zenon DEF Records, OnItsWay
  <1> QED BY <1>4, <1>5, <1>6, <1>7 DEF Records

\* The statement is recorded: it is newer than the one before.
LEMMA RecordRecords ==
    ASSUME RInv, NEW n \in Node, ~local[n].failed,
           NEW s \in LocalState,
           NEW stack \in Seq(Frame), OwnIn(stack) = Own(n),
           s.phase = "EXTERNALIZE" => stack # <<>>,
           NEW purpose \in {"emit", "bump"}, EmitRecord(n, s, stack, purpose),
           UNCHANGED <<emitted, sent>>
    PROVE  OnlyNode(n) /\ Records(n)'
  <1> DEFINE st == createStatement(n, s)
             f == [hint |-> st, next |-> 1, purpose |-> purpose]
             w == validated(n, s, st)
             longer == Append(stack, f)
  <1>1. /\ TypeOK /\ Records(n)
        /\ latest[n][n] \in SCPStatement /\ last[n] \in SCPStatement
        /\ emitted[n] \in SCPStatement /\ Own(n) \subseteq SCPStatement
    BY RecordTypes, Zenon
  <1>2. st \in SCPStatement /\ st.type = s.phase /\ st.node = n
    BY createStatementType, createStatementNode
  <1>3. WellFormed(st) /\ isNewerStatement(latest[n][n], st) /\ checkInvariants(s) /\ ~s.failed
    BY createStatementWellFormed, Zenon DEF EmitRecord, selfValid
  <1>4. /\ latest' = [latest EXCEPT ![n][n] = st]
        /\ \/ /\ s.phase = "EXTERNALIZE"
              /\ local' = [local EXCEPT ![n] = s]
              /\ calls' = [calls EXCEPT ![n] = stack]
              /\ last' = [last EXCEPT ![n] = nextLast(n, st)]
           \/ /\ local' = [local EXCEPT ![n] = w]
              /\ calls' = [calls EXCEPT ![n] = longer]
              /\ last' = last
    BY DEF EmitRecord
  <1>5. f \in Frame /\ f.hint = st /\ f.purpose # "receive"
    BY <1>2 DEF Frame
  <1>6. Reflects(n, s, st)
    BY <1>3, Zenon DEF Reflects
  <1>7. Reflects(n, w, st) /\ ~w.failed
    BY <1>3, <1>6, SameBallotsReflect, SameBallotsUpdates, Zenon
  <1>8. OwnIn(longer) = Own(n) \cup {st} /\ longer # <<>>
    <2>1. OwnIn(longer) = OwnIn(stack) \cup {f.hint}
      BY <1>5, OwnAppend, Zenon
    <2>2. longer # <<>>
      OBVIOUS
    <2> QED BY <1>5, <2>1, <2>2, Zenon
  <1>9. /\ NotAfter(last[n], latest[n][n]) /\ NotAfter(emitted[n], last[n])
        /\ \A x \in Own(n) : NotAfter(x, latest[n][n])
        /\ \A x \in sent : x.node = n => NotAfter(x, emitted[n])
    BY <1>1 DEF Records, InOrder
  <1> HIDE DEF st, w, longer, f
  <1>10. isNewerStatement(last[n], st) /\ \A x \in Own(n) : isNewerStatement(x, st)
    BY <1>1, <1>2, <1>3, <1>9, NotAfterTransitive, Zenon
  <1>11. latest'[n][n] = st /\ \A m \in Node : m # n => latest'[m] = latest[m]
    BY <1>1, <1>4 DEF TypeOK
  <1>12. CASE /\ s.phase = "EXTERNALIZE"
              /\ local' = [local EXCEPT ![n] = s]
              /\ calls' = [calls EXCEPT ![n] = stack]
              /\ last' = [last EXCEPT ![n] = nextLast(n, st)]
    <2>1. nextLast(n, st) = st
      BY <1>2, <1>3, <1>10, <1>12, WellFormedValue, Zenon DEF nextLast
    <2>2. local'[n] = s /\ calls'[n] = stack /\ last'[n] = st
      BY <1>1, <1>12, <2>1, Zenon DEF TypeOK
    <2>3. Own(n)' = Own(n)
      BY <2>2, Zenon DEF Own
    <2>4. OnlyNode(n)
      BY <1>1, <1>11, <1>12, Zenon DEF OnlyNode, TypeOK
    <2>5. Labelled(n)'
      BY <1>1, <1>2, <1>11, <2>2, <2>3, Zenon DEF Records, Labelled
    <2>6. NotAfter(emitted[n], st)
      BY <1>1, <1>2, <1>9, <1>10, NotAfterTransitive, Zenon DEF NotAfter
    <2>7. InOrder(n)'
      BY <1>1, <1>9, <1>10, <1>11, <2>2, <2>3, <2>6, Zenon DEF Records, InOrder, NotAfter
    <2>8. Current(n)'
      BY <1>3, <1>6, <1>11, <2>2, Zenon DEF Current
    <2>9. OnItsWay(n)'
      BY <1>11, <1>12, <2>2, Zenon DEF OnItsWay
    <2> QED BY <2>4, <2>5, <2>7, <2>8, <2>9 DEF Records
  <1>13. CASE /\ local' = [local EXCEPT ![n] = w]
              /\ calls' = [calls EXCEPT ![n] = longer]
              /\ last' = last
    <2>2. local'[n] = w /\ calls'[n] = longer /\ last'[n] = last[n]
      BY <1>1, <1>13, Zenon DEF TypeOK
    <2>3. Own(n)' = Own(n) \cup {st}
      BY <1>8, <2>2, Zenon DEF Own
    <2>4. OnlyNode(n)
      BY <1>1, <1>11, <1>13, Zenon DEF OnlyNode, TypeOK
    <2>5. Labelled(n)'
      BY <1>1, <1>2, <1>11, <2>2, <2>3, Zenon DEF Records, Labelled
    <2>7. InOrder(n)'
      BY <1>1, <1>9, <1>10, <1>11, <2>2, <2>3, Zenon DEF Records, InOrder, NotAfter
    <2>8. Current(n)'
      BY <1>7, <1>11, <2>2, Zenon DEF Current
    <2>9. OnItsWay(n)'
      BY <1>8, <1>11, <2>2, <2>3, Zenon DEF OnItsWay
    <2> QED BY <2>4, <2>5, <2>7, <2>8, <2>9 DEF Records
  <1> QED BY <1>4, <1>12, <1>13

\* The three cases together.
LEMMA EmitRecords ==
    ASSUME RInv, NEW n \in Node, ~local[n].failed,
           NEW s \in LocalState,
           NEW stack \in Seq(Frame), OwnIn(stack) = Own(n),
           s.phase = "EXTERNALIZE" => stack # <<>>,
           stack = <<>> => /\ calls[n] = <<>>
                           /\ s.fullyValidated <=> local[n].fullyValidated,
           NEW purpose \in {"emit", "bump"},
           emitCurrentStateStatement(n, s, stack, purpose),
           UNCHANGED <<emitted, sent>>
    PROVE  OnlyNode(n) /\ Records(n)'
  <1>1. CASE Fail(n, s)
    BY <1>1, FailRecords
  <1>2. CASE EmitNothing(n, s, stack)
    <2>1. ~s.failed /\ Reflects(n, s, latest[n][n])
      BY <1>2 DEF EmitNothing, Reflects
    <2>2. /\ local' = [local EXCEPT ![n] = s]
          /\ calls' = [calls EXCEPT ![n] = stack]
          /\ UNCHANGED <<latest, last, emitted, sent>>
      BY <1>2 DEF EmitNothing
    <2> QED BY <2>1, <2>2, NothingRecords, ZenonT(30)
  <1>3. CASE EmitRecord(n, s, stack, purpose)
    BY <1>3, RecordRecords
  <1> QED BY <1>1, <1>2, <1>3, EmitCases, ZenonT(30)

----------------------------------------------------------------------------
(***************************************************************************)
(* One lemma per action.                                                   *)
(***************************************************************************)
LEMMA AttemptRecords ==
    ASSUME WellOrdered, RInv, NEW n \in Node, InAdvanceSlot(n), NEW k \in 1 .. 5, Attempt(n, k)
    PROVE  OnlyNode(n) /\ Records(n)'
  <1> DEFINE j == IF k = 5 THEN 5 ELSE k + 1
             stack == [calls[n] EXCEPT ![Len(calls[n])].next = j]
             s == Outcome(n, k)
             purpose == IF k = 5 THEN "bump" ELSE "emit"
  <1>1. j \in 1 .. 5 /\ purpose \in {"emit", "bump"}
    OBVIOUS
  <1>2. /\ IInv /\ TypeOK /\ Records(n) /\ local[n] \in LocalState
        /\ calls[n] \in Seq(Frame)
    BY RecordTypes
  <1>3. s \in LocalState
    BY <1>2, OutcomeType
  <1>4. Len(calls[n]) \in Nat \ {0}
    BY <1>2, TopType
  <1>5. stack \in Seq(Frame) /\ Len(stack) = Len(calls[n])
    BY <1>1, <1>2, AdvanceStackType, Zenon
  <1>6. stack # <<>>
    BY <1>4, <1>5
  <1>7. OwnIn(stack) = Own(n)
    BY <1>2, <1>4, OwnAdvance, Zenon DEF Own
  <1>8. ~local[n].failed
    BY <1>2 DEF Records, Current, InAdvanceSlot
  <1>9. UNCHANGED <<emitted, sent>>
    BY DEF Attempt
  <1>10. \/ emitCurrentStateStatement(n, s, stack, purpose)
         \/ /\ ~didWork(n, s)
            /\ local' = [local EXCEPT ![n] = s]
            /\ calls' = [calls EXCEPT ![n] = stack]
            /\ UNCHANGED <<latest, last>>
    BY DEF Attempt
  <1> HIDE DEF s, stack, purpose
  <1>11. CASE emitCurrentStateStatement(n, s, stack, purpose)
    BY <1>1, <1>3, <1>5, <1>6, <1>7, <1>8, <1>9, <1>11, EmitRecords
  <1>12. CASE /\ ~didWork(n, s)
              /\ local' = [local EXCEPT ![n] = s]
              /\ calls' = [calls EXCEPT ![n] = stack]
              /\ UNCHANGED <<latest, last>>
    <2>1. s = [local[n] EXCEPT !.z = s.z]
      BY <1>12 DEF didWork
    <2>2. SameBallots(s, local[n]) /\ (s.failed <=> local[n].failed)
      <3> DEFINE v == s.z
      <3>1. /\ SameBallots([local[n] EXCEPT !.z = v], local[n])
            /\ [local[n] EXCEPT !.z = v].failed <=> local[n].failed
        BY <1>2, Zenon DEF SameBallots, LocalState
      <3> QED BY <2>1, <3>1, Zenon
    <2>3. Reflects(n, s, latest[n][n])
      BY <1>2, <1>8, <2>2, SameBallotsReflect, Zenon DEF Records, Current
    <2> QED BY <1>3, <1>5, <1>6, <1>7, <1>8, <1>9, <1>12, <2>2, <2>3, NothingRecords, Zenon
  <1> QED BY <1>10, <1>11, <1>12

\* The return from advanceSlot: the popped statement becomes the last one if it is newer.
LEMMA ReturnRecords ==
    ASSUME RInv, NEW n \in Node, InAdvanceSlot(n), ReturnFromAdvanceSlot(n)
    PROVE  /\ OnlyNode(n) /\ Records(n)'
           /\ \A st \in sent' \ sent :
                  st.node = n /\ \A old \in sent : old.node = n => isNewerStatement(old, st)
  <1> DEFINE outer == SubSeq(calls[n], 1, Len(calls[n]) - 1)
             purpose == Top(n).purpose
             hint == Top(n).hint
             newLast == IF purpose = "receive" THEN last[n] ELSE nextLast(n, hint)
             send == /\ outer = <<>>
                     /\ local[n].fullyValidated
                     /\ newLast # emitted[n]
             s == IF outer = <<>> \/ purpose = "bump"
                  THEN checkHeardFromQuorum(n, local[n]) ELSE local[n]
  <1>1. /\ IInv /\ TypeOK /\ Records(n) /\ local[n] \in LocalState
        /\ calls[n] \in Seq(Frame) /\ last[n] \in SCPStatement
        /\ emitted[n] \in SCPStatement /\ latest[n][n] \in SCPStatement
        /\ Own(n) \subseteq SCPStatement
    BY RecordTypes, Zenon
  <1>2. Len(calls[n]) \in Nat \ {0} /\ hint \in SCPStatement /\ WellFormed(hint)
    BY <1>1, TopType
  <1>3. Own(n) = OwnIn(outer) \cup (IF purpose = "receive" THEN {} ELSE {hint})
    BY <1>1, <1>2, OwnReturn, Zenon DEF Own, Top
  <1>4. OwnIn(outer) \subseteq Own(n) /\ (purpose # "receive" => hint \in Own(n))
    BY <1>3
  <1>5. SameBallots(s, local[n]) /\ (s.failed <=> local[n].failed)
        /\ (s.fullyValidated <=> local[n].fullyValidated)
    <2>1. SameBallots(local[n], local[n])
      BY DEF SameBallots
    <2> QED BY <1>1, <2>1, SameBallotsUpdates, Zenon
  <1>6. ~local[n].failed
    BY <1>1 DEF Records, Current, InAdvanceSlot
  <1>7. /\ local' = [local EXCEPT ![n] = s]
        /\ calls' = [calls EXCEPT ![n] = outer]
        /\ last' = [last EXCEPT ![n] = newLast]
        /\ emitted' = [emitted EXCEPT ![n] = IF send THEN newLast ELSE @]
        /\ sent' = IF send THEN sent \cup {newLast} ELSE sent
        /\ UNCHANGED latest
    BY <1>1, Zenon DEF ReturnFromAdvanceSlot, TypeOK
  <1>8. outer = <<>> /\ local[n].fullyValidated => send \/ newLast = emitted[n]
    OBVIOUS
  <1>9. send => newLast # emitted[n]
    OBVIOUS
  <1>10. /\ NotAfter(last[n], latest[n][n]) /\ NotAfter(emitted[n], last[n])
         /\ \A x \in Own(n) : NotAfter(x, latest[n][n])
         /\ \A x \in sent : x.node = n => NotAfter(x, emitted[n])
         /\ \A x \in {latest[n][n], last[n], emitted[n]} \cup Own(n) : x.node = n
    BY <1>1, ZenonT(30) DEF Records, InOrder, Labelled
  <1>11. \/ newLast = last[n]
         \/ newLast = hint /\ hint \in Own(n) /\ isNewerStatement(last[n], hint)
    BY <1>4, Zenon DEF nextLast
  <1>12. /\ newLast \in SCPStatement /\ newLast.node = n
         /\ NotAfter(last[n], newLast) /\ NotAfter(newLast, latest[n][n])
    BY <1>1, <1>2, <1>10, <1>11, Zenon DEF NotAfter
  <1>13. NotAfter(emitted[n], newLast)
    BY <1>1, <1>10, <1>12, NotAfterTransitive, ZenonT(30)
  <1>14. Present(latest[n][n].b) => latest[n][n] \in {newLast} \cup OwnIn(outer)
    <2> SUFFICES ASSUME Present(latest[n][n].b), latest[n][n] \notin OwnIn(outer)
                 PROVE  newLast = latest[n][n]
      OBVIOUS
    <2>1. latest[n][n] \in {last[n]} \cup Own(n)
      BY <1>1, <1>6, Zenon DEF Records, OnItsWay
    <2>2. CASE latest[n][n] = last[n]
      BY <1>1, <1>2, <1>10, <1>11, <2>2, NotAfterNewer, Zenon
    <2>3. CASE latest[n][n] # last[n]
      <3>1. purpose # "receive" /\ hint = latest[n][n]
        BY <1>3, <2>1, <2>3
      <3>2. isNewerStatement(last[n], hint)
        BY <1>10, <2>3, <3>1, Zenon DEF NotAfter
      <3> QED BY <3>1, <3>2, Zenon DEF nextLast
    <2> QED BY <2>2, <2>3, Zenon
  <1> HIDE DEF outer, newLast, send, s, hint, purpose
  <1>15. /\ local'[n] = s /\ calls'[n] = outer /\ last'[n] = newLast /\ latest' = latest
         /\ emitted'[n] = IF send THEN newLast ELSE emitted[n]
    BY <1>1, <1>7 DEF TypeOK
  <1>16. Own(n)' = OwnIn(outer)
    BY <1>15 DEF Own
  <1>17. OnlyNode(n)
    BY <1>1, <1>7, <1>12 DEF OnlyNode, TypeOK
  <1>18. Labelled(n)'
    BY <1>4, <1>10, <1>12, <1>15, <1>16, Zenon DEF Labelled
  <1>19. InOrder(n)'
    <2>1. \A x \in sent' : x.node = n => NotAfter(x, emitted'[n])
      <3>1. CASE send
        <4>1. emitted'[n] = newLast /\ sent' = sent \cup {newLast}
          BY <1>7, <1>15, <3>1
        <4>2. \A x \in sent : x \in SCPStatement
          BY <1>1, ZenonT(30) DEF TypeOK
        <4>3. \A x \in sent : x.node = n => NotAfter(x, newLast)
          BY <1>1, <1>10, <1>12, <1>13, <4>2, NotAfterTransitive, ZenonT(30)
        <4> QED BY <4>1, <4>3 DEF NotAfter
      <3>2. CASE ~send
        BY <1>7, <1>10, <1>15, <3>2
      <3> QED BY <3>1, <3>2
    <2>2. NotAfter(emitted'[n], last'[n])
      <3>1. last'[n] = newLast /\ emitted'[n] \in {newLast, emitted[n]}
        BY <1>15, Zenon
      <3>2. NotAfter(newLast, newLast)
        BY Zenon DEF NotAfter
      <3> QED BY <1>13, <3>1, <3>2, ZenonT(30)
    <2> QED BY <1>4, <1>10, <1>12, <1>15, <1>16, <2>1, <2>2, Zenon DEF InOrder
  <1>20. Current(n)'
    <2>1. Reflects(n, s, latest[n][n])
      BY <1>1, <1>5, <1>6, SameBallotsReflect, Zenon DEF Records, Current
    <2> QED BY <1>5, <1>6, <1>15, <2>1, Zenon DEF Current
  <1>21. OnItsWay(n)'
    BY <1>5, <1>8, <1>14, <1>15, <1>16, Zenon DEF OnItsWay
  <1>22. ASSUME NEW st \in sent' \ sent
         PROVE  st.node = n /\ \A old \in sent : old.node = n => isNewerStatement(old, st)
    <2>1. st = newLast /\ send
      BY <1>7, <1>22
    <2>2. isNewerStatement(emitted[n], st)
      BY <1>9, <1>13, <2>1 DEF NotAfter
    <2>3. \A x \in sent : x \in SCPStatement
      BY <1>1 DEF TypeOK
    <2> QED BY <1>1, <1>10, <1>12, <2>1, <2>2, <2>3, NotAfterTransitive, Zenon
  <1> QED BY <1>17, <1>18, <1>19, <1>20, <1>21, <1>22 DEF Records

\* A statement of another node changes nothing the node has recorded of itself.
LEMMA processEnvelopeRecords ==
    ASSUME RInv, NEW n \in Node, NEW st \in sent, processEnvelope(n, st)
    PROVE  OnlyNode(n) /\ Records(n)' /\ latest'[n][n] = latest[n][n]
  <1> DEFINE f == [hint |-> st, next |-> 1, purpose |-> "receive"]
             w == validated(n, local[n], st)
  <1>1. /\ TypeOK /\ Records(n) /\ local[n] \in LocalState
        /\ calls[n] = <<>> /\ ~local[n].failed
    BY RecordTypes DEF processEnvelope, Ready
  <1>2. st.node \in Node /\ st.node # n /\ st \in SCPStatement
    BY <1>1, StatementTypes, ZenonT(30) DEF TypeOK, processEnvelope
  <1>3. /\ latest' = [latest EXCEPT ![n][st.node] = st]
        /\ UNCHANGED <<last, emitted, sent>>
        /\ \/ UNCHANGED <<local, calls>>
           \/ /\ local' = [local EXCEPT ![n] = w]
              /\ calls' = [calls EXCEPT ![n] = <<f>>]
    BY <1>1 DEF processEnvelope, TypeOK
  <1>4. SameBallots(w, local[n]) /\ ~w.failed
    BY <1>1, SameBallotsUpdates, Zenon
  <1>5. OwnIn(<<f>>) = {}
    <2>1. f.purpose = "receive"
      OBVIOUS
    <2> HIDE DEF f
    <2>2. Len(<<f>>) = 1 /\ <<f>>[1] = f
      OBVIOUS
    <2> QED BY <2>1, <2>2 DEF OwnIn
  <1>6. <<f>> # <<>>
    OBVIOUS
  <1> DEFINE z == <<f>>
  <1> HIDE DEF w, z
  <1>7. latest'[n][n] = latest[n][n] /\ \A m \in Node : m # n => latest'[m] = latest[m]
    BY <1>1, <1>2, <1>3 DEF TypeOK
  <1>8. \/ UNCHANGED <<local, calls>>
        \/ local'[n] = w /\ calls'[n] = z
    BY <1>1, <1>3 DEF TypeOK, z
  <1>9. Own(n)' = Own(n)
    BY <1>1, <1>5, <1>8, OwnEmpty, Zenon DEF Own, z
  <1>10. OnlyNode(n)
    <2>1. \A m \in Node : m # n => local'[m] = local[m] /\ calls'[m] = calls[m]
      BY <1>1, <1>3 DEF TypeOK
    <2> QED BY <1>3, <1>7, <2>1 DEF OnlyNode
  <1>11. Labelled(n)' /\ InOrder(n)'
    BY <1>1, <1>3, <1>7, <1>9, Zenon DEF Records, Labelled, InOrder
  <1>12. Current(n)'
    <2>1. Reflects(n, local[n], latest[n][n])
      BY <1>1, Zenon DEF Records, Current
    <2>2. Reflects(n, w, latest[n][n])
      BY <1>4, <2>1, SameBallotsReflect, ZenonT(30)
    <2> QED BY <1>1, <1>4, <1>7, <1>8, <2>1, <2>2, Zenon DEF Current
  <1>13. OnItsWay(n)'
    <2>1. /\ Present(latest[n][n].b) => latest[n][n] \in {last[n]} \cup Own(n)
          /\ calls[n] = <<>> /\ local[n].fullyValidated => emitted[n] = last[n]
      BY <1>1, Zenon DEF Records, OnItsWay
    <2> QED BY <1>3, <1>6, <1>7, <1>8, <1>9, <2>1, Zenon DEF OnItsWay, z
  <1> QED BY <1>7, <1>10, <1>11, <1>12, <1>13, Zenon DEF Records

\* bumpState from nomination.
LEMMA NewCandidateRecords ==
    ASSUME RInv, NEW n \in Node, NEW v \in Composites[n], NewCandidate(n, v)
    PROVE  OnlyNode(n) /\ Records(n)'
  <1> DEFINE s == bumpState(local[n], v, 1)
  <1>1. /\ TypeOK /\ Records(n) /\ local[n] \in LocalState
        /\ calls[n] = <<>> /\ ~local[n].failed /\ local[n].phase # "EXTERNALIZE"
    BY RecordTypes, Zenon DEF NewCandidate, Ready
  <1>2. UNCHANGED <<emitted, sent>>
    BY DEF NewCandidate
  <1>3. v \in Value /\ 1 \in Counter
    BY CompositesAssumption, NumberTypes DEF CompositesAssumption, Counter
  <1>4. s \in LocalState
    BY <1>1, <1>3, bumpStateType
  <1>5. s.phase # "EXTERNALIZE" /\ (s.fullyValidated <=> local[n].fullyValidated)
    <2>1. Bumped(local[n], s)
      BY <1>1, abandonBallotBumps, Zenon
    <2> QED BY <1>1, <2>1, Zenon DEF Bumped
  <1>6. <<>> \in Seq(Frame) /\ OwnIn(<<>>) = Own(n)
    BY <1>1 DEF Own
  <1>7. \/ UNCHANGED <<local, latest, last, calls>>
        \/ emitCurrentStateStatement(n, s, <<>>, "bump")
    BY Zenon DEF NewCandidate
  <1> HIDE DEF s
  <1>8. CASE UNCHANGED <<local, latest, last, calls>>
    <2>1. local' = [local EXCEPT ![n] = local[n]] /\ calls' = [calls EXCEPT ![n] = <<>>]
      BY <1>1, <1>8, Zenon DEF TypeOK
    <2>2. Reflects(n, local[n], latest[n][n])
      BY <1>1 DEF Records, Current
    <2> QED BY <1>1, <1>2, <1>6, <1>8, <2>1, <2>2, NothingRecords, Zenon
  <1>9. CASE emitCurrentStateStatement(n, s, <<>>, "bump")
    BY <1>1, <1>2, <1>4, <1>5, <1>6, <1>9, EmitRecords, Zenon
  <1> QED BY <1>7, <1>8, <1>9, ZenonT(30)

\* The timer: abandonBallot(0).
LEMMA TimerRecords ==
    ASSUME RInv, NEW n \in Node, ballotProtocolTimerExpired(n)
    PROVE  OnlyNode(n) /\ Records(n)'
  <1> DEFINE s == [local[n] EXCEPT !.timer = FALSE]
             t == abandonBallot(s, candidate[n], 0)
  <1>1. /\ TypeOK /\ Records(n) /\ local[n] \in LocalState
        /\ calls[n] = <<>> /\ ~local[n].failed
    BY RecordTypes DEF ballotProtocolTimerExpired, Ready
  <1>2. UNCHANGED <<emitted, sent>>
    BY DEF ballotProtocolTimerExpired
  <1>3. s \in LocalState /\ SameBallots(s, local[n]) /\ ~s.failed
        /\ (s.fullyValidated <=> local[n].fullyValidated)
    BY <1>1, Zenon DEF LocalState, SameBallots
  <1>4. \/ t # s /\ emitCurrentStateStatement(n, t, <<>>, "bump")
        \/ local' = [local EXCEPT ![n] = s] /\ UNCHANGED <<latest, last, calls>>
    BY DEF ballotProtocolTimerExpired
  <1> HIDE DEF s
  <1>5. t \in LocalState
    <2>1. candidate[n] \in Value \cup {NoValue} /\ 0 \in Counter
      BY <1>1, NumberTypes DEF TypeOK, Counter
    <2> QED BY <1>3, <2>1, abandonBallotType
  <1>6. Bumped(s, t) /\ (s.phase = "EXTERNALIZE" => t = s)
    BY <1>3, abandonBallotBumps, Zenon
  <1>7. <<>> \in Seq(Frame) /\ OwnIn(<<>>) = Own(n)
    BY <1>1 DEF Own
  <1> HIDE DEF t
  <1>8. t # s => t.phase # "EXTERNALIZE"
    BY <1>6 DEF Bumped
  <1>9. t.fullyValidated <=> s.fullyValidated
    BY <1>6 DEF Bumped
  <1>10. CASE t # s /\ emitCurrentStateStatement(n, t, <<>>, "bump")
    BY <1>1, <1>2, <1>3, <1>5, <1>8, <1>9, <1>7, <1>10, EmitRecords, Zenon
  <1>11. CASE local' = [local EXCEPT ![n] = s] /\ UNCHANGED <<latest, last, calls>>
    <2>1. calls' = [calls EXCEPT ![n] = <<>>]
      BY <1>1, <1>11, Zenon DEF TypeOK
    <2>2. Reflects(n, s, latest[n][n])
      BY <1>1, <1>3, SameBallotsReflect, Zenon DEF Records, Current
    <2> QED BY <1>1, <1>2, <1>3, <1>7, <1>11, <2>1, <2>2, NothingRecords, Zenon
  <1> QED BY <1>4, <1>10, <1>11

\* A restart from the statement the node sent last.
LEMMA RestartRecords ==
    ASSUME RInv, NEW n \in Node, Restart(n)
    PROVE  OnlyNode(n) /\ Records(n)' /\ latest'[n][n] = emitted[n]
  <1> DEFINE st == emitted[n]
             s == setStateFromEnvelope(st)
             L == [m \in Node |-> IF m = n THEN st ELSE NoStatement(m)]
  <1>1. /\ IInv /\ TypeOK /\ Records(n) /\ st \in SCPStatement
        /\ calls[n] = <<>> /\ ~local[n].failed
    BY RecordTypes, Zenon DEF Restart, RestartFrom, Ready
  <1>2. /\ local' = [local EXCEPT ![n] = s]
        /\ latest' = [latest EXCEPT ![n] = L]
        /\ last' = [last EXCEPT ![n] = st]
        /\ UNCHANGED <<emitted, calls, sent>>
    BY DEF Restart, RestartFrom
  <1>3. L[n] = st
    OBVIOUS
  <1>4. \/ st = NoStatement(n)
        \/ WellFormed(st) /\ isStatementSane(st, FALSE)
    BY <1>1, Zenon DEF IInv, LastHasBallot, SentIsSane
  <1>5. st.node = n
    BY <1>1, Zenon DEF Records, Labelled
  <1>6. Reflects(n, s, st) /\ ~s.failed
    BY <1>1, <1>4, <1>5, RestoreReflects, Zenon
  <1> HIDE DEF s, L
  <1>7. local'[n] = s /\ latest'[n][n] = st /\ last'[n] = st /\ emitted'[n] = st
        /\ calls'[n] = <<>>
    BY <1>1, <1>2, <1>3 DEF TypeOK
  <1>8. Own(n)' = {}
    BY <1>7, OwnEmpty, Zenon DEF Own
  <1>9. OnlyNode(n)
    BY <1>1, <1>2 DEF OnlyNode, TypeOK
  <1>10. Labelled(n)'
    BY <1>5, <1>7, <1>8 DEF Labelled
  <1>11. InOrder(n)'
    <2>1. \A x \in sent' : x.node = n => NotAfter(x, emitted'[n])
      BY <1>1, <1>2, Zenon DEF Records, InOrder
    <2> QED BY <1>7, <1>8, <2>1, Zenon DEF InOrder, NotAfter
  <1>12. Current(n)'
    BY <1>6, <1>7 DEF Current
  <1>13. OnItsWay(n)'
    BY <1>7 DEF OnItsWay
  <1> QED BY <1>7, <1>9, <1>10, <1>11, <1>12, <1>13, Zenon DEF Records

\* Initially nothing is recorded.
LEMMA InitRInv == Init => RInv
  <1> SUFFICES ASSUME Init, NEW n \in Node PROVE Records(n)
    BY InitIInv DEF RInv
  <1>1. /\ local[n] = InitLocal /\ calls[n] = <<>> /\ sent = {}
        /\ latest[n][n] = NoStatement(n) /\ last[n] = NoStatement(n)
        /\ emitted[n] = NoStatement(n)
    BY Zenon DEF Init
  <1>2. Own(n) = {}
    BY <1>1, OwnEmpty DEF Own
  <1>3. NoStatement(n).node = n /\ ~Present(NoStatement(n).b)
    BY DEF NoStatement, NoBallot, Ballot, Present
  <1>4. Labelled(n) /\ InOrder(n)
    BY <1>1, <1>2, <1>3, ZenonT(30) DEF Labelled, InOrder, NotAfter
  <1>5. ~InitLocal.failed /\ Empty(InitLocal)
    BY DEF InitLocal, Empty
  <1>6. Current(n) /\ OnItsWay(n)
    BY <1>1, <1>3, <1>5, Zenon DEF Current, OnItsWay, Reflects
  <1> QED BY <1>4, <1>6 DEF Records

(***************************************************************************)
(* Every step is one of one node, and keeps the invariant.                 *)
(***************************************************************************)
LEMMA NextRecords ==
    ASSUME WellOrdered, RInv, Next
    PROVE  /\ RInv'
           /\ \E n \in Node : OnlyNode(n)
           /\ \A st \in sent' \ sent : \A old \in sent :
                  old.node = st.node => isNewerStatement(old, st)
  <1>1. PICK n \in Node :
            \/ advanceSlot(n)
            \/ \E st \in sent : processEnvelope(n, st)
            \/ \E v \in Composites[n] : NewCandidate(n, v)
            \/ ballotProtocolTimerExpired(n)
            \/ Restart(n)
    BY Zenon DEF Next
  <1>2. IInv'
    BY NextKeepsIInv DEF RInv
  <1> DEFINE Newer == \A st \in sent' \ sent : \A old \in sent :
                          old.node = st.node => isNewerStatement(old, st)
  <1>3. OnlyNode(n) /\ Records(n)' /\ Newer
    <2>1. ASSUME sent' = sent PROVE Newer
      BY <2>1
    <2> HIDE DEF Newer
    <2>2. CASE advanceSlot(n)
      <3>1. InAdvanceSlot(n)
        BY <2>2 DEF advanceSlot
      <3>2. \/ \E k \in 1 .. 5 : Attempt(n, k)
            \/ ReturnFromAdvanceSlot(n)
        BY <2>2 DEF advanceSlot, AcceptPrepared, ConfirmPrepared, AcceptCommit,
                    ConfirmCommit, Bump
      <3>3. CASE \E k \in 1 .. 5 : Attempt(n, k)
        <4>1. PICK k \in 1 .. 5 : Attempt(n, k)
          BY <3>3
        <4>2. sent' = sent
          BY <4>1 DEF Attempt
        <4> QED BY <2>1, <3>1, <4>1, <4>2, AttemptRecords
      <3>4. CASE ReturnFromAdvanceSlot(n)
        BY <3>1, <3>4, ReturnRecords DEF Newer
      <3> QED BY <3>2, <3>3, <3>4
    <2>3. CASE \E st \in sent : processEnvelope(n, st)
      BY <2>1, <2>3, processEnvelopeRecords, Zenon DEF processEnvelope
    <2>4. CASE \E v \in Composites[n] : NewCandidate(n, v)
      BY <2>1, <2>4, NewCandidateRecords, Zenon DEF NewCandidate
    <2>5. CASE ballotProtocolTimerExpired(n)
      BY <2>1, <2>5, TimerRecords DEF ballotProtocolTimerExpired
    <2>6. CASE Restart(n)
      BY <2>1, <2>6, RestartRecords, Zenon DEF Restart, RestartFrom
    <2> QED BY <1>1, <2>2, <2>3, <2>4, <2>5, <2>6, Zenon
  <1>4. \A m \in Node : Records(m)'
    BY <1>3, OtherNodes DEF RInv
  <1> QED BY <1>2, <1>3, <1>4 DEF RInv

\* So does a step that changes nothing.
LEMMA StutterRecords ==
    ASSUME WellOrdered, RInv, UNCHANGED vars
    PROVE  RInv'
  <1>1. IInv'
    BY NextKeepsIInv DEF RInv
  <1>2. ASSUME NEW n \in Node PROVE Records(n)'
    BY Zenon DEF vars, RInv, Records, Labelled, InOrder, Current, OnItsWay, Own
  <1> QED BY <1>1, <1>2 DEF RInv
=============================================================================
