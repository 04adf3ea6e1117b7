------------------------- MODULE BallotStepsProofs -------------------------
(***************************************************************************)
(* What one step of a node does to the statements it knows, made and sent, *)
(* and that the statements it makes obey the rules of federated voting.    *)
(***************************************************************************)
EXTENDS BallotRulesProofs, BallotProtocolProofs

(***************************************************************************)
(* A node that restarts has sent all it has recorded for itself: what it   *)
(* cannot fully validate it processes but does not send.                   *)
(***************************************************************************)
RestartsRemember ==
    \/ MaxRestarts = 0
    \/ \A n \in Node, v \in Value : Validation[n][v] # "kMaybeValidValue"

(***************************************************************************)
(* The inductive invariant.                                                *)
(***************************************************************************)
StatementsOf(n) == {last[n], emitted[n]} \cup Own(n)

StatementsRecorded ==
    /\ KnownRecorded
    /\ \A st \in sent : Recorded(st)
    /\ \A n \in Node : \A st \in StatementsOf(n) : Recorded(st)

ExternalizedAccepted ==
    \A n \in Node :
        Externalized(n) => \E x \in acceptedCommit[n] : x.value = local[n].c.value

VInv ==
    /\ RInv
    /\ MaxRestarts # 0 => \A n \in Node : local[n].fullyValidated
    /\ Voting!IInv
    /\ StatementsRecorded
    /\ VotesClosed
    /\ \A n \in Node : VotesBehind(n, latest[n][n])
    /\ ExternalizedAccepted

----------------------------------------------------------------------------
\* An update that leaves the ballots alone.
LEMMA SameFollows ==
    ASSUME NEW n, Active(n), NEW u \in LocalState, SameBallots(u, local[n]),
           u.fullyValidated <=> local[n].fullyValidated
    PROVE  Follows(n, u)
  <1> DEFINE s == local[n]
  <1>1. /\ u.phase = s.phase /\ u.p = s.p /\ u.pp = s.pp
        /\ u.c = s.c /\ u.h = s.h
    BY DEF SameBallots
  <1>2. s.phase \in {"PREPARE", "CONFIRM", "EXTERNALIZE"}
    BY LocalBallots, Zenon DEF Active, HInv, TypeOK, StatementType
  <1>3. CASE s.phase = "EXTERNALIZE"
    <2>1. createStatement(n, u) = latest[n][n]
      <3>1. createStatement(n, u) = createStatement(n, s)
        BY SameBallotsReflect
      <3>2. ~Empty(s)
        BY <1>3 DEF Empty
      <3>3. Reflects(n, s, latest[n][n])
        BY Zenon DEF Active
      <3> QED BY <3>1, <3>2, <3>3, Zenon DEF Reflects
    <2> QED BY <1>1, <1>3, <2>1 DEF Follows
  <1>4. CASE s.phase = "PREPARE"
    <2>1. AllowedInPrepare(n, u)
      BY <1>1, <1>4, ZenonT(30) DEF AllowedInPrepare
    <2> QED BY <1>1, <1>4, <2>1, Zenon DEF Follows, Allowed
  <1>5. CASE s.phase = "CONFIRM"
    <2>1. AllowedInConfirm(n, u)
      BY <1>1, <1>5 DEF AllowedInConfirm
    <2> QED BY <1>1, <1>5, <2>1, ZenonT(30) DEF Follows, Allowed
  <1> QED BY <1>2, <1>3, <1>4, <1>5

\* A new ballot counter or value.
LEMMA BumpFollows ==
    ASSUME NEW n, Active(n), NEW u \in LocalState, Bumped(local[n], u),
           local[n].phase # "EXTERNALIZE"
    PROVE  Follows(n, u)
  <1>1. u.phase # "EXTERNALIZE" /\ (u.fullyValidated <=> local[n].fullyValidated)
    BY DEF Bumped
  <1>2. n \in Node /\ local[n] \in LocalState
    BY DEF Active, HInv, TypeOK
  <1>3. checkInvariants(u) => Allowed(n, u)
    BY <1>2, BumpedAllowed
  <1> QED BY <1>1, <1>3 DEF Follows

LEMMA attemptPreparedAcceptFollows ==
    ASSUME WellOrdered, NEW n, Active(n), NEW hint \in SCPStatement, WellFormed(hint)
    PROVE  Follows(n, attemptPreparedAccept(n, hint))
  <1> DEFINE s == local[n]
             considered ==
                 {x \in getPrepareCandidates(n, hint) :
                     s.phase = "CONFIRM" => areBallotsLessAndCompatible(s.p, x)}
             accepted ==
                 {x \in considered :
                     /\ ~(Present(s.pp) /\ LessOrEqual(x, s.pp))
                     /\ ~(Present(s.p) /\ areBallotsLessAndCompatible(x, s.p))
                     /\ acceptsPrepared(n, x)}
             x == Highest(accepted)
             failing == [s EXCEPT !.failed = TRUE]
             u == setPreparedAccept(s, x)
             a == attemptPreparedAccept(n, hint)
  <1>1. /\ HInv /\ n \in Node /\ TypeOK /\ RecordedWellFormed
        /\ s \in LocalState
    BY DEF Active, HInv, TypeOK
  <1>2. accepted \subseteq SCPBallot
    BY <1>1, getPrepareCandidatesType, Zenon
  <1>3. accepted # {} => x \in accepted
    BY <1>2, HighestIn, Zenon
  <1>4. \/ a = s
        \/ a = failing
        \/ /\ a = u /\ accepted # {} /\ s.phase # "EXTERNALIZE"
           /\ s.phase = "CONFIRM" => \A y \in considered : areBallotsCompatible(s.c, y)
    BY DEF attemptPreparedAccept
  <1>5. x \in accepted => x \in considered /\ x \in SCPBallot /\ acceptsPrepared(n, x)
    BY <1>2, Zenon
  <1>6. Follows(n, s)
    BY <1>1, SameFollows DEF SameBallots
  <1>7. Follows(n, failing)
    <2>1. /\ failing.phase = s.phase /\ failing.c = s.c /\ failing.failed
          /\ failing.fullyValidated <=> s.fullyValidated
      BY <1>1, Zenon DEF LocalState
    <2>2. s.phase \in {"PREPARE", "CONFIRM", "EXTERNALIZE"}
      BY <1>1, LocalBallots DEF StatementType
    <2> HIDE DEF failing
    <2> QED BY <2>1, <2>2 DEF Follows
  <1> HIDE DEF considered, accepted, x, failing, a
  <1>8. CASE /\ a = u /\ accepted # {} /\ s.phase # "EXTERNALIZE"
             /\ s.phase = "CONFIRM" => \A y \in considered : areBallotsCompatible(s.c, y)
    <2>1. x \in SCPBallot /\ acceptsPrepared(n, x)
          /\ (s.phase = "CONFIRM" => areBallotsCompatible(s.c, x))
      BY <1>3, <1>5, <1>8
    <2>2. u \in LocalState /\ (u.fullyValidated <=> s.fullyValidated)
      BY <1>1, <2>1, setPreparedAcceptType, UpdatesKeepValidation, ZenonT(30)
    <2>3. u.phase = s.phase
      BY <1>1, <2>1, setPreparedAcceptFields, Zenon
    <2>4. ~u.failed /\ checkInvariants(u) => Allowed(n, u)
      BY <1>1, <1>8, <2>1, <2>2, setPreparedAcceptAllowed, Zenon
    <2> HIDE DEF u
    <2> QED BY <1>8, <2>2, <2>3, <2>4, Zenon DEF Follows, a
  <1> QED BY <1>4, <1>6, <1>7, <1>8 DEF a

LEMMA attemptPreparedConfirmedFollows ==
    ASSUME WellOrdered, NEW n, Active(n), NEW hint \in SCPStatement, WellFormed(hint)
    PROVE  Follows(n, attemptPreparedConfirmed(n, hint))
  <1> DEFINE s == local[n]
             candidates == getPrepareCandidates(n, hint)
             raising == {x \in candidates : /\ ~(Present(s.h) /\ LessOrEqual(x, s.h))
                                            /\ ratifiesPrepared(n, x)}
             newH == Highest(raising)
             mayCommit == /\ ~Present(s.c)
                          /\ \A y \in {s.p, s.pp} :
                                 Present(y) => ~areBallotsLessAndIncompatible(newH, y)
             below == {x \in candidates : /\ areBallotsLessAndCompatible(x, newH)
                                          /\ ~Less(x, s.b)}
             unbroken == {x \in below :
                             \A y \in below :
                                 LessOrEqual(x, y) => ratifiesPrepared(n, y)}
             newC == IF mayCommit /\ unbroken # {} THEN Lowest(unbroken) ELSE NoBallot
             u == setPreparedConfirmed(s, newC, newH)
             a == attemptPreparedConfirmed(n, hint)
  <1>1. /\ HInv /\ n \in Node /\ TypeOK /\ RecordedWellFormed
        /\ s \in LocalState
    BY DEF Active, HInv, TypeOK
  <1>2. candidates \subseteq SCPBallot
    BY <1>1, getPrepareCandidatesType
  <1>3. a = s \/ (a = u /\ s.phase = "PREPARE" /\ raising # {})
    BY Zenon DEF attemptPreparedConfirmed
  <1>4. Follows(n, s)
    BY <1>1, SameFollows DEF SameBallots
  <1>5. raising # {} => newH \in raising
    BY <1>2, HighestIn
  <1>6. unbroken # {} => Lowest(unbroken) \in unbroken
    BY <1>2, LowestIn, Zenon
  <1>7. ~Present(NoBallot) /\ NoBallot \in SCPBallot
    BY DEF NoBallot, Ballot, Present, SCPBallot
  <1>8. newC \in SCPBallot /\ (Present(newC) => ~Present(s.c) /\ ~Less(newC, s.b))
    BY <1>2, <1>6, <1>7, Zenon
  <1>9. newH \in raising => /\ newH \in SCPBallot /\ ratifiesPrepared(n, newH)
                            /\ ~(Present(s.h) /\ LessOrEqual(newH, s.h))
    BY <1>2
  <1> HIDE DEF candidates, raising, newH, newC, a
  <1>10. CASE a = u /\ s.phase = "PREPARE" /\ raising # {}
    <2>1. u \in LocalState /\ (u.fullyValidated <=> s.fullyValidated)
      BY <1>1, <1>5, <1>8, <1>9, <1>10, setPreparedConfirmedType, UpdatesKeepValidation, Zenon
    <2>2. u.phase = s.phase
      BY <1>1, <1>5, <1>8, <1>9, <1>10, setPreparedConfirmedFields, Zenon
    <2>3. checkInvariants(u) => Allowed(n, u)
      BY <1>1, <1>5, <1>8, <1>9, <1>10, <2>1, setPreparedConfirmedAllowed, Zenon
    <2> HIDE DEF u
    <2> QED BY <1>10, <2>1, <2>2, <2>3 DEF Follows, a
  <1> QED BY <1>3, <1>4, <1>10 DEF a

LEMMA attemptAcceptCommitFollows ==
    ASSUME WellOrdered, NEW n, Active(n), NEW hint \in SCPStatement, WellFormed(hint)
    PROVE  Follows(n, attemptAcceptCommit(n, hint))
  <1> DEFINE s == local[n]
             v == hint.b.value
             B == getCommitBoundaries(n, v)
             Pred == {j \in B \X B : acceptsCommit(n, v, j)}
             i == findExtendedInterval(B, Pred)
             newC == Ballot(i[1], v)
             newH == Ballot(i[2], v)
             u == setAcceptCommit(s, newC, newH)
             a == attemptAcceptCommit(n, hint)
  <1>1. HInv /\ n \in Node /\ TypeOK /\ s \in LocalState
    BY DEF Active, HInv, TypeOK
  <1>2. B \subseteq Counter
    BY <1>1, getCommitBoundariesType
  <1>3. \/ a = s
        \/ /\ a = u /\ s.phase # "EXTERNALIZE" /\ i[1] # 0
           /\ ~(hint.type = "PREPARE" /\ hint.nC = 0)
           /\ s.phase = "CONFIRM" => s.h.value = v
    BY Zenon DEF attemptAcceptCommit
  <1>4. Follows(n, s)
    BY <1>1, SameFollows DEF SameBallots
  <1>5. i[1] # 0 => /\ i[1] \in Counter \ {0} /\ i[2] \in Counter \ {0}
                    /\ i \in Pred
    BY <1>2, findExtendedIntervalType, Zenon
  <1>6. i \in Pred => acceptsCommit(n, v, i)
    OBVIOUS
  <1>7. ~(hint.type = "PREPARE" /\ hint.nC = 0) => v \in Value
    BY WellFormedValue, Zenon
  <1>8. s.phase = "CONFIRM" => s.c.value = s.h.value
    BY <1>1, OwnStatement, Zenon
       DEF Active, checkInvariants, areBallotsLessAndCompatible, areBallotsCompatible
  <1> HIDE DEF v, B, Pred, i, a
  <1>9. CASE /\ a = u /\ s.phase # "EXTERNALIZE" /\ i[1] # 0
             /\ ~(hint.type = "PREPARE" /\ hint.nC = 0)
             /\ s.phase = "CONFIRM" => s.h.value = v
    <2>1. newC \in SCPBallot /\ newH \in SCPBallot
      BY <1>5, <1>7, <1>9, BallotIsTyped
    <2>2. u \in LocalState /\ (u.fullyValidated <=> s.fullyValidated)
      BY <1>1, <2>1, setAcceptCommitType, UpdatesKeepValidation, Zenon
    <2>3. u.phase = "CONFIRM"
      BY <1>1, <2>1, setAcceptCommitFields
    <2>4. Allowed(n, u)
      BY <1>1, <1>5, <1>6, <1>7, <1>8, <1>9, <2>2, setAcceptCommitAllowed, Zenon
    <2> HIDE DEF u
    <2> QED BY <1>9, <2>2, <2>3, <2>4, ZenonT(30) DEF Follows, a
  <1> QED BY <1>3, <1>4, <1>9, Zenon DEF a

LEMMA attemptConfirmCommitFollows ==
    ASSUME WellOrdered, NEW n, Active(n), NEW hint \in SCPStatement, WellFormed(hint)
    PROVE  Follows(n, attemptConfirmCommit(n, hint))
  <1> DEFINE s == local[n]
             v == hint.b.value
             B == getCommitBoundaries(n, v)
             Pred == {j \in B \X B : ratifiesCommit(n, v, j)}
             i == findExtendedInterval(B, Pred)
             newC == Ballot(i[1], v)
             newH == Ballot(i[2], v)
             u == setConfirmCommit(s, newC, newH)
             a == attemptConfirmCommit(n, hint)
  <1>1. HInv /\ n \in Node /\ TypeOK /\ s \in LocalState
    BY DEF Active, HInv, TypeOK
  <1>2. B \subseteq Counter
    BY <1>1, getCommitBoundariesType
  <1>3. \/ a = s
        \/ /\ a = u /\ s.phase = "CONFIRM" /\ i[1] # 0
           /\ hint.type # "PREPARE" /\ s.c.value = v
    BY Zenon DEF attemptConfirmCommit
  <1>4. Follows(n, s)
    BY <1>1, SameFollows DEF SameBallots
  <1>5. i[1] # 0 => /\ i[1] \in Counter \ {0} /\ i[2] \in Counter \ {0}
                    /\ i[1] <= i[2] /\ i \in Pred
    BY <1>2, findExtendedIntervalType, Zenon
  <1>6. i \in Pred => ratifiesCommit(n, v, i)
    OBVIOUS
  <1>7. hint.type # "PREPARE" => v \in Value
    BY WellFormedValue, ZenonT(30)
  <1> HIDE DEF v, B, Pred, i, a
  <1>8. CASE /\ a = u /\ s.phase = "CONFIRM" /\ i[1] # 0
             /\ hint.type # "PREPARE" /\ s.c.value = v
    <2>1. newC \in SCPBallot /\ newH \in SCPBallot /\ newC.value = v
      BY <1>5, <1>7, <1>8, BallotIsTyped, Zenon DEF Ballot
    <2>2. u \in LocalState /\ (u.fullyValidated <=> s.fullyValidated)
      BY <1>1, <2>1, setConfirmCommitType, UpdatesKeepValidation, Zenon
    <2>3. u.phase = "EXTERNALIZE" /\ u.c = newC
      BY <1>1, <2>1, setConfirmCommitFields
    <2>4. Allowed(n, u)
      BY <1>1, <1>5, <1>6, <1>7, <1>8, <2>2, setConfirmCommitAllowed, Zenon
    <2> HIDE DEF u, newC
    <2> QED BY <1>8, <2>1, <2>2, <2>3, <2>4, Zenon DEF Follows, a
  <1> QED BY <1>3, <1>4, <1>8, Zenon DEF a

LEMMA attemptBumpFollows ==
    ASSUME WellOrdered, NEW n, Active(n)
    PROVE  Follows(n, attemptBump(n))
  <1> DEFINE s == local[n]
             u == attemptBump(n)
  <1>1. HInv /\ n \in Node /\ TypeOK /\ s \in LocalState
    BY DEF Active, HInv, TypeOK
  <1>2. u = s \/ (s.phase # "EXTERNALIZE" /\ \E k : u = abandonBallot(s, candidate[n], k))
    BY Zenon DEF attemptBump
  <1>3. u \in LocalState
    BY <1>1, attemptBumpType
  <1>4. Follows(n, s)
    BY <1>1, SameFollows DEF SameBallots
  <1>5. ASSUME s.phase # "EXTERNALIZE", NEW k, u = abandonBallot(s, candidate[n], k)
        PROVE  Follows(n, u)
    <2>1. Bumped(s, u)
      BY <1>1, <1>5, abandonBallotBumps
    <2> QED BY <1>1, <1>3, <1>5, <2>1, BumpFollows
  <1> QED BY <1>2, <1>4, <1>5

\* Every attempt.
LEMMA OutcomeFollows ==
    ASSUME WellOrdered, RInv, NEW n, Active(n), InAdvanceSlot(n), NEW k \in 1 .. 5
    PROVE  Follows(n, Outcome(n, k))
  <1> DEFINE hint == Top(n).hint
  <1>1. HInv /\ n \in Node /\ IInv /\ local[n] \in LocalState
    BY DEF Active, HInv, TypeOK, RInv
  <1>2. hint \in SCPStatement /\ WellFormed(hint)
    BY <1>1, TopType
  <1>3. Follows(n, local[n])
    BY <1>1, SameFollows DEF SameBallots
  <1>4. Outcome(n, k) \in {attemptPreparedAccept(n, hint), attemptPreparedConfirmed(n, hint),
                           attemptAcceptCommit(n, hint), attemptConfirmCommit(n, hint),
                           attemptBump(n), local[n]}
    BY DEF Outcome
  <1> HIDE DEF hint
  <1>5. /\ Follows(n, attemptPreparedAccept(n, hint))
        /\ Follows(n, attemptPreparedConfirmed(n, hint))
        /\ Follows(n, attemptAcceptCommit(n, hint))
        /\ Follows(n, attemptConfirmCommit(n, hint))
        /\ Follows(n, attemptBump(n))
    BY <1>2, attemptPreparedAcceptFollows, attemptPreparedConfirmedFollows,
       attemptAcceptCommitFollows, attemptConfirmCommitFollows, attemptBumpFollows, Zenon
  <1> QED BY <1>3, <1>4, <1>5, Zenon

----------------------------------------------------------------------------
(***************************************************************************)
(* What a step of node n does.  The statements it knows afterwards it knew *)
(* before, or were sent, or is the one it has just recorded.               *)
(***************************************************************************)
Told(n) ==
    /\ \A m \in Node \ {n} :
           \/ latest'[n][m] \in {latest[n][m], NoStatement(m)}
           \/ latest'[n][m] \in sent /\ latest'[n][m].node = m
    /\ StatementsOf(n)' \subseteq StatementsOf(n) \cup {latest'[n][n]}
    /\ sent' \subseteq sent \cup StatementsOf(n)

\* It records nothing new, a statement that obeys the rules, or what it had sent.
Speaks(n) ==
    \/ latest'[n][n] = latest[n][n]
    \/ \E u \in LocalState :
           /\ Reflects(n, local[n], latest[n][n])
           /\ checkInvariants(u) /\ Allowed(n, u)
           /\ latest'[n][n] = createStatement(n, u)
           /\ isNewerStatement(latest[n][n], createStatement(n, u))
    \/ latest'[n][n] = NoStatement(n) /\ ~Present(latest[n][n].b)

\* A statement with a commit for the value v.
Commits(st, v) ==
    /\ st \in SCPStatement /\ WellFormed(st)
    /\ st.type \in {"CONFIRM", "EXTERNALIZE"} /\ st.b.value = v

\* It externalizes what it has accepted as committed.
Decides(n) ==
    Externalized(n)' =>
        \/ Externalized(n) /\ local'[n].c.value = local[n].c.value
        \/ \E st \in {latest[n][n], emitted[n]} : Commits(st, local'[n].c.value)

Moves(n) ==
    /\ OnlyNode(n)
    /\ Told(n) /\ Speaks(n) /\ Decides(n)
    /\ MaxRestarts # 0 => local'[n].fullyValidated

\* A value that is not fully valid is invalid when nodes restart.
LEMMA ValuesAreValid ==
    ASSUME WellOrdered, RestartsRemember, MaxRestarts # 0, NEW n \in Node, NEW st \in SCPStatement,
           validateValues(n, st) # "kInvalidValue"
    PROVE  validateValues(n, st) = "kFullyValidatedValue"
  <1> DEFINE doubtful == {v \in StatementValues(st) :
                             Validation[n][v] # "kFullyValidatedValue"}
             w == CHOOSE v \in doubtful : \A x \in doubtful : x <= v
  <1>1. StatementValues(st) \subseteq Value
    BY StatementTypes, BallotTypes DEF StatementValues
  <1>2. ASSUME doubtful # {} PROVE FALSE
    <2>1. PICK m \in Nat : \A v \in Value : v <= m
      BY NumberTypes
    <2>2. doubtful \subseteq Nat /\ \A v \in doubtful : v <= m
      BY <1>1, <2>1, NumberTypes
    <2>3. \E v \in doubtful : \A x \in doubtful : x <= v
      BY <1>2, <2>2, GreatestElement, Zenon
    <2>4. w \in doubtful
      BY <2>3
    <2>5. Validation[n][w] # "kFullyValidatedValue" /\ w \in Value
      BY <1>1, <2>4
    <2>6. Validation[n][w] = "kInvalidValue"
      BY <2>5, ValidationAssumption
         DEF ValidationAssumption, ValidationLevel, RestartsRemember
    <2> QED BY <1>2, <2>6 DEF validateValues
  <1> QED BY <1>2 DEF validateValues

\* The statement of a node that has accepted a commit.
LEMMA ConfirmCommits ==
    ASSUME NEW n, Active(n), local[n].phase = "CONFIRM"
    PROVE  Commits(latest[n][n], local[n].c.value)
  <1>1. HInv /\ n \in Node /\ Reflects(n, local[n], latest[n][n])
    BY DEF Active
  <1>2. /\ checkInvariants(local[n]) /\ latest[n][n] \in SCPStatement
        /\ latest[n][n].b = local[n].b /\ latest[n][n].type = "CONFIRM"
    BY <1>1, OwnStatement
  <1>3. local[n].c.value = local[n].b.value
    BY <1>2 DEF checkInvariants, areBallotsLessAndCompatible, areBallotsCompatible
  <1>4. WellFormed(latest[n][n])
    BY <1>1, <1>2 DEF HInv, RecordedWellFormed
  <1> QED BY <1>2, <1>3, <1>4 DEF Commits

\* emitCurrentStateStatement from a state that follows the rules.
LEMMA EmitMoves ==
    ASSUME WellOrdered, VInv, RestartsRemember, NEW n \in Node, Active(n), OnlyNode(n),
           NEW u \in LocalState, Follows(n, u),
           NEW stack \in Seq(Frame), OwnIn(stack) = Own(n),
           NEW purpose \in {"emit", "bump"},
           emitCurrentStateStatement(n, u, stack, purpose),
           UNCHANGED <<emitted, sent>>
    PROVE  Moves(n)
  <1> DEFINE s == local[n]
             st == createStatement(n, u)
             f == [hint |-> st, next |-> 1, purpose |-> purpose]
             longer == Append(stack, f)
             w == validated(n, u, st)
             failing == [u EXCEPT !.failed = TRUE]
  <1>1. /\ RInv /\ TypeOK /\ s \in LocalState /\ s.phase \in StatementType
        /\ MaxRestarts # 0 => s.fullyValidated
    BY RecordTypes, LocalBallots DEF VInv
  <1>2. st \in SCPStatement
    BY createStatementType
  <1>3. f \in Frame /\ f.hint = st /\ f.purpose # "receive"
    BY <1>2 DEF Frame
  <1>4. OwnIn(longer) = Own(n) \cup {st}
    BY <1>3, OwnAppend
  <1>5. /\ failing.phase = u.phase /\ failing.c = u.c
        /\ failing.fullyValidated <=> u.fullyValidated
    BY Zenon DEF LocalState
  <1>6. w.phase = u.phase /\ w.c = u.c
    BY SameBallotsUpdates DEF SameBallots
  <1>7. w.fullyValidated <=> u.fullyValidated /\ validateValues(n, st) = "kFullyValidatedValue"
    <2> DEFINE v == u.fullyValidated /\ validateValues(n, st) = "kFullyValidatedValue"
    <2>1. w = [u EXCEPT !.fullyValidated = v]
      BY DEF validated
    <2> HIDE DEF v, w
    <2>2. w.fullyValidated = v
      BY <2>1, Zenon DEF LocalState
    <2> QED BY <2>2, Zenon DEF v
  <1>8. /\ u.fullyValidated <=> s.fullyValidated
        /\ u.phase = "EXTERNALIZE" =>
               s.phase \in {"CONFIRM", "EXTERNALIZE"} /\ u.c.value = s.c.value
        /\ ~u.failed /\ checkInvariants(u) /\ st # latest[n][n] => Allowed(n, u)
    BY DEF Follows
  <1>9. \A m \in Node \ {n} : latest'[n][m] = latest[n][m]
    <2>1. latest' = latest \/ latest' = [latest EXCEPT ![n][n] = st]
      BY EmitCases, Zenon DEF Fail, EmitNothing, EmitRecord
    <2> HIDE DEF st
    <2> QED BY <1>1, <2>1 DEF TypeOK
  <1> HIDE DEF st, f, longer, w, failing
  <1>10. ASSUME NEW t \in {u, w, failing}, local'[n] = t
         PROVE  Decides(n)
    <2>1. t.phase = u.phase /\ t.c = u.c
      BY <1>5, <1>6
    <2>2. s.phase = "CONFIRM" => Commits(latest[n][n], s.c.value)
      BY ConfirmCommits
    <2> QED BY <1>8, <1>10, <2>1, <2>2 DEF Decides, Externalized
  <1>11. CASE Fail(n, u)
    <2>1. local'[n] = failing /\ calls'[n] = <<>> /\ latest' = latest /\ last' = last
      BY <1>1, <1>11 DEF Fail, TypeOK, failing
    <2>2. Own(n)' = {}
      BY <2>1, OwnEmpty DEF Own
    <2>3. Told(n)
      BY <2>1, <2>2, Zenon DEF Told, StatementsOf
    <2> QED BY <1>1, <1>5, <1>8, <1>10, <2>1, <2>3 DEF Moves, Speaks
  <1>12. CASE EmitNothing(n, u, stack)
    <2>1. local'[n] = u /\ calls'[n] = stack /\ latest' = latest /\ last' = last
      BY <1>1, <1>12 DEF EmitNothing, TypeOK
    <2>2. Own(n)' = Own(n)
      BY <2>1 DEF Own
    <2>3. Told(n)
      BY <2>1, <2>2 DEF Told, StatementsOf
    <2> QED BY <1>1, <1>8, <1>10, <2>1, <2>3 DEF Moves, Speaks
  <1>13. CASE EmitRecord(n, u, stack, purpose)
    <2>1. /\ ~u.failed /\ checkInvariants(u) /\ st # latest[n][n]
          /\ isNewerStatement(latest[n][n], st)
          /\ validateValues(n, st) # "kInvalidValue"
      BY <1>13 DEF EmitRecord, selfValid, st
    <2>2. latest'[n][n] = st
      BY <1>1, <1>13, Zenon DEF EmitRecord, TypeOK, st
    <2>3. \/ /\ local'[n] = u /\ calls'[n] = stack
             /\ last'[n] \in {st, last[n]}
          \/ /\ local'[n] = w /\ calls'[n] = longer
             /\ last'[n] = last[n]
      BY <1>1, <1>13 DEF EmitRecord, TypeOK, nextLast, st, w, longer, f
    <2>4. Own(n)' \in {Own(n), Own(n) \cup {st}}
      BY <1>4, <2>3, Zenon DEF Own
    <2>5. Told(n)
      BY <1>9, <2>2, <2>3, <2>4, Zenon DEF Told, StatementsOf
    <2>6. Speaks(n)
      BY <1>8, <2>1, <2>2, Zenon DEF Speaks, Active, st
    <2>7. MaxRestarts # 0 => local'[n].fullyValidated
      BY <1>1, <1>2, <1>7, <1>8, <2>1, <2>3, ValuesAreValid
    <2> QED BY <1>10, <2>3, <2>5, <2>6, <2>7 DEF Moves
  <1> QED BY <1>11, <1>12, <1>13, EmitCases, Zenon

\* A node that has not failed is running.
LEMMA RunningActive ==
    ASSUME VInv, HInv, NEW n \in Node
    PROVE  /\ ~local[n].failed => Active(n)
           /\ InAdvanceSlot(n) => ~local[n].failed
  <1>1. HInv /\ Records(n)
    BY DEF VInv, RInv
  <1> QED BY <1>1 DEF Active, Records, Current, InAdvanceSlot

\* A step that only changes what no statement tells.
LEMMA QuietMoves ==
    ASSUME VInv, NEW n \in Node, OnlyNode(n), Active(n), NEW u \in LocalState,
           SameBallots(u, local[n]), u.fullyValidated <=> local[n].fullyValidated,
           local'[n] = u, Own(n)' = Own(n), UNCHANGED <<latest, last, emitted, sent>>
    PROVE  Moves(n)
  <1>1. u.phase = local[n].phase /\ u.c = local[n].c
    BY DEF SameBallots
  <1>2. Told(n) /\ Speaks(n)
    BY DEF Told, Speaks, StatementsOf
  <1>3. Decides(n)
    BY <1>1 DEF Decides, Externalized
  <1> QED BY <1>2, <1>3 DEF Moves, VInv

LEMMA AttemptMoves ==
    ASSUME WellOrdered, VInv, HInv, RestartsRemember, NEW n \in Node, InAdvanceSlot(n),
           NEW k \in 1 .. 5, Attempt(n, k)
    PROVE  Moves(n)
  <1> DEFINE j == IF k = 5 THEN 5 ELSE k + 1
             stack == [calls[n] EXCEPT ![Len(calls[n])].next = j]
             u == Outcome(n, k)
             purpose == IF k = 5 THEN "bump" ELSE "emit"
  <1>1. /\ RInv /\ IInv /\ TypeOK /\ local[n] \in LocalState /\ calls[n] \in Seq(Frame)
        /\ Active(n)
    BY RecordTypes, RunningActive DEF VInv
  <1>2. u \in LocalState /\ Follows(n, u)
    BY <1>1, OutcomeType, OutcomeFollows
  <1>3. j \in 1 .. 5 /\ purpose \in {"emit", "bump"}
    OBVIOUS
  <1>4. Len(calls[n]) \in Nat \ {0}
    BY <1>1, TopType
  <1>5. stack \in Seq(Frame)
    BY <1>1, <1>3, AdvanceStackType, Zenon
  <1>6. OwnIn(stack) = Own(n)
    BY <1>1, <1>4, OwnAdvance, Zenon DEF Own
  <1>7. UNCHANGED <<emitted, sent>> /\ OnlyNode(n)
    BY <1>1, AttemptRecords, Zenon DEF Attempt
  <1>8. \/ emitCurrentStateStatement(n, u, stack, purpose)
        \/ /\ u = [local[n] EXCEPT !.z = u.z]
           /\ local' = [local EXCEPT ![n] = u]
           /\ calls' = [calls EXCEPT ![n] = stack]
           /\ UNCHANGED <<latest, last>>
    BY DEF Attempt, didWork
  <1> HIDE DEF u, stack, purpose
  <1>9. CASE emitCurrentStateStatement(n, u, stack, purpose)
    BY <1>1, <1>2, <1>3, <1>5, <1>6, <1>7, <1>9, EmitMoves
  <1>10. CASE /\ u = [local[n] EXCEPT !.z = u.z]
              /\ local' = [local EXCEPT ![n] = u]
              /\ calls' = [calls EXCEPT ![n] = stack]
              /\ UNCHANGED <<latest, last>>
    <2>1. SameBallots(u, local[n])
      BY <1>1, <1>10, SameBallotsUpdates, Zenon
    <2>2. u.fullyValidated <=> local[n].fullyValidated
      BY <1>2 DEF Follows
    <2>3. local'[n] = u /\ calls'[n] = stack
      BY <1>1, <1>10 DEF TypeOK
    <2>4. Own(n)' = Own(n)
      BY <1>6, <2>3, Zenon DEF Own
    <2> QED BY <1>1, <1>2, <1>7, <1>10, <2>1, <2>2, <2>3, <2>4, QuietMoves
  <1> QED BY <1>8, <1>9, <1>10

LEMMA ReturnMoves ==
    ASSUME VInv, HInv, NEW n \in Node, InAdvanceSlot(n), ReturnFromAdvanceSlot(n)
    PROVE  Moves(n)
  <1> DEFINE outer == SubSeq(calls[n], 1, Len(calls[n]) - 1)
             purpose == Top(n).purpose
             hint == Top(n).hint
             newLast == IF purpose = "receive" THEN last[n] ELSE nextLast(n, hint)
             s == IF outer = <<>> \/ purpose = "bump"
                  THEN checkHeardFromQuorum(n, local[n]) ELSE local[n]
  <1>1. /\ RInv /\ IInv /\ TypeOK /\ local[n] \in LocalState /\ calls[n] \in Seq(Frame)
        /\ MaxRestarts # 0 => local[n].fullyValidated
    BY RecordTypes DEF VInv
  <1>2. Len(calls[n]) \in Nat \ {0}
    BY <1>1, TopType
  <1>3. Own(n) = OwnIn(outer) \cup (IF purpose = "receive" THEN {} ELSE {hint})
    BY <1>1, <1>2, OwnReturn DEF Own, Top
  <1>4. newLast \in StatementsOf(n) /\ OwnIn(outer) \subseteq StatementsOf(n)
    BY <1>3 DEF nextLast, StatementsOf
  <1>5. /\ SameBallots(s, local[n])
        /\ s.fullyValidated <=> local[n].fullyValidated
    BY <1>1, SameBallotsUpdates, Zenon DEF SameBallots
  <1>6. /\ local'[n] = s /\ calls'[n] = outer /\ last'[n] = newLast
        /\ emitted'[n] \in {emitted[n], newLast}
        /\ sent' \subseteq sent \cup {newLast}
        /\ latest' = latest
    BY <1>1 DEF ReturnFromAdvanceSlot, TypeOK
  <1>7. OnlyNode(n)
    BY <1>1, ReturnRecords
  <1> HIDE DEF outer, purpose, hint, newLast, s
  <1>8. Own(n)' = OwnIn(outer)
    BY <1>6 DEF Own
  <1>9. Told(n)
    <2>1. StatementsOf(n)' = {newLast, emitted'[n]} \cup OwnIn(outer)
      BY <1>6, <1>8 DEF StatementsOf
    <2>2. emitted[n] \in StatementsOf(n)
      BY DEF StatementsOf
    <2> QED BY <1>4, <1>6, <2>1, <2>2 DEF Told
  <1>10. Decides(n)
    BY <1>5, <1>6 DEF Decides, Externalized, SameBallots
  <1> QED BY <1>1, <1>5, <1>6, <1>7, <1>9, <1>10, Zenon DEF Moves, Speaks

LEMMA processEnvelopeMoves ==
    ASSUME WellOrdered,
           VInv, HInv, RestartsRemember, NEW n \in Node, NEW st \in sent, processEnvelope(n, st)
    PROVE  Moves(n)
  <1> DEFINE f == [hint |-> st, next |-> 1, purpose |-> "receive"]
             w == validated(n, local[n], st)
  <1>1. /\ RInv /\ TypeOK /\ local[n] \in LocalState /\ calls[n] = <<>>
        /\ MaxRestarts # 0 => local[n].fullyValidated
    BY RecordTypes DEF VInv, processEnvelope, Ready
  <1>2. st \in SCPStatement /\ st.node \in Node \ {n}
    BY <1>1, StatementTypes DEF TypeOK, processEnvelope
  <1>3. /\ latest' = [latest EXCEPT ![n][st.node] = st]
        /\ UNCHANGED <<last, emitted, sent>>
        /\ validateValues(n, st) # "kInvalidValue"
        /\ \/ UNCHANGED <<local, calls>>
           \/ /\ local' = [local EXCEPT ![n] = w]
              /\ calls' = [calls EXCEPT ![n] = <<f>>]
    BY <1>1 DEF processEnvelope
  <1>4. OnlyNode(n) /\ latest'[n][n] = latest[n][n]
    BY <1>1, processEnvelopeRecords
  <1>5. OwnIn(<<f>>) = {}
    <2>1. f.purpose = "receive"
      OBVIOUS
    <2> HIDE DEF f
    <2>2. Len(<<f>>) = 1 /\ <<f>>[1] = f
      OBVIOUS
    <2> QED BY <2>1, <2>2 DEF OwnIn
  <1>6. SameBallots(w, local[n])
    BY <1>1, SameBallotsUpdates, Zenon
  <1>7. MaxRestarts # 0 => w.fullyValidated
    <2> SUFFICES ASSUME MaxRestarts # 0 PROVE w.fullyValidated
      OBVIOUS
    <2> DEFINE v == local[n].fullyValidated /\ validateValues(n, st) = "kFullyValidatedValue"
    <2>1. w = [local[n] EXCEPT !.fullyValidated = v]
      BY DEF validated
    <2>2. v
      BY <1>1, <1>2, <1>3, ValuesAreValid
    <2> HIDE DEF v, w
    <2>3. w.fullyValidated = v
      BY <1>1, <2>1, Zenon DEF LocalState
    <2> QED BY <2>2, <2>3
  <1> DEFINE stack == <<f>>
  <1> HIDE DEF f, w, stack
  <1>8. local'[n] \in {local[n], w} /\ calls'[n] \in {calls[n], stack}
    BY <1>1, <1>3 DEF TypeOK, stack
  <1>9. Own(n)' = Own(n)
    BY <1>1, <1>5, <1>8, OwnEmpty, Zenon DEF Own, stack
  <1>10. \A m \in Node \ {n} : latest'[n][m] = latest[n][m] \/ (latest'[n][m] = st /\ st.node = m)
    BY <1>1, <1>2, <1>3 DEF TypeOK
  <1>11. Told(n)
    BY <1>3, <1>9, <1>10 DEF Told, StatementsOf
  <1>12. Decides(n)
    BY <1>6, <1>8 DEF Decides, Externalized, SameBallots
  <1> QED BY <1>1, <1>4, <1>7, <1>8, <1>11, <1>12, Zenon DEF Moves, Speaks

LEMMA NewCandidateMoves ==
    ASSUME WellOrdered, VInv, HInv, RestartsRemember, NEW n \in Node, NEW v \in Composites[n],
           NewCandidate(n, v)
    PROVE  Moves(n)
  <1> DEFINE u == bumpState(local[n], v, 1)
  <1>1. /\ RInv /\ TypeOK /\ local[n] \in LocalState
        /\ calls[n] = <<>> /\ local[n].phase # "EXTERNALIZE" /\ Active(n)
    BY RecordTypes, RunningActive DEF VInv, NewCandidate, Ready
  <1>2. UNCHANGED <<emitted, sent>> /\ OnlyNode(n)
    BY <1>1, NewCandidateRecords, Zenon DEF NewCandidate
  <1>3. v \in Value /\ 1 \in Counter
    BY CompositesAssumption, NumberTypes DEF CompositesAssumption, Counter
  <1>4. u \in LocalState
    BY <1>1, <1>3, bumpStateType
  <1>5. Follows(n, u)
    <2>1. Bumped(local[n], u)
      BY <1>1, abandonBallotBumps
    <2> QED BY <1>1, <1>4, <2>1, BumpFollows
  <1>6. <<>> \in Seq(Frame) /\ OwnIn(<<>>) = Own(n) /\ "bump" \in {"emit", "bump"}
    BY <1>1 DEF Own
  <1>7. \/ UNCHANGED <<local, latest, last, calls>>
        \/ emitCurrentStateStatement(n, u, <<>>, "bump")
    BY DEF NewCandidate
  <1> HIDE DEF u
  <1>8. CASE UNCHANGED <<local, latest, last, calls>>
    BY <1>1, <1>2, <1>8, QuietMoves DEF Own, SameBallots
  <1>9. CASE emitCurrentStateStatement(n, u, <<>>, "bump")
    BY <1>1, <1>2, <1>4, <1>5, <1>6, <1>9, EmitMoves, Zenon
  <1> QED BY <1>7, <1>8, <1>9, Zenon

LEMMA TimerMoves ==
    ASSUME WellOrdered, VInv, HInv, RestartsRemember, NEW n \in Node, ballotProtocolTimerExpired(n)
    PROVE  Moves(n)
  <1> DEFINE s == [local[n] EXCEPT !.timer = FALSE]
             u == abandonBallot(s, candidate[n], 0)
  <1>1. /\ RInv /\ TypeOK /\ local[n] \in LocalState
        /\ calls[n] = <<>> /\ Active(n)
    BY RecordTypes, RunningActive DEF VInv, ballotProtocolTimerExpired, Ready
  <1>2. UNCHANGED <<emitted, sent>> /\ OnlyNode(n)
    BY <1>1, TimerRecords DEF ballotProtocolTimerExpired
  <1>3. s \in LocalState /\ SameBallots(s, local[n])
        /\ (s.fullyValidated <=> local[n].fullyValidated) /\ (s.failed <=> local[n].failed)
    BY <1>1, Zenon DEF LocalState, SameBallots
  <1>4. \/ u # s /\ emitCurrentStateStatement(n, u, <<>>, "bump")
        \/ local' = [local EXCEPT ![n] = s] /\ UNCHANGED <<latest, last, calls>>
    BY DEF ballotProtocolTimerExpired
  <1> HIDE DEF s
  <1>5. u \in LocalState
    <2>1. candidate[n] \in Value \cup {NoValue} /\ 0 \in Counter
      BY <1>1, NumberTypes DEF TypeOK, Counter
    <2> QED BY <1>3, <2>1, abandonBallotType
  <1>6. Bumped(s, u) /\ (s.phase = "EXTERNALIZE" => u = s)
    BY <1>3, abandonBallotBumps, Zenon
  <1>7. <<>> \in Seq(Frame) /\ OwnIn(<<>>) = Own(n) /\ "bump" \in {"emit", "bump"}
    BY <1>1 DEF Own
  <1> HIDE DEF u
  <1>8. CASE u # s /\ emitCurrentStateStatement(n, u, <<>>, "bump")
    <2>1. Bumped(local[n], u)
      BY <1>3, <1>6, Zenon DEF Bumped, SameBallots
    <2>2. local[n].phase # "EXTERNALIZE"
      BY <1>3, <1>6, <1>8 DEF SameBallots
    <2>3. Follows(n, u)
      BY <1>1, <1>5, <2>1, <2>2, BumpFollows, Zenon
    <2> QED BY <1>1, <1>2, <1>5, <1>7, <1>8, <2>3, EmitMoves, Zenon
  <1>9. CASE local' = [local EXCEPT ![n] = s] /\ UNCHANGED <<latest, last, calls>>
    <2>1. local'[n] = s /\ Own(n)' = Own(n)
      BY <1>1, <1>9, Zenon DEF TypeOK, Own
    <2> QED BY <1>1, <1>2, <1>3, <1>9, <2>1, QuietMoves
  <1> QED BY <1>4, <1>8, <1>9

\* Only a statement without a ballot is followed by one without a ballot.
LEMMA BallotlessFollows ==
    ASSUME NEW x \in SCPStatement, x.type # "NONE", isStatementSane(x, FALSE),
           NEW y \in SCPStatement, y.type = "NONE" \/ WellFormed(y),
           isNewerStatement(x, y)
    PROVE  Present(y.b)
  <1> SUFFICES ASSUME ~Present(y.b) PROVE FALSE
    OBVIOUS
  <1>1. /\ x.b.counter \in Nat /\ y.b.counter = 0
        /\ x.type \in {"PREPARE", "CONFIRM", "EXTERNALIZE"}
    BY StatementTypes, BallotTypes, Zenon DEF StatementType, Present
  <1>2. y.type \in {"NONE", "PREPARE"}
    BY WellFormedValue, Zenon DEF StatementType
  <1>3. x.b.counter > 0
    BY <1>1 DEF isStatementSane, isPrepareSane, isConfirmSane, isExternalizeSane
  <1>4. ~(TypeRank(x) < TypeRank(y))
    BY <1>1, <1>2 DEF TypeRank
  <1>5. isNewerPrepare(x, y)
    BY <1>2, <1>4 DEF isNewerStatement
  <1> QED BY <1>1, <1>3, <1>5 DEF isNewerPrepare, Less

LEMMA RestartMoves ==
    ASSUME VInv, HInv, RestartsRemember, NEW n \in Node, Restart(n)
    PROVE  Moves(n)
  <1> DEFINE st == emitted[n]
             s == setStateFromEnvelope(st)
             L == [m \in Node |-> IF m = n THEN st ELSE NoStatement(m)]
  <1>1. /\ RInv /\ IInv /\ TypeOK /\ Records(n)
        /\ st \in SCPStatement /\ last[n] \in SCPStatement /\ latest[n][n] \in SCPStatement
        /\ calls[n] = <<>> /\ ~local[n].failed
    BY RecordTypes DEF VInv, Restart, RestartFrom, Ready
  <1>2. local[n].fullyValidated
    <2>1. restarts \in 0 .. MaxRestarts /\ MaxRestarts \in Nat /\ restarts < MaxRestarts
      BY <1>1, BoundsAssumption DEF TypeOK, BoundsAssumption, Restart, RestartFrom
    <2> QED BY <2>1 DEF VInv
  <1>3. /\ local' = [local EXCEPT ![n] = s]
        /\ latest' = [latest EXCEPT ![n] = L]
        /\ last' = [last EXCEPT ![n] = st]
        /\ UNCHANGED <<emitted, calls, sent>>
    BY DEF Restart, RestartFrom
  <1>4. \/ st = NoStatement(n)
        \/ WellFormed(st) /\ isStatementSane(st, FALSE)
    BY <1>1, Zenon DEF IInv, LastHasBallot, SentIsSane
  <1>5. st.node = n
    BY <1>1 DEF Records, Labelled
  <1>6. Reflects(n, s, st) /\ s.fullyValidated
    BY <1>1, <1>4, <1>5, RestoreReflects, Zenon
  <1>7. s.phase = "EXTERNALIZE" => st.type = "EXTERNALIZE" /\ st.b = s.c
    BY <1>6 DEF Reflects, Empty, createStatement, Externalize
  <1>8. \A m \in Node : m # n => L[m] = NoStatement(m)
    OBVIOUS
  <1> HIDE DEF s, L
  <1>9. local'[n] = s /\ last'[n] = st /\ emitted'[n] = st /\ calls'[n] = <<>>
        /\ latest'[n] = L
    BY <1>1, <1>3 DEF TypeOK
  <1>10. OnlyNode(n) /\ latest'[n][n] = st
    BY <1>1, RestartRecords
  <1>11. Own(n) = {} /\ Own(n)' = {}
    BY <1>1, <1>9, OwnEmpty DEF Own
  <1>12. Told(n)
    BY <1>3, <1>8, <1>9, <1>11 DEF Told, StatementsOf
  <1>13. Decides(n)
    <2>1. s.phase = "EXTERNALIZE" => Commits(st, s.c.value)
      BY <1>1, <1>4, <1>7, NoStatementTyped, Zenon DEF Commits
    <2> QED BY <1>9, <2>1, Zenon DEF Decides, Externalized
  <1>14. Speaks(n)
    <2>1. /\ Present(latest[n][n].b) => latest[n][n] = last[n]
          /\ st = last[n]
      BY <1>1, <1>2, <1>11, Zenon DEF Records, OnItsWay
    <2>2. last[n] = latest[n][n] \/ isNewerStatement(last[n], latest[n][n])
      BY <1>1 DEF Records, InOrder, NotAfter
    <2>3. latest[n][n].type = "NONE" \/ WellFormed(latest[n][n])
      BY <1>1 DEF IInv, RecordedWellFormed
    <2>4. CASE st # NoStatement(n) /\ isNewerStatement(last[n], latest[n][n])
      <3>1. st.type # "NONE" /\ isStatementSane(st, FALSE)
        BY <1>1, <1>4, <2>4, WellFormedValue, Zenon DEF StatementType
      <3>2. Present(latest[n][n].b)
        BY <1>1, <2>1, <2>3, <2>4, <3>1, BallotlessFollows, Zenon
      <3> QED BY <1>10, <2>1, <3>2 DEF Speaks
    <2> QED BY <1>10, <2>1, <2>2, <2>4, Zenon DEF Speaks
  <1> QED BY <1>6, <1>9, <1>10, <1>12, <1>13, <1>14, Zenon DEF Moves

\* Every step.
LEMMA NextMoves ==
    ASSUME WellOrdered, VInv, HInv, RestartsRemember, Next
    PROVE  \E n \in Node : Moves(n)
  <1>1. PICK n \in Node :
            \/ advanceSlot(n)
            \/ \E st \in sent : processEnvelope(n, st)
            \/ \E v \in Composites[n] : NewCandidate(n, v)
            \/ ballotProtocolTimerExpired(n)
            \/ Restart(n)
    BY Zenon DEF Next
  <1>2. CASE advanceSlot(n)
    <2>1. InAdvanceSlot(n)
      BY <1>2 DEF advanceSlot
    <2>2. (\E k \in 1 .. 5 : Attempt(n, k)) \/ ReturnFromAdvanceSlot(n)
      BY <1>2 DEF advanceSlot, AcceptPrepared, ConfirmPrepared, AcceptCommit,
                  ConfirmCommit, Bump
    <2> QED BY <2>1, <2>2, AttemptMoves, ReturnMoves
  <1>3. CASE \E st \in sent : processEnvelope(n, st)
    BY <1>3, processEnvelopeMoves
  <1>4. CASE \E v \in Composites[n] : NewCandidate(n, v)
    BY <1>4, NewCandidateMoves
  <1>5. CASE ballotProtocolTimerExpired(n)
    BY <1>5, TimerMoves
  <1>6. CASE Restart(n)
    BY <1>6, RestartMoves
  <1> QED BY <1>1, <1>2, <1>3, <1>4, <1>5, <1>6

----------------------------------------------------------------------------
(***************************************************************************)
(* The votes collected in a step.                                          *)
(***************************************************************************)
VotesChange ==
    \/ \E n \in Node : latest'[n][n] # latest[n][n] /\ Collect(n)
    \/ (\A n \in Node : latest'[n][n] = latest[n][n]) /\ UNCHANGED votes

VotesGrow ==
    \A m \in Node : /\ votedPrepare[m] \subseteq votedPrepare'[m]
                    /\ acceptedPrepared[m] \subseteq acceptedPrepared'[m]
                    /\ votedCommit[m] \subseteq votedCommit'[m]
                    /\ acceptedCommit[m] \subseteq acceptedCommit'[m]

\* The invariants of the votes after the step.
VotesKept(n) ==
    /\ VotesClosed' /\ VotesGrow
    /\ \A m \in Node : VotesBehind(m, latest[m][m])'
    /\ Recorded(latest[n][n])'

\* A statement that says nothing.
LEMMA NothingSaid ==
    ASSUME NEW st, st.type = "NONE", NEW x
    PROVE  /\ ~VotesPrepared(x, st) /\ ~hasPreparedBallot(x, st)
           /\ ~SaysVotedCommit(x, st) /\ ~SaysAcceptedCommit(x, st)
  BY DEF VotesPrepared, hasPreparedBallot, SaysVotedCommit, SaysAcceptedCommit,
         VotesCommit, commitPredicate

\* The invariants of the votes rest on the votes alone.
LEMMA SameVotes ==
    ASSUME Voting!IInv, VotesClosed, UNCHANGED votes
    PROVE  /\ Voting!IInv' /\ VotesClosed' /\ VotesGrow
           /\ votedPrepare' = votedPrepare /\ acceptedPrepared' = acceptedPrepared
           /\ votedCommit' = votedCommit /\ acceptedCommit' = acceptedCommit
           /\ \A x : Voting!Aborted(x)' <=> Voting!Aborted(x)
  <1>1. /\ votedPrepare' = votedPrepare /\ acceptedPrepared' = acceptedPrepared
        /\ votedCommit' = votedCommit /\ acceptedCommit' = acceptedCommit
    BY DEF votes
  <1>2. VotesGrow
    BY <1>1 DEF VotesGrow
  <1>4. /\ \A x : Voting!Aborted(x)' <=> Voting!Aborted(x)
        /\ \A x : Voting!Prepared(x)' <=> Voting!Prepared(x)
        /\ \A x : Voting!Decided(x)' <=> Voting!Decided(x)
    BY <1>1, Zenon DEF Voting!Aborted, Voting!Prepared, Voting!Decided
  <1>5. Voting!TypeOK'
    BY <1>1, Zenon DEF Voting!IInv, Voting!TypeOK
  <1>6. Voting!VotesAreHonest' /\ Voting!AbortedByQuorum'
    BY <1>1, <1>4, Zenon
       DEF Voting!IInv, Voting!VotesAreHonest, Voting!AbortedByQuorum
  <1>7. Voting!CommitVotesPrepared' /\ Voting!CommitsDecided'
    BY <1>1, <1>4, Zenon
       DEF Voting!IInv, Voting!CommitVotesPrepared, Voting!CommitsDecided
  <1>8. VotesClosed'
    BY <1>1, Zenon DEF VotesClosed
  <1> QED BY <1>1, <1>2, <1>4, <1>5, <1>6, <1>7, <1>8 DEF Voting!IInv

\* The node records nothing new.
LEMMA SilentVotes ==
    ASSUME HInv, NEW n \in Node, UNCHANGED votes,
           \A m \in Node : latest'[m][m] = latest[m][m]
    PROVE  VotesKept(n)
  <1>1. \A m \in Node : VotesBehind(m, latest[m][m])'
    <2>1. \A m \in Node : VotesBehind(m, latest[m][m])
      BY DEF HInv
    <2> QED BY <2>1, SameVotes, ZenonT(30) DEF HInv, VotesBehind
  <1>2. Recorded(latest[n][n])'
    <2>1. Recorded(latest[n][n])
      BY DEF HInv, KnownRecorded
    <2> QED BY <2>1, SameVotes, Zenon DEF HInv, Recorded
  <1> QED BY <1>1, <1>2, SameVotes DEF HInv, VotesKept

(***************************************************************************)
(* A node that restarts having sent nothing had not voted: what it had     *)
(* recorded was at most a PREPARE without a ballot.                        *)
(***************************************************************************)
LEMMA ForgottenVotes ==
    ASSUME HInv, NEW n \in Node, Collect(n),
           \A m \in Node : m # n => latest'[m][m] = latest[m][m],
           latest'[n][n] = NoStatement(n), ~Present(latest[n][n].b)
    PROVE  VotesKept(n) /\ UNCHANGED votes
  <1> DEFINE st == latest[n][n]
  <1>1. /\ Voting!TypeOK /\ VotesBehind(n, st) /\ st \in SCPStatement
        /\ st.type = "NONE" \/ WellFormed(st)
    BY Zenon DEF HInv, TypeOK, Voting!IInv, RecordedWellFormed
  <1>2. NoStatement(n) \in SCPStatement /\ NoStatement(n).type = "NONE"
    BY NoStatementTyped
  <1>3. UNCHANGED votes
    <2>1. /\ Said(n, VotesPrepared)' = {} /\ Said(n, hasPreparedBallot)' = {}
          /\ Said(n, SaysVotedCommit)' = {} /\ Said(n, SaysAcceptedCommit)' = {}
      BY <1>2, ZenonT(30) DEF Said
    <2> QED BY <1>1, <2>1, ZenonT(30) DEF Collect, Voting!TypeOK, votes
  <1>4. votedPrepare[n] = {} /\ \A z \in votedCommit[n] : Voting!Aborted(z)
    <2>1. /\ st.b.counter = 0
          /\ st.type \in {"NONE", "PREPARE"} /\ (st.type = "PREPARE" => st.nC = 0)
      BY <1>1, StatementTypes, BallotTypes, WellFormedValue, ZenonT(30)
         DEF StatementType, Present
    <2>2. \A y \in votedPrepare[n] : y.counter \in Nat /\ y.counter # 0
      <3>1. votedPrepare[n] \subseteq SlotBallot
        BY <1>1, Zenon DEF Voting!TypeOK, Voting!SlotBallot, Voting!Counter, SlotBallot, Counter
      <3>2. \A y \in SlotBallot : y.counter \in Nat /\ y.counter # 0
        BY NumberTypes, ZenonT(30) DEF SlotBallot
      <3> QED BY <3>1, <3>2, Zenon
    <2>3. \A y \in votedPrepare[n] : LessOrEqual(y, st.b)
      BY <1>1, <2>1, ZenonT(30) DEF VotesBehind
    <2>4. votedPrepare[n] = {}
      <3> SUFFICES ASSUME NEW y \in votedPrepare[n] PROVE FALSE
        OBVIOUS
      <3>1. y.counter \in Nat /\ y.counter # 0 /\ LessOrEqual(y, st.b)
        BY <2>2, <2>3, Zenon
      <3> HIDE DEF st
      <3> QED BY <2>1, <3>1 DEF LessOrEqual
    <2>5. \A z \in votedCommit[n] : Voting!Aborted(z)
      BY <1>1, <2>1, Zenon DEF VotesBehind
    <2> QED BY <2>4, <2>5, Zenon
  <1>5. ASSUME NEW m \in Node PROVE VotesBehind(m, latest[m][m])'
    <2>1. CASE m = n
      BY <1>2, <1>3, <1>4, <2>1, SameVotes, Zenon DEF HInv, VotesBehind
    <2>2. CASE m # n
      <3>1. latest'[m][m] = latest[m][m] /\ VotesBehind(m, latest[m][m])
        BY <2>2, Zenon DEF HInv
      <3> QED BY <1>3, <3>1, SameVotes, Zenon DEF HInv, VotesBehind
    <2> QED BY <2>1, <2>2
  <1>6. Recorded(latest[n][n])'
    BY <1>2, NothingSaid, Zenon DEF Recorded
  <1> QED BY <1>3, <1>5, <1>6, SameVotes DEF HInv, VotesKept

(***************************************************************************)
(* The statement is recorded after the step.                               *)
(***************************************************************************)
RecordedNext(st) ==
    \A x \in SlotBallot :
        /\ VotesPrepared(x, st) => x \in votedPrepare'[st.node]
        /\ hasPreparedBallot(x, st) => x \in acceptedPrepared'[st.node]
        /\ SaysVotedCommit(x, st) => x \in votedCommit'[st.node]
        /\ SaysAcceptedCommit(x, st) => x \in acceptedCommit'[st.node]

\* What has been recorded stays recorded.
LEMMA RecordedGrows ==
    ASSUME VotesGrow, NEW st, st \in SCPStatement, Recorded(st)
    PROVE  RecordedNext(st)
  <1>1. st.node \in Node
    BY StatementTypes
  <1> QED BY <1>1, Zenon DEF Recorded, RecordedNext, VotesGrow
=============================================================================
