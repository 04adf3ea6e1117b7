---------------------------- MODULE BallotFacts ----------------------------
(***************************************************************************)
(* Facts about ballots, statements and the local state that the proofs     *)
(* about the ballot protocol rest on.                                      *)
(***************************************************************************)
EXTENDS BallotProtocol, TLAPS

(***************************************************************************)
(* Counters and values of ballots are naturals; a value is bounded.        *)
(***************************************************************************)
LEMMA NumberTypes ==
    /\ \A v \in Value \cup {NoValue} : v \in Nat
    /\ \A k \in Counter : k \in Nat /\ k <= UINT32_MAX
    /\ UINT32_MAX \in Nat /\ UINT32_MAX \in Counter \ {0}
    /\ NoValue = 0 /\ NoValue \notin Value
    /\ \E m \in Nat : \A v \in Value \cup {NoValue} : v <= m
  <1>1. \A v \in Value : v \in Nat /\ v # 0
    BY ValueAssumption, Zenon DEF ValueAssumption
  <1>2. \E m \in Nat : \A v \in Value : v <= m
    BY <1>1, ValueAssumption, Zenon DEF ValueAssumption
  <1>3. UINT32_MAX \in Nat \ {0}
    BY CounterAssumption DEF CounterAssumption
  <1> QED BY <1>1, <1>2, <1>3 DEF NoValue, Counter

\* Fields of a ballot: an absent ballot is <0, empty>, a present one has a value.
LEMMA BallotTypes ==
    ASSUME NEW x \in SCPBallot
    PROVE  /\ x.counter \in Counter /\ x.counter \in Nat
           /\ x.value \in Value \cup {NoValue} /\ x.value \in Nat
           /\ Present(x) <=> x # NoBallot
           /\ Present(x) => x \in SlotBallot /\ x.value \in Value /\ x.counter # 0
           /\ ~Present(x) => x.counter = 0 /\ x.value = NoValue
  <1>1. CASE x = NoBallot
    BY <1>1, NumberTypes DEF NoBallot, Ballot, Present, Counter
  <1>2. CASE x \in SlotBallot
    <2>1. x.counter \in Counter \ {0} /\ x.value \in Value
      BY <1>2 DEF SlotBallot
    <2>2. x # NoBallot
      BY <2>1 DEF NoBallot, Ballot
    <2> QED BY <1>2, <2>1, <2>2, NumberTypes, Zenon DEF Present
  <1> QED BY <1>1, <1>2 DEF SCPBallot

\* A counter above 0 and a value make a ballot.
LEMMA BallotIsTyped ==
    ASSUME NEW k \in Counter \ {0}, NEW v \in Value
    PROVE  Ballot(k, v) \in SCPBallot
  BY DEF Ballot, SCPBallot, SlotBallot

\* The ballots of a local state, and their fields.
LEMMA LocalBallots ==
    ASSUME NEW s \in LocalState
    PROVE  /\ s.b \in SCPBallot /\ s.p \in SCPBallot /\ s.pp \in SCPBallot
           /\ s.c \in SCPBallot /\ s.h \in SCPBallot
           /\ s.b.counter \in Nat /\ s.p.counter \in Nat /\ s.pp.counter \in Nat
           /\ s.c.counter \in Nat /\ s.h.counter \in Nat
           /\ s.b.value \in Nat /\ s.p.value \in Nat /\ s.pp.value \in Nat
           /\ s.c.value \in Nat /\ s.h.value \in Nat
           /\ s.phase \in StatementType
  <1>1. /\ s.b \in SCPBallot /\ s.p \in SCPBallot /\ s.pp \in SCPBallot
        /\ s.c \in SCPBallot /\ s.h \in SCPBallot /\ s.phase \in StatementType
    BY DEF LocalState
  <1> QED BY <1>1, BallotTypes

\* A ballot of the slot is present and has proper fields.
LEMMA SlotBallotTypes ==
    ASSUME NEW x \in SlotBallot
    PROVE  /\ x \in SCPBallot /\ Present(x)
           /\ x.counter \in Nat /\ x.counter # 0 /\ x.counter \in Counter
           /\ x.value \in Nat /\ x.value \in Value
  <1>1. x.counter \in Counter \ {0} /\ x.value \in Value
    BY DEF SlotBallot
  <1> QED BY <1>1, NumberTypes, Zenon DEF SCPBallot, Present

----------------------------------------------------------------------------
(***************************************************************************)
(* What well-formed statements hold and what is derived from them.         *)
(***************************************************************************)
LEMMA StatementTypes ==
    ASSUME NEW st \in SCPStatement
    PROVE  /\ st.node \in Node
           /\ st.b \in SCPBallot /\ st.p \in SCPBallot /\ st.pp \in SCPBallot
           /\ st.nP \in Counter /\ st.nC \in Counter /\ st.nH \in Counter
           /\ st.type \in StatementType \cup {"NONE"}
  BY DEF SCPStatement

\* The mark of an absent statement is typed and of no pledge.
LEMMA NoStatementTyped ==
    ASSUME NEW n \in Node
    PROVE  NoStatement(n) \in SCPStatement /\ NoStatement(n).type = "NONE"
  BY NumberTypes DEF NoStatement, SCPStatement, SCPBallot, Counter

\* A well-formed statement that is past PREPARE, or votes to commit, has a value.
LEMMA WellFormedValue ==
    ASSUME NEW st \in SCPStatement, WellFormed(st)
    PROVE  /\ st.type \in StatementType
           /\ st.type # "PREPARE" => Present(st.b) /\ st.b.value \in Value
           /\ st.nC # 0 => Present(st.b) /\ st.b.value \in Value
           /\ Present(st.b) => isStatementSane(st, FALSE) /\ st.b.value \in Value
  <1>1. st.b \in SCPBallot /\ st.b.counter \in Nat /\ st.nH \in Nat /\ st.nC \in Nat
        /\ st.p \in SCPBallot /\ st.p.counter \in Nat
    BY StatementTypes, BallotTypes, NumberTypes, Zenon
  <1>2. st.type \in StatementType
    BY Zenon DEF WellFormed, isStatementSane, StatementType
  <1>3. st.type # "PREPARE" => Present(st.b)
    <2>1. ASSUME st.type # "PREPARE" PROVE isConfirmSane(st) \/ isExternalizeSane(st)
      BY <2>1, Zenon DEF WellFormed, isStatementSane
    <2>2. ASSUME st.type # "PREPARE" PROVE st.b.counter > 0
      BY <2>1, <2>2 DEF isConfirmSane, isExternalizeSane
    <2> QED BY <1>1, <2>2 DEF Present
  <1>4. st.nC # 0 => Present(st.b)
    BY <1>1, <1>2, <1>3 DEF WellFormed, isStatementSane, isPrepareSane, Present,
                            StatementType
  <1>5. Present(st.b) => isStatementSane(st, FALSE)
    BY <1>1 DEF WellFormed, isStatementSane, isPrepareSane, Present
  <1> QED BY <1>1, <1>2, <1>3, <1>4, <1>5, BallotTypes, Zenon

\* The top votes getPrepareCandidates takes from a hint are ballots.
LEMMA HintBallotsType ==
    ASSUME NEW hint \in SCPStatement, WellFormed(hint)
    PROVE  HintBallots(hint) \subseteq SCPBallot
  <1>1. CASE hint.type = "PREPARE"
    BY <1>1, StatementTypes DEF HintBallots
  <1>2. CASE hint.type = "CONFIRM"
    <2>1. hint.b.value \in Value /\ hint.nP \in Counter \ {0}
      BY <1>2, WellFormedValue, StatementTypes, Zenon DEF WellFormed
    <2>2. Ballot(hint.nP, hint.b.value) \in SCPBallot
          /\ Ballot(UINT32_MAX, hint.b.value) \in SCPBallot
      BY <2>1, NumberTypes, BallotIsTyped, Zenon
    <2> QED BY <1>2, <2>2 DEF HintBallots
  <1>3. CASE hint.type = "EXTERNALIZE"
    <2>1. hint.b.value \in Value
      BY <1>3, WellFormedValue, Zenon
    <2>2. Ballot(UINT32_MAX, hint.b.value) \in SCPBallot
      BY <2>1, NumberTypes, BallotIsTyped
    <2> QED BY <1>3, <2>2 DEF HintBallots
  <1> QED BY <1>1, <1>2, <1>3, WellFormedValue, Zenon DEF StatementType

\* So are the candidates it takes from a recorded statement.
LEMMA CandidatesBelowType ==
    ASSUME NEW t \in SCPBallot, NEW st \in SCPStatement,
           st.type = "NONE" \/ WellFormed(st)
    PROVE  CandidatesBelow(t, st) \subseteq SCPBallot
  <1>1. CASE st.type = "PREPARE"
    BY <1>1, StatementTypes DEF CandidatesBelow
  <1>2. CASE st.type = "CONFIRM" /\ areBallotsCompatible(t, st.b)
    <2>1. t.value \in Value /\ st.nP \in Counter \ {0}
      BY <1>2, WellFormedValue, StatementTypes, Zenon DEF WellFormed, areBallotsCompatible
    <2>2. Ballot(st.nP, t.value) \in SCPBallot
      BY <2>1, BallotIsTyped
    <2> QED BY <1>2, <2>2 DEF CandidatesBelow
  <1>3. CASE st.type = "EXTERNALIZE" /\ areBallotsCompatible(t, st.b)
    BY <1>3 DEF CandidatesBelow
  <1>4. CASE /\ st.type # "PREPARE"
             /\ ~(st.type = "CONFIRM" /\ areBallotsCompatible(t, st.b))
             /\ ~(st.type = "EXTERNALIZE" /\ areBallotsCompatible(t, st.b))
    BY <1>4 DEF CandidatesBelow
  <1> QED BY <1>1, <1>2, <1>3, <1>4

\* Commit boundaries are counters.
LEMMA CommitBoundariesType ==
    ASSUME NEW v, NEW st \in SCPStatement
    PROVE  CommitBoundaries(v, st) \subseteq Counter
  <1>1. st.nC \in Counter /\ st.nH \in Counter /\ st.b.counter \in Counter
        /\ UINT32_MAX \in Counter
    BY StatementTypes, BallotTypes, NumberTypes
  <1> QED BY <1>1 DEF CommitBoundaries

----------------------------------------------------------------------------
\* The candidates of all recorded statements are ballots.
LEMMA getPrepareCandidatesType ==
    ASSUME TypeOK, RecordedWellFormed, NEW n \in Node,
           NEW hint \in SCPStatement, WellFormed(hint)
    PROVE  getPrepareCandidates(n, hint) \subseteq SCPBallot
  <1>1. HintBallots(hint) \subseteq SCPBallot
    BY HintBallotsType
  <1>2. ASSUME NEW t \in HintBallots(hint), NEW m \in Node
        PROVE  CandidatesBelow(t, latest[n][m]) \subseteq SCPBallot
    <2>1. latest[n][m] \in SCPStatement
      BY DEF TypeOK
    <2>2. latest[n][m].type = "NONE" \/ WellFormed(latest[n][m])
      BY DEF RecordedWellFormed
    <2> QED BY <1>1, <2>1, <2>2, CandidatesBelowType
  <1> QED BY <1>2 DEF getPrepareCandidates

\* The boundaries of all recorded statements are counters.
LEMMA getCommitBoundariesType ==
    ASSUME TypeOK, NEW n \in Node, NEW v
    PROVE  getCommitBoundaries(n, v) \subseteq Counter
  <1>1. \A m \in Node : latest[n][m] \in SCPStatement
    BY DEF TypeOK
  <1> QED BY <1>1, CommitBoundariesType DEF getCommitBoundaries

----------------------------------------------------------------------------
(***************************************************************************)
(* The updates of the local state keep it well typed.                      *)
(***************************************************************************)
LEMMA bumpToBallotType ==
    ASSUME NEW s \in LocalState, NEW x \in SCPBallot, NEW check \in BOOLEAN
    PROVE  bumpToBallot(s, x, check) \in LocalState
  <1> DEFINE h == IF areBallotsCompatible(x, s.h) THEN s.h ELSE NoBallot
             heard == s.heard /\ s.b.counter = x.counter
             failed == \/ s.failed
                       \/ s.phase = "EXTERNALIZE"
                       \/ check /\ Less(x, s.b)
  <1>1. h \in SCPBallot /\ heard \in BOOLEAN /\ failed \in BOOLEAN
    BY DEF LocalState, SCPBallot
  <1>2. bumpToBallot(s, x, check) =
            [s EXCEPT !.b = x, !.h = h, !.heard = heard, !.failed = failed]
    BY DEF bumpToBallot
  <1> HIDE DEF h, heard, failed
  <1> QED BY <1>1, <1>2, Zenon DEF LocalState

\* updateCurrentIfNeeded keeps the local state well typed.
LEMMA updateCurrentIfNeededType ==
    ASSUME NEW s \in LocalState, NEW x \in SCPBallot
    PROVE  updateCurrentIfNeeded(s, x) \in LocalState
  BY bumpToBallotType, Zenon DEF updateCurrentIfNeeded

\* So does a failed assertion.
LEMMA FailedType ==
    ASSUME NEW s \in LocalState
    PROVE  [s EXCEPT !.failed = TRUE] \in LocalState
  BY Zenon DEF LocalState

\* So does updateCurrentValue, also for a ballot it refuses.
LEMMA updateCurrentValueType ==
    ASSUME NEW s \in LocalState, NEW x, x \in SCPBallot \/ Less(x, s.b)
    PROVE  updateCurrentValue(s, x) \in LocalState
  BY bumpToBallotType, FailedType, Zenon DEF updateCurrentValue

\* So does bumpState with a proper counter.
LEMMA bumpStateType ==
    ASSUME NEW s \in LocalState, NEW v \in Value, NEW k \in Counter,
           k # 0 \/ Present(s.b)
    PROVE  bumpState(s, v, k) \in LocalState
  <1> DEFINE w == IF s.z # NoValue THEN s.z ELSE v
  <1>1. w \in Value
    BY DEF LocalState
  <1>2. Ballot(k, w) \in SCPBallot \/ Less(Ballot(k, w), s.b)
    <2>1. CASE k # 0
      BY <2>1, <1>1, BallotIsTyped
    <2>2. CASE k = 0 /\ Present(s.b)
      <3>1. s.b.counter \in Nat /\ s.b.counter # 0
        BY <2>2, BallotTypes DEF LocalState, Present
      <3> QED BY <2>2, <3>1 DEF Less, Ballot
    <2> QED BY <2>1, <2>2
  <1> QED BY <1>2, updateCurrentValueType DEF bumpState

\* So does abandonBallot, where the next counter may wrap around.
LEMMA abandonBallotType ==
    ASSUME NEW s \in LocalState, NEW composite \in Value \cup {NoValue},
           NEW k \in Counter
    PROVE  abandonBallot(s, composite, k) \in LocalState
  <1> DEFINE v == IF composite # NoValue THEN composite ELSE s.b.value
             j == IF k # 0 THEN k ELSE (s.b.counter + 1) % (UINT32_MAX + 1)
  <1>1. s.b \in SCPBallot
    BY DEF LocalState
  <1>2. v \in Value \cup {NoValue}
    BY <1>1, BallotTypes
  <1>3. j \in Counter /\ (j # 0 \/ Present(s.b))
    <2>1. s.b.counter \in Nat /\ UINT32_MAX \in Nat \ {0}
      BY <1>1, BallotTypes, NumberTypes
    <2>2. (s.b.counter + 1) % (UINT32_MAX + 1) \in Counter
      BY <2>1 DEF Counter
    <2>3. s.b.counter = 0 => (s.b.counter + 1) % (UINT32_MAX + 1) = 1
      BY <2>1
    <2> QED BY <2>2, <2>3 DEF Present
  <1> QED BY <1>2, <1>3, bumpStateType DEF abandonBallot

\* So does setPrepared.
LEMMA setPreparedType ==
    ASSUME NEW s \in LocalState, NEW x \in SCPBallot
    PROVE  setPrepared(s, x) \in LocalState
  BY Zenon DEF setPrepared, LocalState

\* So does setPreparedAccept, which may clear c.
LEMMA setPreparedAcceptType ==
    ASSUME NEW s \in LocalState, NEW x \in SCPBallot
    PROVE  setPreparedAccept(s, x) \in LocalState
  <1> DEFINE t == setPrepared(s, x)
             clearC == /\ Present(t.c) /\ Present(t.h)
                       /\ \E y \in {t.p, t.pp} :
                              Present(y) /\ areBallotsLessAndIncompatible(t.h, y)
             c == IF clearC THEN NoBallot ELSE t.c
             failed == t.failed \/ (clearC /\ t.phase # "PREPARE")
  <1>1. t \in LocalState
    BY setPreparedType
  <1>2. setPreparedAccept(s, x) = [t EXCEPT !.c = c, !.failed = failed]
    BY Zenon DEF setPreparedAccept
  <1> HIDE DEF t, clearC
  <1>3. c \in SCPBallot
    BY <1>1, Zenon DEF LocalState, SCPBallot
  <1>4. failed \in BOOLEAN
    BY <1>1, Zenon DEF LocalState
  <1> HIDE DEF c, failed
  <1>5. [t EXCEPT !.c = c, !.failed = failed] \in LocalState
    BY <1>1, <1>3, <1>4, Zenon DEF LocalState
  <1> QED BY <1>2, <1>5, Zenon

\* So does setPreparedConfirmed.
LEMMA setPreparedConfirmedType ==
    ASSUME NEW s \in LocalState, NEW newC \in SCPBallot, NEW newH \in SCPBallot
    PROVE  setPreparedConfirmed(s, newC, newH) \in LocalState
  <1>1. newH.value \in Value \cup {NoValue}
    BY BallotTypes
  <1> DEFINE onH  == ~Present(s.b) \/ areBallotsCompatible(s.b, newH)
             setC == onH /\ Present(newC)
             h == IF onH /\ Less(s.h, newH) THEN newH ELSE s.h
             c == IF setC THEN newC ELSE s.c
             failed == s.failed \/ (setC /\ Present(s.c))
             t == [s EXCEPT !.z = newH.value, !.h = h, !.c = c, !.failed = failed]
  <1>2. h \in SCPBallot /\ c \in SCPBallot /\ failed \in BOOLEAN
    BY DEF LocalState
  <1>3. setPreparedConfirmed(s, newC, newH) = updateCurrentIfNeeded(t, newH)
    BY DEF setPreparedConfirmed
  <1> HIDE DEF h, c, failed
  <1>4. t \in LocalState
    BY <1>1, <1>2, Zenon DEF LocalState
  <1> QED BY <1>3, <1>4, updateCurrentIfNeededType

\* So does setAcceptCommit, which clears p' and may move b.
LEMMA setAcceptCommitType ==
    ASSUME NEW s \in LocalState, NEW newC \in SCPBallot, NEW newH \in SCPBallot
    PROVE  setAcceptCommit(s, newC, newH) \in LocalState
  <1>1. newH.value \in Value \cup {NoValue}
    BY BallotTypes
  <1> DEFINE pp == IF s.phase = "PREPARE" THEN NoBallot ELSE s.pp
             t == [s EXCEPT !.z = newH.value, !.c = newC, !.h = newH,
                            !.phase = "CONFIRM", !.pp = pp]
             u == IF /\ s.phase = "PREPARE"
                     /\ Present(s.b) /\ ~areBallotsLessAndCompatible(newH, s.b)
                  THEN bumpToBallot(t, newH, FALSE) ELSE t
  <1>2. pp \in SCPBallot
    BY DEF LocalState, SCPBallot
  <1>3. setAcceptCommit(s, newC, newH) = updateCurrentIfNeeded(u, newH)
    BY DEF setAcceptCommit
  <1> HIDE DEF pp
  <1>4. t \in LocalState
    BY <1>1, <1>2, Zenon DEF LocalState, StatementType
  <1>5. u \in LocalState
    BY <1>4, bumpToBallotType, Zenon
  <1> QED BY <1>3, <1>5, updateCurrentIfNeededType, Zenon

\* So does setConfirmCommit.
LEMMA setConfirmCommitType ==
    ASSUME NEW s \in LocalState, NEW newC \in SCPBallot, NEW newH \in SCPBallot
    PROVE  setConfirmCommit(s, newC, newH) \in LocalState
  <1>1. [s EXCEPT !.c = newC, !.h = newH] \in LocalState
    BY Zenon DEF LocalState
  <1>2. updateCurrentIfNeeded([s EXCEPT !.c = newC, !.h = newH], newH) \in LocalState
    BY <1>1, updateCurrentIfNeededType
  <1> QED BY <1>2 DEF setConfirmCommit, LocalState, StatementType

----------------------------------------------------------------------------
(***************************************************************************)
(* The statement a node has recorded for itself says what its local state  *)
(* is; a node that has recorded none has an empty state.                   *)
(***************************************************************************)
Empty(s) ==
    /\ s.phase = "PREPARE"
    /\ s.b = NoBallot /\ s.p = NoBallot /\ s.pp = NoBallot
    /\ s.h = NoBallot /\ s.c = NoBallot

Reflects(n, s, st) ==
    \/ st = NoStatement(n) /\ Empty(s)
    \/ st = createStatement(n, s) /\ checkInvariants(s)

\* The rank of a statement's type is a number.
LEMMA TypeRanks ==
    ASSUME NEW st \in SCPStatement
    PROVE  /\ TypeRank(st) \in 0 .. 3
           /\ st.type = "PREPARE" <=> TypeRank(st) = 1
           /\ st.type = "CONFIRM" <=> TypeRank(st) = 2
  BY StatementTypes DEF TypeRank, StatementType

----------------------------------------------------------------------------
(***************************************************************************)
(* What bumpToBallot and the methods built on it change.                   *)
(***************************************************************************)
LEMMA bumpToBallotFields ==
    ASSUME NEW s \in LocalState, NEW x, NEW check
    PROVE  LET u == bumpToBallot(s, x, check)
           IN  /\ u.phase = s.phase /\ u.p = s.p /\ u.pp = s.pp /\ u.c = s.c
               /\ u.b = x
               /\ u.h = IF areBallotsCompatible(x, s.h) THEN s.h ELSE NoBallot
               /\ u.fullyValidated <=> s.fullyValidated
               /\ s.failed => u.failed
  <1> DEFINE h == IF areBallotsCompatible(x, s.h) THEN s.h ELSE NoBallot
             heard == s.heard /\ s.b.counter = x.counter
             failed == s.failed \/ s.phase = "EXTERNALIZE" \/ (check /\ Less(x, s.b))
             u == [s EXCEPT !.b = x, !.h = h, !.heard = heard, !.failed = failed]
  <1>1. bumpToBallot(s, x, check) = u
    BY Zenon DEF bumpToBallot
  <1>2. s.failed => failed
    OBVIOUS
  <1> HIDE DEF h, heard, failed
  <1>3. /\ u.phase = s.phase /\ u.p = s.p /\ u.pp = s.pp /\ u.c = s.c
        /\ u.b = x /\ u.h = h
        /\ u.fullyValidated <=> s.fullyValidated
        /\ s.failed => u.failed
    BY <1>2, Zenon DEF LocalState
  <1> HIDE DEF u
  <1> QED BY <1>1, <1>3 DEF h

(***************************************************************************)
(* bumpState leaves the state alone, fails, or moves b to a ballot         *)
(* compatible with c and drops h when it is not compatible.                *)
(***************************************************************************)
Bumped(s, u) ==
    /\ u.phase = s.phase /\ u.p = s.p /\ u.pp = s.pp /\ u.c = s.c
    /\ u.fullyValidated <=> s.fullyValidated
    /\ s.failed => u.failed
    /\ \/ u.b = s.b /\ u.h = s.h
       \/ /\ Present(s.c) => areBallotsCompatible(s.c, u.b)
          /\ u.h = IF areBallotsCompatible(u.b, s.h) THEN s.h ELSE NoBallot

LEMMA updateCurrentValueBumps ==
    ASSUME NEW s \in LocalState, NEW x
    PROVE  Bumped(s, updateCurrentValue(s, x))
  <1>1. Bumped(s, s)
    BY DEF Bumped
  <1>2. Bumped(s, [s EXCEPT !.failed = TRUE])
    BY Zenon DEF Bumped, LocalState
  <1>3. (Present(s.c) => areBallotsCompatible(s.c, x))
        => Bumped(s, bumpToBallot(s, x, TRUE))
    <2> DEFINE u == bumpToBallot(s, x, TRUE)
    <2>1. /\ u.phase = s.phase /\ u.p = s.p /\ u.pp = s.pp /\ u.c = s.c
          /\ u.b = x
          /\ u.h = IF areBallotsCompatible(x, s.h) THEN s.h ELSE NoBallot
          /\ u.fullyValidated <=> s.fullyValidated
          /\ s.failed => u.failed
      BY bumpToBallotFields, Zenon
    <2> HIDE DEF u
    <2>2. (Present(s.c) => areBallotsCompatible(s.c, x)) => Bumped(s, u)
      BY <2>1 DEF Bumped
    <2> QED BY <2>2, Zenon DEF u
  <1> QED BY <1>1, <1>2, <1>3, Zenon DEF updateCurrentValue

\* So does abandonBallot.
LEMMA abandonBallotBumps ==
    ASSUME NEW s \in LocalState, NEW v, NEW k
    PROVE  /\ Bumped(s, bumpState(s, v, k))
           /\ Bumped(s, abandonBallot(s, v, k))
           /\ s.phase = "EXTERNALIZE" => abandonBallot(s, v, k) = s
  <1>1. Bumped(s, s)
    BY DEF Bumped
  <1>2. \A w, j : Bumped(s, bumpState(s, w, j))
    BY <1>1, updateCurrentValueBumps, Zenon DEF bumpState
  <1>3. \E w, j : abandonBallot(s, v, k) = s \/ abandonBallot(s, v, k) = bumpState(s, w, j)
    BY Zenon DEF abandonBallot
  <1>4. s.phase = "EXTERNALIZE" => \A w, j : bumpState(s, w, j) = s
    BY Zenon DEF bumpState
  <1> QED BY <1>1, <1>2, <1>3, <1>4, Zenon

(***************************************************************************)
(* What the set* methods change, as far as statements tell.                *)
(***************************************************************************)
LEMMA setPreparedFields ==
    ASSUME NEW s \in LocalState, NEW x
    PROVE  LET t == setPrepared(s, x)
           IN  /\ t.phase = s.phase /\ t.h = s.h /\ t.c = s.c
               /\ t.p = s.p \/ t.p = x
               /\ t.pp = s.pp \/ t.pp = s.p \/ t.pp = x
  BY Zenon DEF setPrepared, LocalState

LEMMA setPreparedAcceptFields ==
    ASSUME NEW s \in LocalState, NEW x \in SCPBallot
    PROVE  LET u == setPreparedAccept(s, x)
           IN  /\ u.phase = s.phase /\ u.h = s.h
               /\ u.p = s.p \/ u.p = x
               /\ u.pp = s.pp \/ u.pp = s.p \/ u.pp = x
               /\ \/ u.c = s.c
                  \/ /\ u.c = NoBallot
                     /\ s.phase # "PREPARE" => u.failed
                     /\ \E y \in {u.p, u.pp} :
                            Present(y) /\ areBallotsLessAndIncompatible(s.h, y)
  <1> DEFINE t == setPrepared(s, x)
             clearC == /\ Present(t.c) /\ Present(t.h)
                       /\ \E y \in {t.p, t.pp} :
                              Present(y) /\ areBallotsLessAndIncompatible(t.h, y)
             c == IF clearC THEN NoBallot ELSE t.c
             failed == t.failed \/ (clearC /\ t.phase # "PREPARE")
             u == [t EXCEPT !.c = c, !.failed = failed]
  <1>1. setPreparedAccept(s, x) = u
    BY DEF setPreparedAccept
  <1>2. /\ t.phase = s.phase /\ t.h = s.h /\ t.c = s.c
        /\ t.p = s.p \/ t.p = x
        /\ t.pp = s.pp \/ t.pp = s.p \/ t.pp = x
    BY setPreparedFields
  <1>3. t \in LocalState
    BY setPreparedType
  <1>4. /\ c = t.c \/ (c = NoBallot /\ clearC)
        /\ clearC /\ t.phase # "PREPARE" => failed
        /\ clearC => \E y \in {t.p, t.pp} :
                         Present(y) /\ areBallotsLessAndIncompatible(t.h, y)
    OBVIOUS
  <1> HIDE DEF t, clearC, c, failed
  <1>5. /\ u.phase = t.phase /\ u.h = t.h /\ u.p = t.p /\ u.pp = t.pp
        /\ u.c = c /\ u.failed = failed
    BY <1>3, Zenon DEF LocalState
  <1> HIDE DEF u
  <1> QED BY <1>1, <1>2, <1>4, <1>5

LEMMA updateCurrentIfNeededFields ==
    ASSUME NEW s \in LocalState, NEW x
    PROVE  LET u == updateCurrentIfNeeded(s, x)
           IN  /\ u.phase = s.phase /\ u.p = s.p /\ u.pp = s.pp /\ u.c = s.c
               /\ \/ u.h = s.h
                  \/ u.h = NoBallot /\ ~areBallotsCompatible(x, s.h)
  <1>1. CASE Less(s.b, x)
    <2>1. updateCurrentIfNeeded(s, x) = bumpToBallot(s, x, TRUE)
      BY <1>1 DEF updateCurrentIfNeeded
    <2> DEFINE u == bumpToBallot(s, x, TRUE)
    <2>2. /\ u.phase = s.phase /\ u.p = s.p /\ u.pp = s.pp /\ u.c = s.c
          /\ u.b = x
          /\ u.h = IF areBallotsCompatible(x, s.h) THEN s.h ELSE NoBallot
          /\ u.fullyValidated <=> s.fullyValidated
          /\ s.failed => u.failed
      BY bumpToBallotFields, Zenon
    <2> HIDE DEF u
    <2>3. updateCurrentIfNeeded(s, x) = u
      BY <2>1 DEF u
    <2> QED BY <2>2, <2>3
  <1>2. CASE ~Less(s.b, x)
    BY <1>2 DEF updateCurrentIfNeeded
  <1> QED BY <1>1, <1>2

LEMMA setPreparedConfirmedFields ==
    ASSUME NEW s \in LocalState, NEW newC \in SCPBallot, NEW newH \in SCPBallot
    PROVE  LET u == setPreparedConfirmed(s, newC, newH)
               setC == /\ ~Present(s.b) \/ areBallotsCompatible(s.b, newH)
                       /\ Present(newC)
           IN  /\ u.phase = s.phase /\ u.p = s.p /\ u.pp = s.pp
               /\ u.c = IF setC THEN newC ELSE s.c
               /\ \/ u.h = s.h /\ (setC => ~Less(s.h, newH))
                  \/ u.h = newH /\ Less(s.h, newH)
                  \/ u.h = NoBallot
  <1>1. newH.value \in Value \cup {NoValue}
    BY BallotTypes
  <1> DEFINE onH  == ~Present(s.b) \/ areBallotsCompatible(s.b, newH)
             setC == onH /\ Present(newC)
             h == IF onH /\ Less(s.h, newH) THEN newH ELSE s.h
             c == IF setC THEN newC ELSE s.c
             failed == s.failed \/ (setC /\ Present(s.c))
             t == [s EXCEPT !.z = newH.value, !.h = h, !.c = c, !.failed = failed]
             u == updateCurrentIfNeeded(t, newH)
  <1>2. h \in SCPBallot /\ c \in SCPBallot /\ failed \in BOOLEAN
    BY DEF LocalState
  <1>3. setPreparedConfirmed(s, newC, newH) = u
    BY DEF setPreparedConfirmed
  <1>4. \/ h = s.h /\ (setC => ~Less(s.h, newH))
        \/ h = newH /\ Less(s.h, newH)
    OBVIOUS
  <1>5. c = IF setC THEN newC ELSE s.c
    OBVIOUS
  <1> HIDE DEF h, c, failed
  <1>6. /\ t \in LocalState
        /\ t.phase = s.phase /\ t.p = s.p /\ t.pp = s.pp /\ t.c = c /\ t.h = h
    BY <1>1, <1>2, Zenon DEF LocalState
  <1> HIDE DEF t
  <1>7. /\ u.phase = t.phase /\ u.p = t.p /\ u.pp = t.pp /\ u.c = t.c
        /\ u.h = t.h \/ u.h = NoBallot
    BY <1>6, updateCurrentIfNeededFields
  <1> HIDE DEF u
  <1> QED BY <1>3, <1>4, <1>5, <1>6, <1>7

LEMMA setAcceptCommitFields ==
    ASSUME NEW s \in LocalState, NEW newC \in SCPBallot, NEW newH \in SCPBallot
    PROVE  LET u == setAcceptCommit(s, newC, newH)
           IN  u.phase = "CONFIRM" /\ u.p = s.p /\ u.c = newC /\ u.h = newH
  <1>1. newH.value \in Value \cup {NoValue}
    BY BallotTypes
  <1> DEFINE pp == IF s.phase = "PREPARE" THEN NoBallot ELSE s.pp
             t == [s EXCEPT !.z = newH.value, !.c = newC, !.h = newH,
                            !.phase = "CONFIRM", !.pp = pp]
             b == bumpToBallot(t, newH, FALSE)
             u == IF /\ s.phase = "PREPARE"
                     /\ Present(s.b) /\ ~areBallotsLessAndCompatible(newH, s.b)
                  THEN b ELSE t
             w == updateCurrentIfNeeded(u, newH)
  <1>2. pp \in SCPBallot
    BY DEF LocalState, SCPBallot
  <1>3. setAcceptCommit(s, newC, newH) = w
    BY DEF setAcceptCommit
  <1> HIDE DEF pp
  <1>4. t \in LocalState /\ t.p = s.p /\ t.c = newC /\ t.h = newH /\ t.phase = "CONFIRM"
    BY <1>1, <1>2, Zenon DEF LocalState, StatementType
  <1> HIDE DEF t
  <1>5. areBallotsCompatible(newH, newH)
    BY DEF areBallotsCompatible
  <1>6. b.phase = t.phase /\ b.p = t.p /\ b.c = t.c /\ b.h = t.h
    <2> DEFINE g(check) == bumpToBallot(t, newH, check)
    <2>1. \A check : /\ g(check).phase = t.phase /\ g(check).p = t.p
                     /\ g(check).c = t.c /\ g(check).h = t.h
      BY <1>4, <1>5, bumpToBallotFields
    <2>2. b = g(FALSE)
      OBVIOUS
    <2> HIDE DEF g, b
    <2> QED BY <2>1, <2>2, Zenon
  <1>7. b \in LocalState
    BY <1>4, bumpToBallotType, Zenon
  <1> HIDE DEF b
  <1>8. u \in LocalState /\ u.p = s.p /\ u.c = newC /\ u.h = newH /\ u.phase = "CONFIRM"
    BY <1>4, <1>6, <1>7
  <1> HIDE DEF u
  <1>9. /\ w.phase = u.phase /\ w.p = u.p /\ w.pp = u.pp /\ w.c = u.c
        /\ \/ w.h = u.h
           \/ w.h = NoBallot /\ ~areBallotsCompatible(newH, u.h)
    BY <1>8, updateCurrentIfNeededFields
  <1> HIDE DEF w
  <1> QED BY <1>3, <1>5, <1>8, <1>9

LEMMA setConfirmCommitFields ==
    ASSUME NEW s \in LocalState, NEW newC \in SCPBallot, NEW newH \in SCPBallot
    PROVE  LET u == setConfirmCommit(s, newC, newH)
           IN  u.phase = "EXTERNALIZE" /\ u.c = newC
  <1> DEFINE t == [s EXCEPT !.c = newC, !.h = newH]
             u == updateCurrentIfNeeded(t, newH)
             w == [u EXCEPT !.phase = "EXTERNALIZE"]
  <1>1. setConfirmCommit(s, newC, newH) = w
    BY DEF setConfirmCommit
  <1>2. t \in LocalState /\ t.c = newC
    BY Zenon DEF LocalState
  <1> HIDE DEF t
  <1>3. /\ u.phase = t.phase /\ u.p = t.p /\ u.pp = t.pp /\ u.c = t.c
        /\ \/ u.h = t.h
           \/ u.h = NoBallot /\ ~areBallotsCompatible(newH, t.h)
    BY <1>2, updateCurrentIfNeededFields
  <1>4. u \in LocalState
    BY <1>2, updateCurrentIfNeededType
  <1> HIDE DEF u
  <1>5. w.phase = "EXTERNALIZE" /\ w.c = u.c
    BY <1>4, Zenon DEF LocalState
  <1> HIDE DEF w
  <1> QED BY <1>1, <1>2, <1>3, <1>5

\* No update changes what has been validated.
LEMMA UpdatesKeepValidation ==
    ASSUME NEW s \in LocalState, NEW newC \in SCPBallot, NEW newH \in SCPBallot
    PROVE  /\ setPreparedAccept(s, newH).fullyValidated <=> s.fullyValidated
           /\ setPreparedConfirmed(s, newC, newH).fullyValidated <=> s.fullyValidated
           /\ setAcceptCommit(s, newC, newH).fullyValidated <=> s.fullyValidated
           /\ setConfirmCommit(s, newC, newH).fullyValidated <=> s.fullyValidated
  <1>1. newH.value \in Value \cup {NoValue}
    BY BallotTypes
  <1>2. ASSUME NEW t \in LocalState
        PROVE  updateCurrentIfNeeded(t, newH).fullyValidated <=> t.fullyValidated
    <2> DEFINE g(check) == bumpToBallot(t, newH, check)
    <2>1. \A check : g(check).fullyValidated <=> t.fullyValidated
      BY bumpToBallotFields
    <2>2. updateCurrentIfNeeded(t, newH) \in {g(TRUE), t}
      BY DEF updateCurrentIfNeeded
    <2> HIDE DEF g
    <2> QED BY <2>1, <2>2, Zenon
  <1>3. setPreparedAccept(s, newH).fullyValidated <=> s.fullyValidated
    <2> DEFINE t == setPrepared(s, newH)
    <2>1. t.fullyValidated <=> s.fullyValidated
      BY Zenon DEF setPrepared, LocalState
    <2>2. t \in LocalState
      BY setPreparedType
    <2>3. \E c, failed : setPreparedAccept(s, newH) = [t EXCEPT !.c = c, !.failed = failed]
      BY Zenon DEF setPreparedAccept
    <2> HIDE DEF t
    <2>4. \A c, failed : [t EXCEPT !.c = c, !.failed = failed].fullyValidated
                             <=> t.fullyValidated
      BY <2>2, Zenon DEF LocalState
    <2> QED BY <2>1, <2>3, <2>4, Zenon
  <1>4. setPreparedConfirmed(s, newC, newH).fullyValidated <=> s.fullyValidated
    <2> DEFINE v == newH.value
               onH  == ~Present(s.b) \/ areBallotsCompatible(s.b, newH)
               setC == onH /\ Present(newC)
               h == IF onH /\ Less(s.h, newH) THEN newH ELSE s.h
               c == IF setC THEN newC ELSE s.c
               failed == s.failed \/ (setC /\ Present(s.c))
               t == [s EXCEPT !.z = v, !.h = h, !.c = c, !.failed = failed]
    <2>1. h \in SCPBallot /\ c \in SCPBallot /\ failed \in BOOLEAN
          /\ v \in Value \cup {NoValue}
      BY <1>1 DEF LocalState
    <2>2. setPreparedConfirmed(s, newC, newH) = updateCurrentIfNeeded(t, newH)
      BY DEF setPreparedConfirmed
    <2> HIDE DEF v, h, c, failed
    <2>3. t \in LocalState /\ (t.fullyValidated <=> s.fullyValidated)
      BY <2>1, Zenon DEF LocalState
    <2> HIDE DEF t
    <2> QED BY <1>2, <2>2, <2>3
  <1>5. setAcceptCommit(s, newC, newH).fullyValidated <=> s.fullyValidated
    <2> DEFINE v == newH.value
               pp == IF s.phase = "PREPARE" THEN NoBallot ELSE s.pp
               t == [s EXCEPT !.z = v, !.c = newC, !.h = newH,
                              !.phase = "CONFIRM", !.pp = pp]
               g(check) == bumpToBallot(t, newH, check)
    <2>1. pp \in SCPBallot /\ v \in Value \cup {NoValue}
      BY <1>1 DEF LocalState, SCPBallot
    <2>2. \E u \in {t, g(FALSE)} :
              setAcceptCommit(s, newC, newH) = updateCurrentIfNeeded(u, newH)
      BY Zenon DEF setAcceptCommit
    <2> HIDE DEF v, pp
    <2>3. t \in LocalState /\ (t.fullyValidated <=> s.fullyValidated)
      BY <2>1, Zenon DEF LocalState, StatementType
    <2> HIDE DEF t
    <2>4. \A check : g(check).fullyValidated <=> t.fullyValidated
      BY <2>3, bumpToBallotFields
    <2>5. \A check \in BOOLEAN : g(check) \in LocalState
      BY <2>3, bumpToBallotType
    <2> HIDE DEF g
    <2>6. \A u \in {t, g(FALSE)} : u \in LocalState /\ (u.fullyValidated <=> s.fullyValidated)
      BY <2>3, <2>4, <2>5, Zenon
    <2> QED BY <1>2, <2>2, <2>6, ZenonT(30)
  <1>6. setConfirmCommit(s, newC, newH).fullyValidated <=> s.fullyValidated
    <2> DEFINE t == [s EXCEPT !.c = newC, !.h = newH]
               u == updateCurrentIfNeeded(t, newH)
    <2>1. setConfirmCommit(s, newC, newH) = [u EXCEPT !.phase = "EXTERNALIZE"]
      BY DEF setConfirmCommit
    <2>2. t \in LocalState /\ (t.fullyValidated <=> s.fullyValidated)
      BY Zenon DEF LocalState
    <2> HIDE DEF t
    <2>3. u \in LocalState /\ (u.fullyValidated <=> t.fullyValidated)
      BY <1>2, <2>2, updateCurrentIfNeededType
    <2> HIDE DEF u
    <2>4. [u EXCEPT !.phase = "EXTERNALIZE"].fullyValidated <=> u.fullyValidated
      BY <2>3, Zenon DEF LocalState
    <2> QED BY <2>1, <2>2, <2>3, <2>4, Zenon
  <1> QED BY <1>3, <1>4, <1>5, <1>6

----------------------------------------------------------------------------
(***************************************************************************)
(* A nonempty set of naturals has a least element. The lemmas that need it *)
(* assume it; it is proved beside the theorems (NaturalsAreWellOrdered).   *)
(***************************************************************************)
WellOrdered == \A S \in SUBSET Nat : S # {} => \E k \in S : \A j \in S : k <= j

\* A nonempty bounded set of naturals has a greatest element.
LEMMA GreatestElement ==
    ASSUME WellOrdered, NEW S, S \subseteq Nat, S # {}, NEW b \in Nat, \A x \in S : x <= b
    PROVE  \E k \in S : \A j \in S : j <= k
  <1> DEFINE T == {b - x : x \in S}
  <1>1. T \subseteq Nat
    <2>1. \A x \in S : x \in Nat /\ x <= b
      OBVIOUS
    <2>2. \A x \in S : b - x \in Nat
      BY <2>1
    <2> QED BY <2>2
  <1>2. T # {}
    BY Zenon
  <1> HIDE DEF T
  <1>3. PICK t \in T : \A u \in T : t <= u
    BY <1>1, <1>2, Zenon DEF WellOrdered
  <1>4. PICK k \in S : t = b - k
    BY <1>3 DEF T
  <1>5. \A j \in S : b - j \in T
    BY DEF T
  <1>6. \A j \in S : j \in Nat /\ k \in Nat /\ b - k <= b - j
    BY <1>3, <1>4, <1>5
  <1>7. \A j \in S : j <= k
    BY <1>6
  <1> QED BY <1>7

(***************************************************************************)
(* The highest and the lowest ballot of a set belong to it.                *)
(***************************************************************************)
LEMMA HighestIn ==
    ASSUME WellOrdered, NEW B, B \subseteq SCPBallot, B # {}
    PROVE  Highest(B) \in B
  <1> DEFINE C == {x.counter : x \in B}
  <1>1. C \subseteq Nat /\ C # {} /\ \A k \in C : k <= UINT32_MAX
    BY BallotTypes, NumberTypes
  <1>2. PICK k \in C : \A j \in C : j <= k
    BY <1>1, NumberTypes, GreatestElement, Zenon
  <1> DEFINE V == {x.value : x \in {y \in B : y.counter = k}}
  <1>3. V \subseteq Nat /\ V # {} /\ V \subseteq Value \cup {NoValue}
    BY <1>2, BallotTypes
  <1>4. PICK m \in Nat : \A v \in Value \cup {NoValue} : v <= m
    BY NumberTypes
  <1>5. PICK v \in V : \A w \in V : w <= v
    BY <1>3, <1>4, GreatestElement, Zenon
  <1>6. PICK x \in B : x.counter = k /\ x.value = v
    BY <1>5
  <1>7. ASSUME NEW y \in B PROVE LessOrEqual(y, x)
    <2>1. y.counter \in C /\ y.counter \in Nat /\ k \in Nat
      BY <1>1, <1>2, BallotTypes
    <2>2. y.counter = k => y.value \in V
      OBVIOUS
    <2>3. y.counter <= k /\ (y.counter = k => y.value <= v)
      BY <1>2, <1>5, <2>1, <2>2
    <2> QED BY <1>6, <2>1, <2>3 DEF LessOrEqual
  <1> QED BY <1>7 DEF Highest

\* The lowest ballot of a nonempty set belongs to it.
LEMMA LowestIn ==
    ASSUME WellOrdered, NEW B, B \subseteq SCPBallot, B # {}
    PROVE  Lowest(B) \in B
  <1> DEFINE C == {x.counter : x \in B}
  <1>1. C \subseteq Nat /\ C # {}
    BY BallotTypes
  <1>2. PICK k \in C : \A j \in C : k <= j
    BY <1>1, Zenon DEF WellOrdered
  <1> DEFINE V == {x.value : x \in {y \in B : y.counter = k}}
  <1>3. V \subseteq Nat /\ V # {}
    BY <1>2, BallotTypes
  <1>5. PICK v \in V : \A w \in V : v <= w
    BY <1>3, Zenon DEF WellOrdered
  <1>6. PICK x \in B : x.counter = k /\ x.value = v
    BY <1>5
  <1>7. ASSUME NEW y \in B PROVE LessOrEqual(x, y)
    <2>1. y.counter \in C /\ y.counter \in Nat /\ k \in Nat
      BY <1>1, <1>2, BallotTypes
    <2>2. y.counter = k => y.value \in V
      OBVIOUS
    <2>3. k <= y.counter /\ (y.counter = k => v <= y.value)
      BY <1>2, <1>5, <2>1, <2>2
    <2> QED BY <1>6, <2>1, <2>3 DEF LessOrEqual
  <1> QED BY <1>7 DEF Lowest

(***************************************************************************)
(* findExtendedInterval answers <<0, 0>> or an interval of boundaries.     *)
(***************************************************************************)
LEMMA findExtendedIntervalType ==
    ASSUME WellOrdered, NEW B, B \subseteq Counter, NEW Pred,
           findExtendedInterval(B, Pred)[1] # 0
    PROVE  /\ findExtendedInterval(B, Pred)[1] \in Counter \ {0}
           /\ findExtendedInterval(B, Pred)[2] \in Counter \ {0}
           /\ findExtendedInterval(B, Pred)[1] <= findExtendedInterval(B, Pred)[2]
           /\ findExtendedInterval(B, Pred) \in Pred
  <1> DEFINE tops == {x \in B : <<x, x>> \in Pred}
             hi == CHOOSE x \in tops : \A y \in tops : y <= x
             reach == {x \in B : x <= hi /\ \A y \in B :
                                    y \in x .. hi => <<y, hi>> \in Pred}
             lo == CHOOSE x \in reach : \A y \in reach : x <= y
  <1>1. findExtendedInterval(B, Pred) = IF tops = {} THEN <<0, 0>> ELSE <<lo, hi>>
    BY DEF findExtendedInterval
  <1>2. tops # {}
    BY <1>1
  <1>3. /\ \A x \in B : x \in Nat /\ x <= UINT32_MAX
        /\ UINT32_MAX \in Nat
    BY NumberTypes
  <1>4. tops \subseteq Nat /\ \A x \in tops : x <= UINT32_MAX
    BY <1>3
  <1>5. \E x \in tops : \A y \in tops : y <= x
    BY <1>2, <1>3, <1>4, GreatestElement, Zenon
  <1>6. hi \in tops
    BY <1>5, Zenon
  <1>7. hi \in reach
    <2>1. hi \in B /\ hi \in Nat /\ <<hi, hi>> \in Pred
      BY <1>3, <1>6
    <2> HIDE DEF hi
    <2>2. \A y \in B : y \in hi .. hi => y = hi
      BY <2>1, <1>3
    <2> QED BY <2>1, <2>2
  <1>8. reach \subseteq Nat /\ reach # {}
    BY <1>3, <1>7, Zenon
  <1>9. \E x \in reach : \A y \in reach : x <= y
    <2> HIDE DEF reach
    <2> QED BY <1>8, Zenon DEF WellOrdered
  <1>10. lo \in reach
    BY <1>9, Zenon
  <1>11. lo \in B /\ hi \in B /\ lo <= hi /\ (lo \in lo .. hi => <<lo, hi>> \in Pred)
    BY <1>10, <1>6, Zenon
  <1> HIDE DEF lo, hi, reach, tops
  <1>12. lo # 0 /\ lo \in Nat /\ hi \in Nat
    BY <1>1, <1>2, <1>3, <1>11
  <1>13. <<lo, hi>> \in Pred
    BY <1>11, <1>12
  <1> QED BY <1>1, <1>2, <1>11, <1>12, <1>13

----------------------------------------------------------------------------
(***************************************************************************)
(* What a statement says of the local state it is made from.               *)
(***************************************************************************)
SameBallots(s, t) ==
    /\ s.phase = t.phase
    /\ s.b = t.b /\ s.p = t.p /\ s.pp = t.pp /\ s.h = t.h /\ s.c = t.c

LEMMA SameBallotsReflect ==
    ASSUME NEW n, NEW s, NEW t, SameBallots(s, t)
    PROVE  /\ createStatement(n, s) = createStatement(n, t)
           /\ checkInvariants(s) <=> checkInvariants(t)
           /\ Empty(s) <=> Empty(t)
           /\ \A st : Reflects(n, s, st) <=> Reflects(n, t, st)
  <1>1. createStatement(n, s) = createStatement(n, t)
    BY DEF SameBallots, createStatement
  <1>2. checkInvariants(s) <=> checkInvariants(t)
    BY DEF SameBallots, checkInvariants
  <1>3. Empty(s) <=> Empty(t)
    BY DEF SameBallots, Empty
  <1> QED BY <1>1, <1>2, <1>3 DEF Reflects
----------------------------------------------------------------------------
(***************************************************************************)
(* setStateFromEnvelope restores the state the statement was made from, as *)
(* far as statements tell.                                                 *)
(***************************************************************************)
LEMMA RestoreReflects ==
    ASSUME NEW n \in Node, NEW st \in SCPStatement, st.node = n,
           \/ st = NoStatement(n)
           \/ WellFormed(st) /\ isStatementSane(st, FALSE)
    PROVE  /\ Reflects(n, setStateFromEnvelope(st), st)
           /\ ~setStateFromEnvelope(st).failed
           /\ setStateFromEnvelope(st).fullyValidated
  <1> DEFINE v == st.b.value
             at(k) == IF k = 0 THEN NoBallot ELSE Ballot(k, v)
             s == setStateFromEnvelope(st)
  <1>1. CASE st = NoStatement(n)
    <2>1. s = InitLocal
      BY <1>1, NoStatementTyped DEF setStateFromEnvelope
    <2> QED BY <1>1, <2>1 DEF Reflects, Empty, InitLocal
  <1>2. CASE WellFormed(st) /\ isStatementSane(st, FALSE)
    <2>1. /\ st.b \in SCPBallot /\ st.p \in SCPBallot /\ st.pp \in SCPBallot
          /\ st.nP \in Nat /\ st.nC \in Nat /\ st.nH \in Nat /\ st.b.counter \in Nat
          /\ st.nH <= UINT32_MAX /\ UINT32_MAX \in Nat \ {0} /\ v \in Nat
      BY StatementTypes, BallotTypes, NumberTypes, Zenon
    <2>2. \A k \in Nat : /\ at(k).counter = k
                         /\ Present(at(k)) <=> k # 0
                         /\ k # 0 => at(k).value = v
      BY DEF NoBallot, Ballot, Present
    <2>3. st = [node |-> st.node, type |-> st.type, b |-> st.b, p |-> st.p, pp |-> st.pp,
                nP |-> st.nP, nC |-> st.nC, nH |-> st.nH]
      BY DEF SCPStatement
    <2>4. CASE st.type = "PREPARE"
      <3> DEFINE t == [InitLocal EXCEPT !.b = st.b, !.p = st.p, !.pp = st.pp,
                                        !.h = at(st.nH), !.c = at(st.nC)]
      <3>1. s = t
        BY <2>4 DEF setStateFromEnvelope
      <3> HIDE DEF at
      <3>2. /\ t.phase = "PREPARE" /\ t.b = st.b /\ t.p = st.p /\ t.pp = st.pp
            /\ t.h = at(st.nH) /\ t.c = at(st.nC) /\ ~t.failed /\ t.fullyValidated
        BY Zenon DEF InitLocal
      <3> HIDE DEF t, v
      <3>3. isPrepareSane(st, TRUE) /\ st.nP = 0 /\ st.nH <= st.b.counter
        BY <1>2, <2>4, Zenon DEF WellFormed, isStatementSane
      <3>4. createStatement(n, t) = st
        BY <2>1, <2>2, <2>3, <2>4, <3>2, <3>3 DEF createStatement, Prepare
      <3>5. checkInvariants(t)
        <4>1. Present(t.h) => areBallotsLessAndCompatible(t.h, t.b)
          BY <2>1, <2>2, <3>2, <3>3 DEF areBallotsLessAndCompatible,
             areBallotsCompatible, LessOrEqual, v
        <4>2. Present(t.c) => areBallotsLessAndCompatible(t.c, t.h) /\ Present(t.h)
          BY <2>1, <2>2, <3>2, <3>3 DEF isPrepareSane, areBallotsLessAndCompatible,
             areBallotsCompatible, LessOrEqual
        <4>3. Present(t.p) /\ Present(t.pp) => areBallotsLessAndIncompatible(t.pp, t.p)
          BY <3>2, <3>3, Zenon DEF isPrepareSane
        <4> QED BY <3>2, <4>1, <4>2, <4>3, ZenonT(30) DEF checkInvariants
      <3> QED BY <3>1, <3>2, <3>4, <3>5, Zenon DEF Reflects
    <2>5. CASE st.type = "CONFIRM"
      <3> DEFINE t == [InitLocal EXCEPT !.b = st.b, !.p = at(st.nP), !.h = at(st.nH),
                                        !.c = at(st.nC), !.phase = "CONFIRM"]
      <3>1. s = t
        BY <2>5 DEF setStateFromEnvelope
      <3> HIDE DEF at
      <3>2. /\ t.phase = "CONFIRM" /\ t.b = st.b /\ t.p = at(st.nP) /\ t.pp = NoBallot
            /\ t.h = at(st.nH) /\ t.c = at(st.nC) /\ ~t.failed /\ t.fullyValidated
        BY Zenon DEF InitLocal
      <3> HIDE DEF t, v
      <3>3. /\ isConfirmSane(st) /\ st.p = NoBallot /\ st.pp = NoBallot
            /\ st.nP # 0 /\ st.nC # 0
        BY <1>2, <2>5 DEF WellFormed, isStatementSane
      <3>4. createStatement(n, t) = st
        BY <2>1, <2>2, <2>3, <2>5, <3>2, <3>3 DEF createStatement, Confirm
      <3>5. checkInvariants(t)
        <4>1. Present(t.h) => areBallotsLessAndCompatible(t.h, t.b)
          BY <2>1, <2>2, <3>2, <3>3 DEF isConfirmSane, areBallotsLessAndCompatible,
             areBallotsCompatible, LessOrEqual, v
        <4>2. Present(t.c) => areBallotsLessAndCompatible(t.c, t.h) /\ Present(t.h)
          BY <2>1, <2>2, <3>2, <3>3 DEF isConfirmSane, areBallotsLessAndCompatible,
             areBallotsCompatible, LessOrEqual
        <4>3. Present(t.c) /\ Present(t.p) /\ ~Present(t.pp)
          BY <2>1, <2>2, <3>2, <3>3 DEF NoBallot, Ballot, Present
        <4> QED BY <3>2, <4>1, <4>2, <4>3, ZenonT(30) DEF checkInvariants
      <3> QED BY <3>1, <3>2, <3>4, <3>5, Zenon DEF Reflects
    <2>6. CASE st.type = "EXTERNALIZE"
      <3> DEFINE t == [InitLocal EXCEPT !.b = at(UINT32_MAX), !.p = at(UINT32_MAX),
                                        !.h = at(st.nH), !.c = st.b,
                                        !.phase = "EXTERNALIZE"]
      <3>1. s = t
        BY <2>6 DEF setStateFromEnvelope
      <3> HIDE DEF at
      <3>2. /\ t.phase = "EXTERNALIZE" /\ t.b = at(UINT32_MAX)
            /\ t.p = at(UINT32_MAX) /\ t.pp = NoBallot
            /\ t.h = at(st.nH) /\ t.c = st.b /\ ~t.failed /\ t.fullyValidated
        BY Zenon DEF InitLocal
      <3> HIDE DEF t, v
      <3>3. /\ isExternalizeSane(st) /\ st.p = NoBallot /\ st.pp = NoBallot
            /\ st.nP = 0 /\ st.nC = 0
        BY <1>2, <2>6, Zenon DEF WellFormed, isStatementSane
      <3>4. createStatement(n, t) = st
        BY <2>1, <2>2, <2>3, <2>6, <3>2, <3>3 DEF createStatement, Externalize
      <3>5. checkInvariants(t)
        <4>1. Present(t.h) /\ areBallotsLessAndCompatible(t.h, t.b)
          BY <2>1, <2>2, <3>2, <3>3 DEF isExternalizeSane, areBallotsLessAndCompatible,
             areBallotsCompatible, LessOrEqual
        <4>2. Present(t.c) /\ areBallotsLessAndCompatible(t.c, t.h)
          BY <2>1, <2>2, <3>2, <3>3 DEF isExternalizeSane, areBallotsLessAndCompatible,
             areBallotsCompatible, LessOrEqual, v, Present
        <4>3. ~Present(t.pp)
          <5>1. ~Present(NoBallot)
            BY DEF NoBallot, Ballot, Present
          <5> QED BY <3>2, <5>1, Zenon
        <4> QED BY <3>2, <4>1, <4>2, <4>3, ZenonT(30) DEF checkInvariants
      <3> QED BY <3>1, <3>2, <3>4, <3>5, Zenon DEF Reflects
    <2> QED BY <1>2, <2>4, <2>5, <2>6, WellFormedValue, ZenonT(30) DEF StatementType
  <1> QED BY <1>1, <1>2, Zenon

=============================================================================
