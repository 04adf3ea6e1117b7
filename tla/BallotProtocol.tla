--------------------------- MODULE BallotProtocol ---------------------------
(***************************************************************************)
(* The SCP ballot protocol of one slot, run by a set of nodes that         *)
(* exchange statements (src/scp/BallotProtocol.cpp, src/scp/Slot.cpp).     *)
(*                                                                         *)
(* Every node follows the code.  The network may lose, delay, reorder and  *)
(* duplicate statements: what was sent stays in `sent' and may be received *)
(* at any time, or never.  A node may stop and restart from the statement  *)
(* it persisted last.                                                      *)
(*                                                                         *)
(* advanceSlot calls the attempt* methods in order; each may emit a        *)
(* statement, which the node processes itself, calling advanceSlot again   *)
(* inside the first call.  `calls' holds that call stack, one frame per    *)
(* active advanceSlot, and one action is one attempt* that changes the     *)
(* node's state together with the statement it emits.  Attempts that find  *)
(* nothing to do are passed over in the same step.  A handler touches only *)
(* its node's state, so nodes take turns handler by handler.               *)
(***************************************************************************)
EXTENDS Statements, QuorumSets, Sequences

CONSTANTS
    QSet,           \* QSet[n]: the quorum set node n is configured with
    Validation,     \* Validation[n][v]: what validateValue returns at n for v
    Composites,     \* Composites[n]: composite candidates n may nominate
    Supersedes,     \* pairs <<v, w>>: composite v may be replaced by w
    Reordering,     \* may a statement arrive after a newer one was sent?
    MaxTimeouts,    \* bound: timers that fire, in the whole system
    MaxRestarts,    \* bound: restarts, in the whole system
    MAX_ADVANCE_SLOT_RECURSION

ValidationLevel ==
    {"kInvalidValue", "kMaybeValidValue", "kFullyValidatedValue"}

ASSUME ValidationAssumption ==
    Validation \in [Node -> [Value -> ValidationLevel]]

ASSUME CompositesAssumption == Composites \in [Node -> SUBSET Value]

ASSUME BoundsAssumption ==
    /\ Reordering \in BOOLEAN
    /\ MaxTimeouts \in Nat
    /\ MaxRestarts \in Nat
    /\ MAX_ADVANCE_SLOT_RECURSION \in Nat \ {0}

VARIABLES
    local,      \* per node: phase, b, p, p', h, c, z and flags
    latest,     \* mLatestEnvelopes: last statement seen from each node
    last,       \* mLastEnvelope
    emitted,    \* mLastEnvelopeEmit, which emitEnvelope also persists
    calls,      \* active advanceSlot calls, outermost first
    candidate,  \* mLatestCompositeCandidate of the nomination protocol
    sent,       \* every statement broadcast so far
    timeouts,   \* number of timers fired so far
    restarts    \* number of restarts so far

vars == <<local, latest, last, emitted, calls, candidate, sent,
          timeouts, restarts>>

----------------------------------------------------------------------------
(***************************************************************************)
(* Local state.  A node on which an assertion failed or an exception left  *)
(* the protocol has failed set and takes no further step.                  *)
(***************************************************************************)
LocalState ==
    [phase : StatementType,
     b : SCPBallot, p : SCPBallot, pp : SCPBallot,
     h : SCPBallot, c : SCPBallot, z : Value \cup {NoValue},
     heard : BOOLEAN, timer : BOOLEAN, fullyValidated : BOOLEAN,
     failed : BOOLEAN]

InitLocal ==
    [phase |-> "PREPARE", b |-> NoBallot, p |-> NoBallot, pp |-> NoBallot,
     h |-> NoBallot, c |-> NoBallot, z |-> NoValue,
     heard |-> FALSE, timer |-> FALSE, fullyValidated |-> TRUE,
     failed |-> FALSE]

(***************************************************************************)
(* checkInvariants, and the pointers createStatement dereferences.         *)
(***************************************************************************)
checkInvariants(s) ==
    /\ Present(s.p) /\ Present(s.pp)
           => areBallotsLessAndIncompatible(s.pp, s.p)
    /\ Present(s.h) => areBallotsLessAndCompatible(s.h, s.b)
    /\ Present(s.c) => /\ areBallotsLessAndCompatible(s.c, s.h)
                       /\ areBallotsLessAndCompatible(s.h, s.b)
    /\ s.phase = "CONFIRM" => Present(s.c) /\ Present(s.p)
    /\ s.phase = "EXTERNALIZE" => Present(s.c) /\ Present(s.h)

createStatement(n, s) ==
    CASE s.phase = "PREPARE" ->
             Prepare(n, s.b, s.p, s.pp, s.c.counter, s.h.counter)
      [] s.phase = "CONFIRM" ->
             Confirm(n, s.b, s.p.counter, s.c.counter, s.h.counter)
      [] s.phase = "EXTERNALIZE" -> Externalize(n, s.c, s.h.counter)

----------------------------------------------------------------------------
(***************************************************************************)
(* Updates of the local state.                                             *)
(***************************************************************************)
bumpToBallot(s, x, check) ==
    [s EXCEPT
        !.b      = x,
        !.h      = IF areBallotsCompatible(x, s.h) THEN s.h ELSE NoBallot,
        !.heard  = s.heard /\ s.b.counter = x.counter,
        !.failed = \/ s.failed
                   \/ s.phase = "EXTERNALIZE"
                   \/ check /\ Less(x, s.b)]

updateCurrentIfNeeded(s, x) ==
    IF Less(s.b, x) THEN bumpToBallot(s, x, TRUE) ELSE s

updateCurrentValue(s, x) ==
    IF Less(x, s.b) THEN [s EXCEPT !.failed = TRUE]
    ELSE IF x = s.b \/ (Present(s.c) /\ ~areBallotsCompatible(s.c, x)) THEN s
    ELSE bumpToBallot(s, x, TRUE)

\* Mutated: mValueOverride is not used.
bumpState_IgnoresOverride(s, v, n) ==
    IF s.phase = "EXTERNALIZE" THEN s ELSE updateCurrentValue(s, Ballot(n, v))

bumpState(s, v, n) ==
    IF s.phase = "EXTERNALIZE" THEN s
    ELSE updateCurrentValue(s, Ballot(n, IF s.z # NoValue THEN s.z ELSE v))

(***************************************************************************)
(* abandonBallot(n); n = 0 asks for the next counter, a uint32.            *)
(***************************************************************************)
abandonBallot(s, composite, n) ==
    LET v == IF composite # NoValue THEN composite ELSE s.b.value
        k == IF n # 0 THEN n ELSE (s.b.counter + 1) % (UINT32_MAX + 1)
    IN  IF v = NoValue THEN s ELSE bumpState(s, v, k)

\* Mutated: p' becomes the old p whatever its value.
setPrepared_AnyPrime(s, x) == [s EXCEPT !.p = x, !.pp = s.p]

setPrepared(s, x) ==
    IF ~Present(s.p) THEN [s EXCEPT !.p = x]
    ELSE IF Less(s.p, x) THEN
        [s EXCEPT !.p  = x,
                  !.pp = IF areBallotsCompatible(s.p, x) THEN s.pp ELSE s.p]
    ELSE IF /\ Less(x, s.p)
            /\ \/ ~Present(s.pp)
               \/ Less(s.pp, x) /\ ~areBallotsCompatible(s.p, x)
    THEN [s EXCEPT !.pp = x]
    ELSE s

setPreparedAccept(s, x) ==
    LET t == setPrepared(s, x)
        clearC == /\ Present(t.c) /\ Present(t.h)
                  /\ \E y \in {t.p, t.pp} :
                         Present(y) /\ areBallotsLessAndIncompatible(t.h, y)
    IN  [t EXCEPT !.c      = IF clearC THEN NoBallot ELSE t.c,
                  !.failed = t.failed \/ (clearC /\ t.phase # "PREPARE")]

setPreparedConfirmed(s, newC, newH) ==
    LET onH  == ~Present(s.b) \/ areBallotsCompatible(s.b, newH)
        setC == onH /\ Present(newC)
        t == [s EXCEPT
                 !.z = newH.value,
                 !.h = IF onH /\ Less(s.h, newH) THEN newH ELSE s.h,
                 !.c = IF setC THEN newC ELSE s.c,
                 !.failed = s.failed \/ (setC /\ Present(s.c))]
    IN  updateCurrentIfNeeded(t, newH)

setAcceptCommit(s, newC, newH) ==
    LET t == [s EXCEPT !.z = newH.value, !.c = newC, !.h = newH,
                       !.phase = "CONFIRM",
                       !.pp = IF s.phase = "PREPARE" THEN NoBallot ELSE s.pp]
        u == IF /\ s.phase = "PREPARE"
                /\ Present(s.b) /\ ~areBallotsLessAndCompatible(newH, s.b)
             THEN bumpToBallot(t, newH, FALSE) ELSE t
    IN  updateCurrentIfNeeded(u, newH)

setConfirmCommit(s, newC, newH) ==
    [updateCurrentIfNeeded([s EXCEPT !.c = newC, !.h = newH], newH)
        EXCEPT !.phase = "EXTERNALIZE"]

----------------------------------------------------------------------------
(***************************************************************************)
(* Federated voting over the statements node n knows.  A node that has     *)
(* externalized stands for itself: its statement carries the quorum set of *)
(* which it is the only member.  Blocking[n] holds the sets of nodes that  *)
(* are v-blocking for n and Quorums[E][n] the sets of nodes in which n     *)
(* finds a quorum when those in E have externalized.                       *)
(***************************************************************************)
QSetIfExternalized(E) ==
    [m \in Node |-> IF m \in E THEN getSingletonQSet(m) ELSE QSet[m]]

Blocking ==
    {x : x \in {y \in Node \X SUBSET Node : isVBlocking(QSet[y[1]], y[2])}}

\* Mutated: what remains of the nodes need not hold a slice of the node's own.
Quorums_AnyRemainder ==
    {y \in (SUBSET Node) \X Node \X SUBSET Node :
        \E U \in SUBSET y[3] : SelfSufficient(U, QSetIfExternalized(y[1]))}

Quorums ==
    {x : x \in {y \in (SUBSET Node) \X Node \X SUBSET Node :
        isQuorum(QSet[y[2]], y[3], QSetIfExternalized(y[1]))}}

Saying(n, Pred(_)) ==
    {m \in Node : latest[n][m].type # "NONE" /\ Pred(latest[n][m])}

SeenExternalized(n) == {m \in Node : latest[n][m].type = "EXTERNALIZE"}

federatedRatify(n, Voted(_)) ==
    <<SeenExternalized(n), n, Saying(n, Voted)>> \in Quorums

federatedAccept(n, Voted(_), Accepted(_)) ==
    \/ <<n, Saying(n, Accepted)>> \in Blocking
    \/ <<SeenExternalized(n), n, Saying(n, LAMBDA st : Accepted(st) \/ Voted(st))>>
           \in Quorums

(***************************************************************************)
(* validateValues: the values are visited in increasing order and each     *)
(* value that is not fully valid overwrites the result so far.             *)
(***************************************************************************)
validateValues(n, st) ==
    LET doubtful == {v \in StatementValues(st) :
                        Validation[n][v] # "kFullyValidatedValue"}
    IN  IF doubtful = {} THEN "kFullyValidatedValue"
        ELSE Validation[n][CHOOSE v \in doubtful : \A w \in doubtful : w <= v]

quorumAtCounter(n, k) ==
    federatedRatify(n, LAMBDA st : st.type = "PREPARE" => k <= st.b.counter)

\* Mutated: the timer is started in PREPARE only.
checkHeardFromQuorum_NoTimer(n, s) ==
    IF Present(s.b) /\ quorumAtCounter(n, s.b.counter)
    THEN [s EXCEPT !.heard = TRUE,
                   !.timer = s.phase = "PREPARE" /\ (~s.heard \/ s.timer)]
    ELSE [s EXCEPT !.heard = FALSE, !.timer = FALSE]

checkHeardFromQuorum(n, s) ==
    IF ~Present(s.b) THEN s
    ELSE IF quorumAtCounter(n, s.b.counter) THEN
        [s EXCEPT !.heard = TRUE,
                  !.timer = s.phase # "EXTERNALIZE" /\ (~s.heard \/ s.timer)]
    ELSE [s EXCEPT !.heard = FALSE, !.timer = FALSE]

----------------------------------------------------------------------------
(***************************************************************************)
(* The attempt* methods: the local state of n after the attempt, equal to  *)
(* local[n] when the attempt returns false without changing anything.      *)
(***************************************************************************)
getPrepareCandidates(n, hint) ==
    UNION {CandidatesBelow(t, latest[n][m]) : t \in HintBallots(hint), m \in Node}

acceptsPrepared(n, x) ==
    federatedAccept(n, LAMBDA st : VotesPrepared(x, st),
                       LAMBDA st : hasPreparedBallot(x, st))

ratifiesPrepared(n, x) ==
    federatedRatify(n, LAMBDA st : hasPreparedBallot(x, st))

attemptPreparedAccept(n, hint) ==
    LET s == local[n]
        considered ==
            {x \in getPrepareCandidates(n, hint) :
                s.phase = "CONFIRM" => areBallotsLessAndCompatible(s.p, x)}
        accepted ==
            {x \in considered :
                /\ ~(Present(s.pp) /\ LessOrEqual(x, s.pp))
                /\ ~(Present(s.p) /\ areBallotsLessAndCompatible(x, s.p))
                /\ acceptsPrepared(n, x)}
    IN  IF s.phase = "EXTERNALIZE" THEN s
        ELSE IF /\ s.phase = "CONFIRM"
                /\ \E x \in considered : ~areBallotsCompatible(s.c, x)
        THEN [s EXCEPT !.failed = TRUE]
        ELSE IF accepted = {} THEN s
        ELSE setPreparedAccept(s, Highest(accepted))

attemptPreparedConfirmed(n, hint) ==
    LET s == local[n]
        candidates == getPrepareCandidates(n, hint)
        raising == {x \in candidates : /\ ~(Present(s.h) /\ LessOrEqual(x, s.h))
                                       /\ ratifiesPrepared(n, x)}
        newH == Highest(raising)
        mayCommit == /\ ~Present(s.c)
                     /\ \A y \in {s.p, s.pp} :
                            Present(y) => ~areBallotsLessAndIncompatible(newH, y)
        below == {x \in candidates : /\ areBallotsLessAndCompatible(x, newH)
                                     /\ ~Less(x, s.b)}
        unbroken == {x \in below :
                        \A y \in below :
                            LessOrEqual(x, y) => ratifiesPrepared(n, y)}
        newC == IF mayCommit /\ unbroken # {} THEN Lowest(unbroken) ELSE NoBallot
    IN  IF s.phase # "PREPARE" \/ ~Present(s.p) \/ raising = {} THEN s
        ELSE setPreparedConfirmed(s, newC, newH)

(***************************************************************************)
(* findExtendedInterval: the highest boundary that is in Pred alone,       *)
(* extended downwards over the boundaries for as long as Pred holds.  Pred *)
(* is the set of intervals the code's predicate accepts.                   *)
(***************************************************************************)
findExtendedInterval(boundaries, Pred) ==
    LET tops == {x \in boundaries : <<x, x>> \in Pred}
        hi == CHOOSE x \in tops : \A y \in tops : y <= x
        reach == {x \in boundaries :
                     x <= hi /\ \A y \in boundaries :
                                    y \in x .. hi => <<y, hi>> \in Pred}
    IN  IF tops = {} THEN <<0, 0>>
        ELSE <<CHOOSE x \in reach : \A y \in reach : x <= y, hi>>

getCommitBoundaries(n, v) ==
    UNION {CommitBoundaries(v, latest[n][m]) : m \in Node}

acceptsCommit(n, v, i) ==
    federatedAccept(n, LAMBDA st : VotesCommit(v, i[1], i[2], st),
                       LAMBDA st : commitPredicate(v, i[1], i[2], st))

ratifiesCommit(n, v, i) ==
    federatedRatify(n, LAMBDA st : commitPredicate(v, i[1], i[2], st))

attemptAcceptCommit(n, hint) ==
    LET s == local[n]
        v == hint.b.value
        B == getCommitBoundaries(n, v)
        i == findExtendedInterval(B, {j \in B \X B : acceptsCommit(n, v, j)})
    IN  IF \/ s.phase = "EXTERNALIZE"
           \/ hint.type = "PREPARE" /\ hint.nC = 0
           \/ s.phase = "CONFIRM" /\ s.h.value # v
           \/ i[1] = 0
           \/ s.phase = "CONFIRM" /\ i[2] <= s.h.counter
        THEN s ELSE setAcceptCommit(s, Ballot(i[1], v), Ballot(i[2], v))

attemptConfirmCommit(n, hint) ==
    LET s == local[n]
        v == hint.b.value
        B == getCommitBoundaries(n, v)
        i == findExtendedInterval(B, {j \in B \X B : ratifiesCommit(n, v, j)})
    IN  IF \/ s.phase # "CONFIRM"
           \/ ~Present(s.h) \/ ~Present(s.c)
           \/ hint.type = "PREPARE"
           \/ s.c.value # v
           \/ i[1] = 0
        THEN s ELSE setConfirmCommit(s, Ballot(i[1], v), Ballot(i[2], v))

hasVBlockingSubsetStrictlyAheadOf(n, k) ==
    <<n, Saying(n, LAMBDA st : statementBallotCounter(st) > k)>> \in Blocking

attemptBump(n) ==
    LET s == local[n]
        targets == {k \in {statementBallotCounter(latest[n][m]) : m \in Node} :
                       /\ k > s.b.counter
                       /\ ~hasVBlockingSubsetStrictlyAheadOf(n, k)}
    IN  IF \/ s.phase = "EXTERNALIZE"
           \/ ~hasVBlockingSubsetStrictlyAheadOf(n, s.b.counter)
        THEN s
        ELSE abandonBallot(s, candidate[n],
                           CHOOSE k \in targets : \A j \in targets : k <= j)

----------------------------------------------------------------------------
\* Mutated: a statement without a ballot becomes the last one too.
nextLast_AnyStatement(n, st) ==
    IF isNewerStatement(last[n], st) THEN st ELSE last[n]

(***************************************************************************)
(* emitCurrentStateStatement for node n in state s, with stack the calls   *)
(* that remain below the new one: the statement is processed by the node   *)
(* itself, unless it is the one already recorded.  purpose is "bump" for a *)
(* statement emitted by bumpState, "emit" for the set* methods.            *)
(***************************************************************************)
nextLast(n, st) ==
    IF Present(st.b) /\ isNewerStatement(last[n], st) THEN st ELSE last[n]

Fail(n, s) ==
    /\ local' = [local EXCEPT ![n] = [s EXCEPT !.failed = TRUE]]
    /\ calls' = [calls EXCEPT ![n] = <<>>]
    /\ UNCHANGED <<latest, last>>

selfValid(n, s, st, depth) ==
    /\ isStatementSane(st, TRUE)
    /\ isNewerStatement(latest[n][n], st)
    /\ validateValues(n, st) # "kInvalidValue"
    /\ s.phase # "EXTERNALIZE" => depth < MAX_ADVANCE_SLOT_RECURSION

validated(n, s, st) ==
    [s EXCEPT !.fullyValidated =
        s.fullyValidated /\ validateValues(n, st) = "kFullyValidatedValue"]

emitCurrentStateStatement(n, s, stack, purpose) ==
    LET st == createStatement(n, s)
    IN  IF s.failed \/ ~checkInvariants(s) THEN Fail(n, s)
        ELSE IF st = latest[n][n] THEN
            /\ local' = [local EXCEPT ![n] = s]
            /\ calls' = [calls EXCEPT ![n] = stack]
            /\ UNCHANGED <<latest, last>>
        ELSE IF ~selfValid(n, s, st, Len(stack) + 1) THEN Fail(n, s)
        ELSE
            /\ latest' = [latest EXCEPT ![n][n] = st]
            /\ IF s.phase = "EXTERNALIZE" THEN
                   /\ local' = [local EXCEPT ![n] = s]
                   /\ calls' = [calls EXCEPT ![n] = stack]
                   /\ last' = [last EXCEPT ![n] = nextLast(n, st)]
               ELSE
                   /\ local' = [local EXCEPT ![n] = validated(n, s, st)]
                   /\ calls' = [calls EXCEPT ![n] =
                          Append(stack, [hint |-> st, next |-> 1,
                                         purpose |-> purpose])]
                   /\ last' = last

----------------------------------------------------------------------------
(***************************************************************************)
(* One attempt* of the innermost advanceSlot.  Attempts are numbered in    *)
(* the order of the code; frame.next is the first that has not run yet.    *)
(***************************************************************************)
Top(n) == calls[n][Len(calls[n])]

Outcome(n, k) ==
    CASE k = 1 -> attemptPreparedAccept(n, Top(n).hint)
      [] k = 2 -> attemptPreparedConfirmed(n, Top(n).hint)
      [] k = 3 -> attemptAcceptCommit(n, Top(n).hint)
      [] k = 4 -> attemptConfirmCommit(n, Top(n).hint)
      [] k = 5 -> IF Len(calls[n]) = 1 THEN attemptBump(n) ELSE local[n]

InAdvanceSlot(n) == calls[n] # <<>>

(***************************************************************************)
(* The first attempt still to run that does something, or 6: return.       *)
(***************************************************************************)
NextAttempt(n) ==
    LET due == {k \in 1 .. 6 : k = 6 \/ (/\ Top(n).next <= k
                                         /\ Outcome(n, k) # local[n])}
    IN  CHOOSE k \in due : \A j \in due : k <= j

(***************************************************************************)
(* didWork: more than z changed.                                           *)
(***************************************************************************)
didWork(n, s) == s # [local[n] EXCEPT !.z = s.z]

Attempt(n, k) ==
    /\ \E s \in {Outcome(n, k)} :
           LET stack == [calls[n] EXCEPT
                            ![Len(calls[n])].next = IF k = 5 THEN 5 ELSE k + 1]
           IN  IF didWork(n, s)
               THEN emitCurrentStateStatement(n, s, stack,
                                              IF k = 5 THEN "bump" ELSE "emit")
               ELSE /\ local' = [local EXCEPT ![n] = s]
                    /\ calls' = [calls EXCEPT ![n] = stack]
                    /\ UNCHANGED <<latest, last>>
    /\ UNCHANGED <<emitted, candidate, sent, timeouts, restarts>>

AcceptPrepared(n) == Attempt(n, 1)

ConfirmPrepared(n) == Attempt(n, 2)

AcceptCommit(n) == Attempt(n, 3)

ConfirmCommit(n) == Attempt(n, 4)

Bump(n) == Attempt(n, 5)

\* Mutated: sendLatestEnvelope is missing.
ReturnFromAdvanceSlot_Silent(n) ==
    /\ local' = [local EXCEPT ![n] = checkHeardFromQuorum(n, @)]
    /\ calls' = [calls EXCEPT ![n] = SubSeq(calls[n], 1, Len(calls[n]) - 1)]
    /\ last' = [last EXCEPT ![n] = nextLast(n, Top(n).hint)]
    /\ UNCHANGED <<latest, emitted, sent, candidate, timeouts, restarts>>

(***************************************************************************)
(* The innermost advanceSlot returns.  If a statement of the node itself   *)
(* started it, that statement becomes mLastEnvelope unless a newer one was *)
(* emitted meanwhile.  When the outermost one returns the node sends the   *)
(* last statement it emitted: an attempt that changes mLastEnvelope does   *)
(* work, so didWork holds whenever there is something to send.             *)
(***************************************************************************)
ReturnFromAdvanceSlot(n) ==
    /\ LET outer == SubSeq(calls[n], 1, Len(calls[n]) - 1)
           purpose == Top(n).purpose
           newLast == IF purpose = "receive" THEN last[n]
                      ELSE nextLast(n, Top(n).hint)
           send == /\ outer = <<>>
                   /\ local[n].fullyValidated
                   /\ newLast # emitted[n]
       IN  /\ local' = [local EXCEPT ![n] =
                           IF outer = <<>> \/ purpose = "bump"
                           THEN checkHeardFromQuorum(n, @) ELSE @]
           /\ calls' = [calls EXCEPT ![n] = outer]
           /\ last' = [last EXCEPT ![n] = newLast]
           /\ emitted' = [emitted EXCEPT ![n] = IF send THEN newLast ELSE @]
           /\ sent' = IF send THEN sent \cup {newLast} ELSE sent
    /\ UNCHANGED <<latest, candidate, timeouts, restarts>>

----------------------------------------------------------------------------
(***************************************************************************)
(* Handlers, which start when no other handler is running.                 *)
(***************************************************************************)
Ready(n) ==
    /\ \A m \in Node : calls[m] = <<>>
    /\ ~local[n].failed

(***************************************************************************)
(* processEnvelope for a statement of another node.  A statement that is   *)
(* not newer or not valid changes nothing.                                 *)
(***************************************************************************)
processEnvelope(n, st) ==
    /\ Ready(n)
    /\ st.node # n
    /\ Reordering \/ st = emitted[st.node]
    /\ isStatementSane(st, FALSE)
    /\ isNewerStatement(latest[n][st.node], st)
    /\ validateValues(n, st) # "kInvalidValue"
    /\ IF local[n].phase # "EXTERNALIZE" THEN
           /\ local' = [local EXCEPT ![n] = validated(n, @, st)]
           /\ calls' = [calls EXCEPT ![n] =
                  <<[hint |-> st, next |-> 1, purpose |-> "receive"]>>]
       ELSE
           /\ local[n].c.value = WorkingValue(st)
           /\ UNCHANGED <<local, calls>>
    /\ latest' = [latest EXCEPT ![n][st.node] = st]
    /\ UNCHANGED <<last, emitted, candidate, sent, timeouts, restarts>>

(***************************************************************************)
(* The nomination protocol has a new composite candidate v and calls       *)
(* bumpState(v, false), which starts the ballot protocol.  setConfirmCommit*)
(* stops nomination.                                                       *)
(***************************************************************************)
NewCandidate(n, v) ==
    /\ Ready(n)
    /\ local[n].phase # "EXTERNALIZE"
    /\ candidate[n] = NoValue \/ <<candidate[n], v>> \in Supersedes
    /\ candidate' = [candidate EXCEPT ![n] = v]
    /\ IF Present(local[n].b) THEN UNCHANGED <<local, latest, last, calls>>
       ELSE emitCurrentStateStatement(n, bumpState(local[n], v, 1), <<>>, "bump")
    /\ UNCHANGED <<emitted, sent, timeouts, restarts>>

(***************************************************************************)
(* The timer of the ballot protocol fires: abandonBallot(0).               *)
(***************************************************************************)
ballotProtocolTimerExpired(n) ==
    /\ Ready(n)
    /\ local[n].timer
    /\ timeouts < MaxTimeouts
    /\ timeouts' = timeouts + 1
    /\ LET s == [local[n] EXCEPT !.timer = FALSE]
           t == abandonBallot(s, candidate[n], 0)
       IN  IF t # s THEN emitCurrentStateStatement(n, t, <<>>, "bump")
           ELSE /\ local' = [local EXCEPT ![n] = s]
                /\ UNCHANGED <<latest, last, calls>>
    /\ UNCHANGED <<emitted, candidate, sent, restarts>>

\* Mutated: absent ballots are restored with counter 0.
setStateFromEnvelope_ZeroCounters(st) ==
    IF st.type = "NONE" THEN InitLocal
    ELSE [InitLocal EXCEPT !.b = st.b, !.p = st.p, !.pp = st.pp, !.phase = st.type,
                           !.h = Ballot(st.nH, st.b.value),
                           !.c = Ballot(st.nC, st.b.value)]

(***************************************************************************)
(* The local state a statement was made from, as far as it tells.          *)
(***************************************************************************)
setStateFromEnvelope(st) ==
    LET v == st.b.value
        at(k) == IF k = 0 THEN NoBallot ELSE Ballot(k, v)
    IN  CASE st.type = "PREPARE" ->
                [InitLocal EXCEPT !.b = st.b, !.p = st.p, !.pp = st.pp,
                                  !.h = at(st.nH), !.c = at(st.nC)]
          [] st.type = "CONFIRM" ->
                [InitLocal EXCEPT !.b = st.b, !.p = at(st.nP), !.h = at(st.nH),
                                  !.c = at(st.nC), !.phase = "CONFIRM"]
          [] st.type = "EXTERNALIZE" ->
                [InitLocal EXCEPT !.b = at(UINT32_MAX), !.p = at(UINT32_MAX),
                                  !.h = at(st.nH), !.c = st.b,
                                  !.phase = "EXTERNALIZE"]
          [] OTHER -> InitLocal

(***************************************************************************)
(* The node starts again in the local state s: of the statements it knew,  *)
(* it has the one it persisted last.                                       *)
(***************************************************************************)
RestartFrom(n, s) ==
    /\ Ready(n)
    /\ restarts < MaxRestarts
    /\ restarts' = restarts + 1
    /\ local' = [local EXCEPT ![n] = s]
    /\ latest' = [latest EXCEPT ![n] =
                     [m \in Node |-> IF m = n THEN emitted[n] ELSE NoStatement(m)]]
    /\ last' = [last EXCEPT ![n] = emitted[n]]
    /\ candidate' = [candidate EXCEPT ![n] = NoValue]
    /\ UNCHANGED <<emitted, calls, sent, timeouts>>

\* Mutated: the persisted statement is not restored.
Restart_Forgets(n) ==
    /\ Ready(n)
    /\ restarts < MaxRestarts
    /\ restarts' = restarts + 1
    /\ local' = [local EXCEPT ![n] = InitLocal]
    /\ latest' = [latest EXCEPT ![n] = [m \in Node |-> NoStatement(m)]]
    /\ last' = [last EXCEPT ![n] = NoStatement(n)]
    /\ emitted' = [emitted EXCEPT ![n] = NoStatement(n)]
    /\ candidate' = [candidate EXCEPT ![n] = NoValue]
    /\ UNCHANGED <<calls, sent, timeouts>>

(***************************************************************************)
(* The node stops and starts again with setStateFromEnvelope on the        *)
(* statement it persisted last.                                            *)
(***************************************************************************)
Restart(n) == RestartFrom(n, setStateFromEnvelope(emitted[n]))

----------------------------------------------------------------------------
Init ==
    /\ local = [n \in Node |-> InitLocal]
    /\ latest = [n \in Node |-> [m \in Node |-> NoStatement(m)]]
    /\ last = [n \in Node |-> NoStatement(n)]
    /\ emitted = [n \in Node |-> NoStatement(n)]
    /\ calls = [n \in Node |-> <<>>]
    /\ candidate = [n \in Node |-> NoValue]
    /\ sent = {}
    /\ timeouts = 0
    /\ restarts = 0

advanceSlot(n) ==
    /\ InAdvanceSlot(n)
    /\ \E k \in {NextAttempt(n)} :
           \/ k = 1 /\ AcceptPrepared(n)
           \/ k = 2 /\ ConfirmPrepared(n)
           \/ k = 3 /\ AcceptCommit(n)
           \/ k = 4 /\ ConfirmCommit(n)
           \/ k = 5 /\ Bump(n)
           \/ k = 6 /\ ReturnFromAdvanceSlot(n)

Next ==
    \E n \in Node :
        \/ advanceSlot(n)
        \/ \E st \in sent : processEnvelope(n, st)
        \/ \E v \in Composites[n] : NewCandidate(n, v)
        \/ ballotProtocolTimerExpired(n)
        \/ Restart(n)

Spec == Init /\ [][Next]_vars

----------------------------------------------------------------------------
Frame ==
    [hint : SCPStatement, next : 1 .. 5, purpose : {"receive", "emit", "bump"}]

(***************************************************************************)
(* Every variable holds what its declaration says; in particular a stored  *)
(* ballot has a counter above 0 and a proper value.                        *)
(***************************************************************************)
TypeOK ==
    /\ local \in [Node -> LocalState]
    /\ latest \in [Node -> [Node -> SCPStatement]]
    /\ last \in [Node -> SCPStatement]
    /\ emitted \in [Node -> SCPStatement]
    /\ calls \in [Node -> Seq(Frame)]
    /\ candidate \in [Node -> Value \cup {NoValue}]
    /\ sent \in SUBSET SCPStatement
    /\ timeouts \in 0 .. MaxTimeouts
    /\ restarts \in 0 .. MaxRestarts

(***************************************************************************)
(* Two nodes never externalize different values for the slot.              *)
(***************************************************************************)
Externalized(n) == local[n].phase = "EXTERNALIZE"

Agreement ==
    \A n, m \in Node :
        Externalized(n) /\ Externalized(m) => local[n].c.value = local[m].c.value

(***************************************************************************)
(* No assertion of the ballot protocol fails and emitCurrentStateStatement *)
(* never throws "moved to a bad state".                                    *)
(***************************************************************************)
NoFailure == \A n \in Node : ~local[n].failed

(***************************************************************************)
(* After a timeout a node uses "the value that we saw confirmed prepared   *)
(* or that we at least voted to commit to" (bumpState): a node that votes  *)
(* to commit c moves on to the next counter with the value of c.           *)
(***************************************************************************)
TimerFires(n) ==
    timeouts' # timeouts /\ local[n].timer /\ ~local'[n].timer

TimeoutKeepsCommitValue ==
    [][\A n \in Node :
           TimerFires(n) /\ Present(local[n].c) =>
               local'[n].b = Ballot(local[n].b.counter + 1, local[n].c.value)]_vars

(***************************************************************************)
(* A node between two handlers that has heard from a quorum at its counter *)
(* and has not externalized has its timer running: it cannot be stranded   *)
(* on a ballot the quorum does not commit.                                 *)
(***************************************************************************)
TimerRunning ==
    \A n \in Node :
        /\ calls[n] = <<>>
        /\ local[n].heard
        /\ local[n].phase # "EXTERNALIZE"
        /\ ~local[n].failed
        => local[n].timer

(***************************************************************************)
(* A node may process a PREPARE of its own without a ballot "as long as it *)
(* never gets emitted" (isStatementSane): what is sent passes the sanity   *)
(* check of the nodes that receive it.                                     *)
(***************************************************************************)
SentIsSane == \A st \in sent : isStatementSane(st, FALSE)

(***************************************************************************)
(* The inductive invariant of that: statements a node has recorded or is   *)
(* processing are as createStatement makes them, with nothing in the       *)
(* fields their pledge does not have, and the last statement of a node has *)
(* a ballot.                                                               *)
(***************************************************************************)
WellFormed(st) ==
    /\ isStatementSane(st, TRUE)
    /\ st.type = "PREPARE" => st.nP = 0 /\ st.nH <= st.b.counter
    /\ st.type # "PREPARE" => st.p = NoBallot /\ st.pp = NoBallot
    /\ st.type = "CONFIRM" => st.nP # 0 /\ st.nC # 0
    /\ st.type = "EXTERNALIZE" => st.nP = 0 /\ st.nC = 0

RecordedWellFormed ==
    /\ \A n, m \in Node :
           latest[n][m].type = "NONE" \/ WellFormed(latest[n][m])
    /\ \A n \in Node : \A i \in 1 .. Len(calls[n]) : WellFormed(calls[n][i].hint)

LastHasBallot ==
    /\ \A st \in sent : WellFormed(st)
    /\ \A n \in Node :
           \/ last[n] = NoStatement(n)
           \/ WellFormed(last[n]) /\ isStatementSane(last[n], FALSE)
    /\ \A n \in Node :
           \/ emitted[n] = NoStatement(n)
           \/ emitted[n] \in sent /\ last[n] # NoStatement(n)

IInv ==
    /\ TypeOK
    /\ SentIsSane
    /\ RecordedWellFormed
    /\ LastHasBallot

(***************************************************************************)
(* Every statement a node sends is newer than all it sent before, also     *)
(* when it restarted in between: a receiver drops one that is not.         *)
(***************************************************************************)
SentIsNewer ==
    [][\A st \in sent' \ sent : \A old \in sent :
           old.node = st.node => isNewerStatement(old, st)]_vars

(***************************************************************************)
(* When every node knows the last statement of every other and nomination  *)
(* has no more candidates, either all nodes have externalized or a timer   *)
(* is running that moves one of them on: the nodes never all wait for one  *)
(* another.                                                                *)
(***************************************************************************)
Quiescent ==
    /\ \A n \in Node : calls[n] = <<>>
    /\ \A n \in Node : Composites[n] # {} => candidate[n] # NoValue
    /\ \A n, m \in Node : n # m /\ ~Externalized(n) =>
           ~isNewerStatement(latest[n][m], emitted[m])

NeverStuck ==
    Quiescent => \/ \A n \in Node : Externalized(n)
                 \/ \E n \in Node : local[n].timer
=============================================================================
