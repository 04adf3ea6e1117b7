----------------------------- MODULE Nomination -----------------------------
(***************************************************************************)
(* The SCP nomination protocol of one slot (src/scp/NominationProtocol.cpp)*)
(* on a set of nodes.  Nodes vote for values proposed by the leaders of    *)
(* their rounds, accept values, and collect as candidates the values that  *)
(* a quorum accepted.  The combination of its candidates is what a node    *)
(* hands to the ballot protocol.                                           *)
(*                                                                         *)
(* A statement of the node itself is processed inside emitNomination, and  *)
(* may make the node emit again.  `pending' is what the active calls have  *)
(* yet to do, innermost first: "process" the node's own statement,         *)
(* "record" and send it when emitNomination goes on, and "bump" the ballot *)
(* with the candidates a call of processEnvelope found.  One action does   *)
(* one of these.  New candidates of the innermost call thus reach the      *)
(* ballot protocol, which persists and sends, before the nomination that   *)
(* backs them is recorded and sent; those of an outer call do so after.    *)
(***************************************************************************)
EXTENDS Naturals, SequencesExt

CONSTANTS
    Node,
    Value,
    Blocking,       \* <<n, S>>: the nodes S are v-blocking for n
    Quorums,        \* <<n, S>>: n finds a quorum among the nodes S
    Leaders,        \* <<n, r, m>>: m is a new leader for n in round r
    NodeOrder,      \* the nodes, in the order of their identifiers
    Proposals,      \* Proposals[n]: values n may propose for the slot
    Validation,     \* Validation[n][v]: what validateValue returns at n for v
    Extracted,      \* Extracted[n][v]: extractValidValue, NoValue if nothing
    Combined,       \* Combined[S]: combineCandidates
    HashValue,      \* HashValue[r][v]: hash of v in round r
    Reordering,     \* may a statement arrive after a newer one was sent?
    MaxRounds       \* bound: rounds of a node between two restarts

NoValue == 0

VARIABLES
    nomination,         \* per node: round, votes, accepted, candidates, ...
    nominations,        \* mLatestNominations
    lastNomination,     \* mLastEnvelope
    emittedNomination,  \* the last of them that was emitted and persisted
    pending,            \* what the running handler has yet to do
    composite,          \* mLatestCompositeCandidate
    fullyValidated,     \* Slot's mFullyValidated
    sentNominations     \* the statements broadcast that may still arrive

nominationVars ==
    <<nomination, nominations, lastNomination, emittedNomination, pending,
      composite, sentNominations>>

(***************************************************************************)
(* SCPNomination; NoNomination(n) marks a node nothing was heard from.     *)
(***************************************************************************)
SCPNomination == [node : Node, votes : SUBSET Value, accepted : SUBSET Value]

Nominate(n, X, Y) == [node |-> n, votes |-> X, accepted |-> Y]

NoNomination(n) == Nominate(n, {}, {})

isNewerStatement(old, st) ==
    /\ old.votes \subseteq st.votes
    /\ old.accepted \subseteq st.accepted
    /\ old # st

isSane(st) == st.votes \cup st.accepted # {}

(***************************************************************************)
(* timer is the value nominate is called with again when the timer fires,  *)
(* NoValue when the timer is not set; synced is LedgerManager's isSynced,  *)
(* and failed says that emitNomination threw.                              *)
(***************************************************************************)
InitLocal ==
    [round |-> 0, votes |-> {}, accepted |-> {}, candidates |-> {},
     leaders |-> {}, started |-> FALSE, timer |-> NoValue, synced |-> TRUE,
     failed |-> FALSE]

----------------------------------------------------------------------------
updateRoundLeaders(n, r) == {m \in Node : <<n, r, m>> \in Leaders}

(***************************************************************************)
(* The value n may vote for on account of v, and the one with the highest  *)
(* hash that a leader's statement offers beyond the votes X.               *)
(***************************************************************************)
ValidVariation(n, v) ==
    IF Validation[n][v] = "kFullyValidatedValue" THEN v ELSE Extracted[n][v]

getNewValueFromNomination(n, r, X, st) ==
    LET offered == {ValidVariation(n, v) : v \in st.votes \cup st.accepted}
                       \ (X \cup {NoValue})
    IN  IF offered = {} THEN NoValue
        ELSE CHOOSE v \in offered :
                 \A w \in offered : HashValue[r][w] <= HashValue[r][v]

With(X, v) == X \cup ({v} \ {NoValue})

----------------------------------------------------------------------------
Heard(n, st) == [nominations[n] EXCEPT ![st.node] = st]

federatedAccept(n, v, heard) ==
    \/ <<n, {m \in Node : v \in heard[m].accepted}>> \in Blocking
    \/ <<n, {m \in Node : v \in heard[m].accepted \cup heard[m].votes}>> \in Quorums

\* Mutated: votes count as acceptance.
federatedRatify_Votes(n, v, heard) ==
    <<n, {m \in Node : v \in heard[m].accepted \cup heard[m].votes}>> \in Quorums

federatedRatify(n, v, heard) ==
    <<n, {m \in Node : v \in heard[m].accepted}>> \in Quorums

(***************************************************************************)
(* emitNomination, for the local state s and what is to be done after it:  *)
(* the statement of the node is processed, then recorded.  It must be      *)
(* newer than the one the node knows of itself.                            *)
(***************************************************************************)
emitNomination(n, s, heard, after) ==
    LET st == Nominate(n, s.votes, s.accepted)
    IN  IF isNewerStatement(heard[n], st) /\ isSane(st) THEN
            /\ nomination' = [nomination EXCEPT ![n] = s]
            /\ pending' = [pending EXCEPT ![n] = <<"process", "record">> \o after]
        ELSE
            /\ nomination' = [nomination EXCEPT ![n] = [s EXCEPT !.failed = TRUE]]
            /\ pending' = [pending EXCEPT ![n] = <<>>]

(***************************************************************************)
(* The local state of n after it took in st: values the nodes voted for or *)
(* accepted are promoted, and while there is no candidate a leader's value *)
(* is taken over.                                                          *)
(***************************************************************************)
Promoted(n, st, heard) ==
    LET s == nomination[n]
        accepting == {v \in st.votes \ s.accepted : federatedAccept(n, v, heard)}
        valid == {v \in accepting : Validation[n][v] = "kFullyValidatedValue"}
        variations == {Extracted[n][v] : v \in accepting \ valid} \ {NoValue}
        Y == s.accepted \cup valid
        Z == s.candidates \cup {v \in Y : federatedRatify(n, v, heard)}
        X == s.votes \cup valid \cup variations
        taken == IF Z = {} /\ st.node \in s.leaders
                 THEN getNewValueFromNomination(n, s.round, X, st) ELSE NoValue
    IN  [s EXCEPT !.votes = With(X, taken), !.accepted = Y, !.candidates = Z]

(***************************************************************************)
(* The statement st is recorded and the values in it promoted; then, if    *)
(* its own votes changed, the node emits, and if it has new candidates it  *)
(* bumps the ballot.                                                       *)
(***************************************************************************)
Process(n, st, after) ==
    LET s == nomination[n]
    IN  \E heard \in {Heard(n, st)} :
        \E t \in {IF s.started THEN Promoted(n, st, heard) ELSE s} :
            LET bump == IF t.candidates # s.candidates THEN <<"bump">> ELSE <<>>
            IN  /\ nominations' = [nominations EXCEPT ![n] = heard]
                /\ IF t.votes # s.votes \/ t.accepted # s.accepted
                   THEN emitNomination(n, t, heard, bump \o after)
                   ELSE /\ nomination' = [nomination EXCEPT ![n] = t]
                        /\ pending' = [pending EXCEPT ![n] = bump \o after]
                /\ UNCHANGED <<lastNomination, emittedNomination, composite,
                               sentNominations>>

----------------------------------------------------------------------------
(***************************************************************************)
(* Handlers.                                                               *)
(***************************************************************************)
Idle == \A m \in Node : pending[m] = <<>>

Ready(n) == Idle /\ ~nomination[n].failed

Doing(n, call) == pending[n] # <<>> /\ Head(pending[n]) = call

(***************************************************************************)
(* processEnvelope for a statement of another node, and for the one the    *)
(* node emitted itself.                                                    *)
(***************************************************************************)
processEnvelope(n, st) ==
    /\ Ready(n)
    /\ st.node # n
    /\ isNewerStatement(nominations[n][st.node], st)
    /\ isSane(st)
    /\ Process(n, st, <<>>)

processOwnEnvelope(n) ==
    /\ Doing(n, "process")
    /\ Process(n, Nominate(n, nomination[n].votes, nomination[n].accepted), Tail(pending[n]))

(***************************************************************************)
(* What may arrive after st was broadcast: without reordering, no earlier  *)
(* statement of its node.                                                  *)
(***************************************************************************)
Broadcast(st) ==
    {st} \cup {x \in sentNominations : Reordering \/ x.node # st.node}

(***************************************************************************)
(* emitNomination goes on after the node has processed its statement: it   *)
(* becomes mLastEnvelope, and is persisted and sent, unless a call inside  *)
(* recorded a newer one.                                                   *)
(***************************************************************************)
recordOwnNomination(n) ==
    LET st == nominations[n][n]
        newer == isNewerStatement(lastNomination[n], st)
        emit == newer /\ fullyValidated[n]
    IN  /\ Doing(n, "record")
        /\ pending' = [pending EXCEPT ![n] = Tail(@)]
        /\ lastNomination' = [lastNomination EXCEPT ![n] = IF newer THEN st ELSE @]
        /\ emittedNomination' = [emittedNomination EXCEPT ![n] = IF emit THEN st ELSE @]
        /\ sentNominations' =
               IF emit THEN Broadcast(st) ELSE sentNominations
        /\ UNCHANGED <<nomination, nominations, composite>>

(***************************************************************************)
(* New candidates make a new composite, which goes to the ballot protocol. *)
(***************************************************************************)
combineCandidates(n) ==
    /\ Doing(n, "bump")
    /\ pending' = [pending EXCEPT ![n] = Tail(@)]
    /\ composite' = [composite EXCEPT ![n] = Combined[nomination[n].candidates]]
    /\ UNCHANGED <<nomination, nominations, lastNomination, emittedNomination,
                   sentNominations>>

(***************************************************************************)
(* The next round of nominate with value v: a leader adds its own value,   *)
(* and every node one value of each leader it heard from.                  *)
(***************************************************************************)
AfterRound(n, v) ==
    LET s == nomination[n]
        r == s.round + 1
        leaders == s.leaders \cup updateRoundLeaders(n, r)
        own == IF n \in leaders THEN s.votes \cup {v} ELSE s.votes
        Take(X, m) == With(X, getNewValueFromNomination(n, r, X, nominations[n][m]))
    IN  [s EXCEPT !.started = TRUE, !.round = r, !.leaders = leaders, !.timer = v,
                  !.votes = FoldLeft(Take, own,
                                     SelectSeq(NodeOrder, LAMBDA m : m \in leaders))]

NextRound(n, v) ==
    /\ nomination[n].round < MaxRounds
    /\ \E t \in {AfterRound(n, v)} :
           IF t.votes # nomination[n].votes
           THEN emitNomination(n, t, nominations[n], <<>>)
           ELSE /\ nomination' = [nomination EXCEPT ![n] = t]
                /\ UNCHANGED pending
    /\ UNCHANGED <<nominations, lastNomination, emittedNomination, composite,
                   sentNominations>>

(***************************************************************************)
(* The herder starts nomination once per slot, with the value it proposes, *)
(* and only when the node is in sync.  The value holds the current time as *)
(* close time: after a restart it is a later one than those the node voted *)
(* for before.                                                             *)
(***************************************************************************)
MayPropose(n, v) ==
    /\ nomination[n].synced
    /\ nomination[n].round = 0
    /\ v \in Proposals[n] \ nomination[n].votes
    /\ \A w \in Proposals[n] \ nomination[n].votes : v <= w

nominate(n, v) ==
    /\ Ready(n)
    /\ MayPropose(n, v)
    /\ NextRound(n, v)

(***************************************************************************)
(* The nomination timer fires.  It is not set again once nomination has    *)
(* stopped.                                                                *)
(***************************************************************************)
nominationTimerExpired(n) ==
    /\ Ready(n)
    /\ nomination[n].timer # NoValue
    /\ IF nomination[n].started THEN NextRound(n, nomination[n].timer)
       ELSE /\ nomination' = [nomination EXCEPT ![n].timer = NoValue]
            /\ UNCHANGED <<nominations, lastNomination, emittedNomination,
                           pending, composite, sentNominations>>

(***************************************************************************)
(* The ballot protocol confirmed a commit.                                 *)
(***************************************************************************)
stopNomination(n) == nomination' = [nomination EXCEPT ![n].started = FALSE]

\* Mutated: accepted values are not restored.
setStateFromEnvelope_VotesOnly(st) == [InitLocal EXCEPT !.votes = st.votes]

setStateFromEnvelope(st) ==
    [InitLocal EXCEPT !.votes = st.votes, !.accepted = st.accepted]

(***************************************************************************)
(* The node stops, be it in the middle of a handler, and starts again from *)
(* the statement it persisted last, in sync or not.                        *)
(***************************************************************************)
Restart(n, inSync) ==
    LET st == emittedNomination[n]
    IN  /\ \A m \in Node \ {n} : pending[m] = <<>>
        /\ ~nomination[n].failed
        /\ nomination' = [nomination EXCEPT ![n] =
               [setStateFromEnvelope(st) EXCEPT !.synced = inSync]]
        /\ nominations' = [nominations EXCEPT ![n] =
               [m \in Node |-> IF m = n THEN st ELSE NoNomination(m)]]
        /\ lastNomination' = [lastNomination EXCEPT ![n] = st]
        /\ pending' = [pending EXCEPT ![n] = <<>>]
        /\ composite' = [composite EXCEPT ![n] = NoValue]
        /\ UNCHANGED <<emittedNomination, sentNominations>>

----------------------------------------------------------------------------
Init ==
    /\ nomination = [n \in Node |-> InitLocal]
    /\ nominations = [n \in Node |-> [m \in Node |-> NoNomination(m)]]
    /\ lastNomination = [n \in Node |-> NoNomination(n)]
    /\ emittedNomination = [n \in Node |-> NoNomination(n)]
    /\ pending = [n \in Node |-> <<>>]
    /\ composite = [n \in Node |-> NoValue]
    /\ sentNominations = {}

Step(n) ==
    \/ processOwnEnvelope(n)
    \/ recordOwnNomination(n)
    \/ combineCandidates(n)
    \/ \E st \in sentNominations : processEnvelope(n, st)
    \/ \E v \in Value : nominate(n, v)
    \/ nominationTimerExpired(n)

----------------------------------------------------------------------------
(***************************************************************************)
(* The value v was agreed on: a quorum of some node k accepts it, all of   *)
(* it but k having persisted its acceptance.  k itself accepts v, unless   *)
(* `forgotten' says that it may have lost that in a crash.                 *)
(***************************************************************************)
Nominated(v, forgotten) ==
    \E k \in Node :
        /\ <<k, {k} \cup {m \in Node : v \in emittedNomination[m].accepted}>> \in Quorums
        /\ v \in nomination[k].accepted \/ forgotten
=============================================================================
