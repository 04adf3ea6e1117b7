----------------------------- MODULE Statements -----------------------------
(***************************************************************************)
(* Statements of the ballot protocol and the questions the protocol asks   *)
(* of them (src/scp/BallotProtocol.cpp).                                   *)
(*                                                                         *)
(* The three pledges share one record shape:                               *)
(*                                                                         *)
(*   PREPARE      b, p, pp (p'), nC, nH                                    *)
(*   CONFIRM      b, nP (nPrepared), nC (nCommit), nH                      *)
(*   EXTERNALIZE  b (the commit ballot), nH                                *)
(*                                                                         *)
(* Fields a pledge does not have are 0.  NoStatement(n) marks a node with  *)
(* no entry in mLatestEnvelopes.  A statement names the quorum set of its  *)
(* sender by hash; the sender's quorum set is a constant of the model.     *)
(***************************************************************************)
EXTENDS Ballots, FiniteSets

CONSTANT Node

StatementType == {"PREPARE", "CONFIRM", "EXTERNALIZE"}

SCPStatement ==
    [node : Node, type : StatementType \cup {"NONE"},
     b : SCPBallot, p : SCPBallot, pp : SCPBallot,
     nP : Counter, nC : Counter, nH : Counter]

Prepare(n, b, p, pp, nC, nH) ==
    [node |-> n, type |-> "PREPARE", b |-> b, p |-> p, pp |-> pp,
     nP |-> 0, nC |-> nC, nH |-> nH]

Confirm(n, b, nP, nC, nH) ==
    [node |-> n, type |-> "CONFIRM", b |-> b, p |-> NoBallot, pp |-> NoBallot,
     nP |-> nP, nC |-> nC, nH |-> nH]

Externalize(n, commit, nH) ==
    [node |-> n, type |-> "EXTERNALIZE", b |-> commit,
     p |-> NoBallot, pp |-> NoBallot, nP |-> 0, nC |-> 0, nH |-> nH]

NoStatement(n) ==
    [node |-> n, type |-> "NONE", b |-> NoBallot, p |-> NoBallot,
     pp |-> NoBallot, nP |-> 0, nC |-> 0, nH |-> 0]

----------------------------------------------------------------------------
(***************************************************************************)
(* isNewerStatement: the total order on the statements of one node.        *)
(***************************************************************************)
TypeRank(st) ==
    CASE st.type = "NONE"        -> 0
      [] st.type = "PREPARE"     -> 1
      [] st.type = "CONFIRM"     -> 2
      [] st.type = "EXTERNALIZE" -> 3

isNewerPrepare(old, st) ==
    \/ Less(old.b, st.b)
    \/ old.b = st.b /\ Less(old.p, st.p)
    \/ old.b = st.b /\ old.p = st.p /\ Less(old.pp, st.pp)
    \/ old.b = st.b /\ old.p = st.p /\ old.pp = st.pp /\ old.nH < st.nH

isNewerConfirm(old, st) ==
    \/ Less(old.b, st.b)
    \/ old.b = st.b /\ old.nP < st.nP
    \/ old.b = st.b /\ old.nP = st.nP /\ old.nH < st.nH

isNewerStatement(old, st) ==
    \/ TypeRank(old) < TypeRank(st)
    \/ old.type = "PREPARE" /\ st.type = "PREPARE" /\ isNewerPrepare(old, st)
    \/ old.type = "CONFIRM" /\ st.type = "CONFIRM" /\ isNewerConfirm(old, st)

(***************************************************************************)
(* isStatementSane; the node's own PREPARE may have no ballot.             *)
(***************************************************************************)
isPrepareSane(st, self) ==
    /\ self \/ st.b.counter > 0
    /\ Present(st.p) /\ Present(st.pp)
           => areBallotsLessAndIncompatible(st.pp, st.p)
    /\ st.nH = 0 \/ (Present(st.p) /\ st.nH <= st.p.counter)
    /\ st.nC = 0 \/ (st.nH # 0 /\ st.b.counter >= st.nH /\ st.nH >= st.nC)

isConfirmSane(st) ==
    st.b.counter > 0 /\ st.nH <= st.b.counter /\ st.nC <= st.nH

isExternalizeSane(st) == st.b.counter > 0 /\ st.nH >= st.b.counter

isStatementSane(st, self) ==
    \/ st.type = "PREPARE" /\ isPrepareSane(st, self)
    \/ st.type = "CONFIRM" /\ isConfirmSane(st)
    \/ st.type = "EXTERNALIZE" /\ isExternalizeSane(st)

----------------------------------------------------------------------------
(***************************************************************************)
(* What a statement says about a ballot: the votes and acceptances that    *)
(* federatedAccept and federatedRatify count.                              *)
(***************************************************************************)
VotesPrepared(x, st) ==
    \/ st.type = "PREPARE" /\ areBallotsLessAndCompatible(x, st.b)
    \/ st.type \in {"CONFIRM", "EXTERNALIZE"} /\ areBallotsCompatible(x, st.b)

hasPreparedBallot(x, st) ==
    \/ /\ st.type = "PREPARE"
       /\ \/ Present(st.p) /\ areBallotsLessAndCompatible(x, st.p)
          \/ Present(st.pp) /\ areBallotsLessAndCompatible(x, st.pp)
    \/ /\ st.type = "CONFIRM"
       /\ areBallotsLessAndCompatible(x, Ballot(st.nP, st.b.value))
    \/ st.type = "EXTERNALIZE" /\ areBallotsCompatible(x, st.b)

(***************************************************************************)
(* Votes to commit, and acceptances of the commit of, value v at every     *)
(* counter of lo..hi.  A CONFIRM or EXTERNALIZE votes for every counter    *)
(* from its commit counter up; an EXTERNALIZE also accepts all of them.    *)
(***************************************************************************)
VotesCommit(v, lo, hi, st) ==
    /\ st.b.value = v
    /\ \/ st.type = "PREPARE" /\ st.nC # 0 /\ st.nC <= lo /\ hi <= st.nH
       \/ st.type = "CONFIRM" /\ st.nC <= lo
       \/ st.type = "EXTERNALIZE" /\ st.b.counter <= lo

commitPredicate(v, lo, hi, st) ==
    /\ st.b.value = v
    /\ \/ st.type = "CONFIRM" /\ st.nC <= lo /\ hi <= st.nH
       \/ st.type = "EXTERNALIZE" /\ st.b.counter <= lo

(***************************************************************************)
(* getCommitBoundariesFromStatements for one statement.                    *)
(***************************************************************************)
CommitBoundaries(v, st) ==
    IF st.b.value # v THEN {}
    ELSE CASE st.type = "PREPARE" /\ st.nC # 0 -> {st.nC, st.nH}
           [] st.type = "CONFIRM"              -> {st.nC, st.nH}
           [] st.type = "EXTERNALIZE"          ->
                  {st.b.counter, st.nH, UINT32_MAX}
           [] OTHER                            -> {}

(***************************************************************************)
(* The two sides of getPrepareCandidates: the top votes of the hint, and   *)
(* the ballots of a statement that may be prepared below a top vote t.     *)
(***************************************************************************)
HintBallots(hint) ==
    CASE hint.type = "PREPARE" ->
             {hint.b} \cup {x \in {hint.p, hint.pp} : Present(x)}
      [] hint.type = "CONFIRM" ->
             {Ballot(hint.nP, hint.b.value), Ballot(UINT32_MAX, hint.b.value)}
      [] hint.type = "EXTERNALIZE" ->
             {Ballot(UINT32_MAX, hint.b.value)}

CandidatesBelow(t, st) ==
    CASE st.type = "PREPARE" ->
             {x \in {st.b} \cup {y \in {st.p, st.pp} : Present(y)} :
                  areBallotsLessAndCompatible(x, t)}
      [] st.type = "CONFIRM" /\ areBallotsCompatible(t, st.b) ->
             {t} \cup {x \in {Ballot(st.nP, t.value)} : x.counter < t.counter}
      [] st.type = "EXTERNALIZE" /\ areBallotsCompatible(t, st.b) -> {t}
      [] OTHER -> {}

(***************************************************************************)
(* statementBallotCounter and getWorkingBallot(st).value.                  *)
(***************************************************************************)
statementBallotCounter(st) ==
    CASE st.type \in {"PREPARE", "CONFIRM"} -> st.b.counter
      [] st.type = "EXTERNALIZE"            -> UINT32_MAX
      [] OTHER                              -> 0

WorkingValue(st) == st.b.value

(***************************************************************************)
(* The values validateValues looks at: p' is not among them.               *)
(***************************************************************************)
StatementValues(st) ==
    {x.value : x \in {y \in {st.b, st.p} : Present(y)}}
=============================================================================
