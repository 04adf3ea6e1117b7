------------------------- MODULE NestedTransactions -------------------------
(***************************************************************************)
(* What LedgerTxn promises its clients: every open transaction has a whole *)
(* copy of the ledger of its own.  A transaction starts from its parent's  *)
(* copy, only the innermost one changes, committing hands the copy to the  *)
(* parent and rolling back, or a crash, drops it.  A ledger is a record    *)
(* [entries, header].                                                      *)
(***************************************************************************)
EXTENDS Naturals, Sequences

VARIABLES committed, views

\* The innermost ledger when c is committed and v are the open ones.
Inner(c, v) == IF v = <<>> THEN c ELSE v[Len(v)]

\* One entry, or the header, of a ledger.
OneChange(l, m) ==
  \/ l.entries = m.entries
  \/ /\ l.header = m.header
     /\ \E k \in DOMAIN l.entries : m.entries = [l.entries EXCEPT ![k] = m.entries[k]]

\* What a step may make of the committed ledger c and the open ledgers v.
Begin(c, v, d, w) == d = c /\ w = Append(v, Inner(c, v))

Write(c, v, d, w) ==
  /\ v # <<>> /\ Len(w) = Len(v)
  /\ SubSeq(w, 1, Len(w) - 1) = SubSeq(v, 1, Len(v) - 1)
  /\ OneChange(v[Len(v)], w[Len(w)])
  /\ d = c

CommitToParent(c, v, d, w) ==
  /\ Len(v) > 1
  /\ w = Append(SubSeq(v, 1, Len(v) - 2), Inner(c, v))
  /\ d = c

Commit(c, v, d, w) == Len(v) = 1 /\ d = Inner(c, v) /\ w = <<>>

\* A rollback of any transaction ends its children too; a crash ends all.
Rollback(c, v, d, w) ==
  /\ Len(w) < Len(v) /\ w = SubSeq(v, 1, Len(w))
  /\ d = c

\* Without open transactions the tables may be emptied.
Wipe(c, v, d, w) ==
  /\ v = <<>> /\ w = <<>>
  /\ d.header = c.header /\ DOMAIN d.entries = DOMAIN c.entries

Next ==
  \E c \in {committed}, v \in {views}, d \in {committed'}, w \in {views'} :
    \/ Begin(c, v, d, w) \/ Write(c, v, d, w)
    \/ CommitToParent(c, v, d, w) \/ Commit(c, v, d, w)
    \/ Rollback(c, v, d, w) \/ Wipe(c, v, d, w)

Spec == [][Next]_<<committed, views>>
=============================================================================
