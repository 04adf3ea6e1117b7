---------------------------- MODULE Transactions ----------------------------
(***************************************************************************)
(* Validating and applying one transaction:                                *)
(* transactions/TransactionFrame.cpp and OperationFrame.cpp.               *)
(*                                                                         *)
(* A transaction is [contents, sourceAccount, fee, seqNum, operations,     *)
(* signatures], optionally with minTime and maxTime; "contents" stands for *)
(* the hash of everything but the signatures.                              *)
(***************************************************************************)
EXTENDS Invariants
-----------------------------------------------------------------------------
(* Who signed a transaction: transactions/SignatureChecker.cpp.              *)
(*                                                                           *)
(* A signer key is [type, id] with type ED25519 (id an account), HASH_X or   *)
(* PRE_AUTH_TX (id the contents of a transaction).  A signature is the key   *)
(* it verifies against, and verifies against no other.  The checker "c" is   *)
(* the state of one SignatureChecker: it lives as long as one validation or  *)
(* application of a transaction, and remembers across the calls which        *)
(* signatures and which one-time signers were used.                          *)

Key(type, id) == [type |-> type, id |-> id]

SignatureChecker(protocolVersion, contents, signatures) ==
    [protocolVersion |-> protocolVersion, contents |-> contents, signatures |-> signatures,
     usedSignatures |-> {}, usedOneTimeSignerKeys |-> {}]

\* Weights above UINT8_MAX were once allowed.
Weight(c, w) == IF c.protocolVersion > 9 THEN Least(w, UINT8_MAX) ELSE w

\* verifyAll: the signatures in their order, until the weight suffices.
\* "t" is [ok, weight, signers, c]; a signer counts once.
verifyAll(t0, type, neededWeight) ==
    LET Verify(t, i) ==
            LET key    == t.c.signatures[i]
                weight == t.weight + Weight(t.c, t.signers[key])
            IN IF t.ok \/ key.type # type \/ key \notin DOMAIN t.signers THEN t
               ELSE [ok      |-> weight >= neededWeight,
                     weight  |-> weight,
                     signers |-> [k \in DOMAIN t.signers \ {key} |-> t.signers[k]],
                     c       |-> [t.c EXCEPT !.usedSignatures = @ \cup {i}]]
    IN FoldLeft(Verify, t0, [i \in DOMAIN t0.c.signatures |-> i])

\* The weights of those of the account's signers who signed reach the needed
\* weight; even a weight of 0 needs one signature.
checkSignature(c, a, signers, neededWeight) ==
    LET preAuth == Key("PRE_AUTH_TX", c.contents)
        weight  == Weight(c, signers[preAuth])
        start   == IF preAuth \in DOMAIN signers
                   THEN [ok |-> weight >= neededWeight, weight |-> weight, signers |-> signers,
                         c |-> [c EXCEPT !.usedOneTimeSignerKeys = @ \cup {<<a, preAuth>>}]]
                   ELSE [ok |-> FALSE, weight |-> 0, signers |-> signers, c |-> c]
        t       == verifyAll(verifyAll(start, "HASH_X", neededWeight), "ED25519", neededWeight)
    IN [ok |-> t.ok, c |-> t.c]

checkAllSignaturesUsed(c) == c.usedSignatures = DOMAIN c.signatures
-----------------------------------------------------------------------------
(* TransactionFrame *)

getMinFee(l, tx) == l.header.baseFee * Max({1, Len(tx.operations)})

getSourceID(tx, op) == IF Has(op, "sourceAccount") THEN op.sourceAccount ELSE tx.sourceAccount

CheckerOf(l, tx) == SignatureChecker(l.header.ledgerVersion, tx.contents, tx.signatures)

\* The master key signs with the master weight, unless that is 0.
checkAccountSignature(c, l, a, neededWeight) ==
    LET acc     == l.account[a]
        master  == Key("ED25519", a)
        signers == IF acc.thresholds.master = 0 THEN acc.signers
                   ELSE [k \in DOMAIN acc.signers \cup {master} |->
                            IF k = master THEN acc.thresholds.master ELSE acc.signers[k]]
    IN checkSignature(c, a, signers, neededWeight)

checkSignatureNoAccount(c, a) == checkSignature(c, a, [k \in {Key("ED25519", a)} |-> 1], 0)
-----------------------------------------------------------------------------
(* OperationFrame *)

\* An account that the transaction will create first may already sign.
checkOperationSignature(c, l, tx, op, forApply) ==
    LET a == getSourceID(tx, op)
    IN IF a \in DOMAIN l.account
       THEN checkAccountSignature(c, l, a, getNeededThreshold(l, a, getThresholdLevel(op)))
       ELSE IF forApply \/ ~Has(op, "sourceAccount") THEN [ok |-> FALSE, c |-> c]
       ELSE checkSignatureNoAccount(c, a)

checkOperationValid(c, l, tx, op, forApply) ==
    LET signed == checkOperationSignature(c, l, tx, op, forApply)
        a      == getSourceID(tx, op)
        valid  == doCheckValid(l, a, op)
    IN IF ~isVersionSupported(l, op) THEN [ok |-> FALSE, c |-> c]
       ELSE IF ~forApply \/ ~Version10(l) THEN [ok |-> signed.ok /\ valid, c |-> signed.c]
       ELSE [ok |-> a \in DOMAIN l.account /\ valid, c |-> c]
-----------------------------------------------------------------------------
(* commonValid: how far the validation of a transaction got. *)

kInvalid             == 0
kInvalidUpdateSeqNum == 1
kInvalidPostAuth     == 2
kFullyValid          == 3

commonValidPreSeqNum(l, tx) ==
    /\ tx.operations # <<>>
    /\ Has(tx, "minTime") => tx.minTime =< l.header.closeTime
    /\ Has(tx, "maxTime") => tx.maxTime = 0 \/ tx.maxTime >= l.header.closeTime
    /\ tx.fee >= getMinFee(l, tx)
    /\ tx.sourceAccount \in DOMAIN l.account

\* current is the sequence number before this transaction, 0 for the
\* account's own.  Before version 10 an applied transaction already has its
\* number.
commonValid(c, l, tx, current, applying) ==
    LET a      == tx.sourceAccount
        last   == IF current = 0 THEN l.account[a].seqNum ELSE current
        signed == checkAccountSignature(c, l, a, l.account[a].thresholds.low)
    IN IF ~commonValidPreSeqNum(l, tx) THEN [res |-> kInvalid, c |-> c]
       ELSE IF (Version10(l) \/ ~applying) /\ (last = INT64_MAX \/ last + 1 # tx.seqNum)
       THEN [res |-> kInvalid, c |-> c]
       ELSE IF ~signed.ok THEN [res |-> kInvalidUpdateSeqNum, c |-> signed.c]
       ELSE IF getAvailableBalance(l, a, NATIVE) < (IF applying THEN 0 ELSE tx.fee)
       THEN [res |-> kInvalidPostAuth, c |-> signed.c]
       ELSE [res |-> kFullyValid, c |-> signed.c]

checkTransactionValid(l, tx, current) ==
    LET cv == commonValid(CheckerOf(l, tx), l, tx, current, FALSE)
        Check(acc, op) ==
            IF acc.ok THEN checkOperationValid(acc.c, l, tx, op, FALSE) ELSE acc
        ops == FoldLeft(Check, [ok |-> TRUE, c |-> cv.c], tx.operations)
    IN cv.res = kFullyValid /\ ops.ok /\ checkAllSignaturesUsed(ops.c)
-----------------------------------------------------------------------------
(* Applying.  All fees of a ledger are taken before its first transaction is *)
(* applied; a fee may take an account below its reserve.                     *)

\* Mutant: the pool gets the fee bid, the account pays the minimum fee.
processFeeSeqNum_PaysMinimum(l, tx) ==
    LET a   == tx.sourceAccount
        l1  == [l EXCEPT !.account[a].balance = @ - getMinFee(l, tx), !.header.feePool = @ + tx.fee]
    IN IF Version10(l) THEN Applied(l1) ELSE Applied([l1 EXCEPT !.account[a].seqNum = tx.seqNum])

processFeeSeqNum(l, tx) ==
    LET a   == tx.sourceAccount
        fee == Least(l.account[a].balance, tx.fee)
        l1  == [l EXCEPT !.account[a].balance = @ - fee, !.header.feePool = @ + fee]
    IN IF a \notin DOMAIN l.account THEN Threw(l)
       ELSE IF Version10(l) THEN Applied(l1)
       ELSE IF l.account[a].seqNum + 1 # tx.seqNum THEN Threw(l)
       ELSE Applied([l1 EXCEPT !.account[a].seqNum = tx.seqNum])

processSeqNum(l, tx) ==
    IF ~Version10(l) THEN Applied(l)
    ELSE IF l.account[tx.sourceAccount].seqNum > tx.seqNum THEN Threw(l)
    ELSE Applied([l EXCEPT !.account[tx.sourceAccount].seqNum = tx.seqNum])

removeAccountSigner(l, a, key) ==
    IF a \notin DOMAIN l.account \/ key \notin DOMAIN l.account[a].signers THEN l
    ELSE [addNumEntries(l, a, -1).l EXCEPT
             !.account[a].signers = [k \in DOMAIN @ \ {key} |-> @[k]]]

\* All used keys of one account are the one key of the transaction's contents.
removeUsedOneTimeSignerKeys(c, l) ==
    FoldSet(LAMBDA used, m : removeAccountSigner(m, used[1], used[2]), l,
            c.usedOneTimeSignerKeys)

\* From version 10 on: every signature is checked before any operation is
\* applied, and the one-time signers go whatever becomes of the transaction.
processSignatures(c, l, tx) ==
    LET Check(acc, op) ==
            LET signed == checkOperationSignature(acc.c, l, tx, op, FALSE)
            IN [ok |-> acc.ok /\ signed.ok, c |-> signed.c]
        ops == FoldLeft(Check, [ok |-> TRUE, c |-> c], tx.operations)
    IN IF ~Version10(l) THEN [ok |-> TRUE, c |-> c, l |-> l]
       ELSE [ok |-> ops.ok /\ checkAllSignaturesUsed(ops.c),
             c  |-> ops.c, l |-> removeUsedOneTimeSignerKeys(ops.c, l)]

\* One operation after another, each seeing what the ones before it did, the
\* failed ones included.  The invariants are checked until the first failure.
\* "code" is the first exception or "".
applyOperation(acc, tx, op) ==
    LET valid == checkOperationValid(acc.c, acc.l, tx, op, TRUE)
        res   == doApply(acc.l, getSourceID(tx, op), op)
    IN IF acc.code # "" THEN acc
       ELSE IF ~valid.ok THEN [acc EXCEPT !.ok = FALSE, !.c = valid.c]
       ELSE IF res.code \in {"THROWN", "UNEXPECTED_CODE"}
       THEN [acc EXCEPT !.ok = FALSE, !.c = valid.c, !.code = res.code]
       ELSE [ok     |-> acc.ok /\ res.ok, c |-> valid.c, l |-> res.l, code |-> "",
             broken |-> acc.broken \cup (IF acc.ok /\ res.ok
                                         THEN checkOnOperationApply(op, acc.l, res.l) ELSE {})]

\* The operations of a transaction are applied all or not at all.
applyOperations(c, l, tx) ==
    LET Step(acc, op) == applyOperation(acc, tx, op)
        done == FoldLeft(Step, [ok |-> TRUE, c |-> c, l |-> l, code |-> "", broken |-> {}],
                         tx.operations)
        ok   == done.ok /\ (Version10(l) \/ checkAllSignaturesUsed(done.c))
    IN [ok |-> ok, code |-> done.code, broken |-> done.broken,
        l  |-> IF ~ok THEN l
               ELSE IF Version10(l) THEN done.l ELSE removeUsedOneTimeSignerKeys(done.c, done.l)]

\* TransactionFrame::apply.  The sequence number and the one-time signers are
\* settled even when the operations are not applied.
applyTransaction(l, tx) ==
    LET cv       == commonValid(CheckerOf(l, tx), l, tx, 0, TRUE)
        numbered == IF cv.res >= kInvalidUpdateSeqNum THEN processSeqNum(l, tx) ELSE Applied(l)
        signed   == IF cv.res >= kInvalidPostAuth THEN processSignatures(cv.c, numbered.l, tx)
                    ELSE [ok |-> FALSE, c |-> cv.c, l |-> numbered.l]
        Done(after) == [ok |-> FALSE, code |-> "", broken |-> {}, l |-> after]
    IN IF ~numbered.ok THEN [Done(l) EXCEPT !.code = "THROWN"]
       ELSE IF signed.ok /\ cv.res = kFullyValid THEN applyOperations(signed.c, signed.l, tx)
       ELSE Done(signed.l)
=============================================================================
