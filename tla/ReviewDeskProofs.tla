-------------------------- MODULE ReviewDeskProofs --------------------------
(***************************************************************************)
(* Theorems about what reviewers decide and the record kept of it:         *)
(* AuditChain, ExceptionWorkflow, CorrectionRepository and PolicyManager.  *)
(*                                                                         *)
(* The audit chain, for any number of appenders, retries and events: it    *)
(* verifies in every state, what an append returned is stored, an append   *)
(* outside a transaction is only ever beaten by other rows, and the        *)
(* two-statement append implements the atomic one of AppendLog.  The rows  *)
(* are numbered 0..n-1 and linked; what an appender has read is the hash   *)
(* of the row before the number it will use, because rows never change;    *)
(* and a create that the unique key lets through uses the number n, so     *)
(* that it prolongs the chain by one link.                                 *)
(*                                                                         *)
(* The exception workflow, for any number of human and AI requesters and   *)
(* of appends of the engine: it uses the audit chain only through the      *)
(* chain's operations, so the chain's theorems hold in the composition;    *)
(* the audit log is a walk through the state machine; every resolution     *)
(* follows a re-verification; and the human actions of the chain are those *)
(* of the log, in the same order.                                          *)
(*                                                                         *)
(* Corrections, for any number of reviewers, amounts, versions and         *)
(* proposals: a proposal is approved at most once, and an approved         *)
(* correction balances the books it was proposed for.  Only the holder of  *)
(* the lock may count an approval, and as long as the stored record, or    *)
(* the copy the holder works on, is still undecided, some proposal has not *)
(* been approved.  What is stored was proved when it was proposed, and     *)
(* every copy is one of a stored record.                                   *)
(*                                                                         *)
(* Policies, for any people and version names: one version is in force,    *)
(* and its recorded approver is not its recorded author; of a rollback the *)
(* approver may be the literal CONTROLLER_OVERRIDE, so that one person is  *)
(* enough.  A version can only be activated with its parent superseded,    *)
(* because the parent of every version is or was in force.                 *)
(***************************************************************************)
EXTENDS ExceptionWorkflow, CorrectionRepository, PolicyManager, TLAPS,
        FiniteSetTheorems, SequenceTheorems

-----------------------------------------------------------------------------
(* The audit chain. *)

\* The hash a row with number s must link to.
HashBefore(rs, s) == IF s = 0 THEN GENESIS_HASH ELSE rs[s - 1].currentHash

Row == [previousHash : Seq(Payload), canonicalPayload : Payload, currentHash : Seq(Payload)]

\* Rows numbered from 0 without a gap, each a link to the one before.
Linked(rs, n) ==
  /\ n \in Nat /\ DOMAIN rs = 0..(n - 1) /\ rs = [s \in DOMAIN rs |-> rs[s]]
  /\ \A s \in DOMAIN rs :
       /\ rs[s] \in Row
       /\ rs[s] = ChainRow(rs[s].previousHash, rs[s].canonicalPayload)
       /\ rs[s].previousHash = HashBefore(rs, s)

AppendRecord ==
  [pc : AppendPC, attempt : 0..AppendRetries, payload : Payload, seq : Nat,
   previousHash : Seq(Payload)]

\* What an appender holds, on a chain of n rows.
HoldsRight(rs, a, n) ==
  /\ a.pc \in {"read", "pending"} => a.seq <= n /\ a.previousHash = HashBefore(rs, a.seq)
  /\ a.pc = "pending" => a.seq = n
  /\ a.pc = "done" => a.seq < n /\ rs[a.seq] = ChainRow(a.previousHash, a.payload)

\* The attempts of an appender outside a transaction, on a chain of n rows.
AttemptsRight(a, n) ==
  /\ a.pc # "pending"
  /\ a.pc = "start" => a.attempt <= n
  /\ a.pc = "read" => a.attempt <= a.seq
  /\ a.pc \in {"start", "read"} => a.attempt < AppendRetries
  /\ a.pc = "failed" => AppendRetries <= n

\* Everything there is to say of appender p holding a.
AppenderRight(rs, p, a, n) ==
  HoldsRight(rs, a, n) /\ (p \notin InTx => AttemptsRight(a, n))

ChainInvAt(n) ==
  /\ Linked(rows, n)
  /\ appends \in [Appender -> AppendRecord]
  /\ \A p \in Appender : AppenderRight(rows, p, appends[p], n)
  /\ \A p, q \in Appender : appends[p].pc = "pending" /\ appends[q].pc = "pending" => p = q

\* The inductive invariant.
ChainInv == \E n \in Nat : ChainInvAt(n)

-----------------------------------------------------------------------------

\* On a linked chain of n rows the next number is n and the head is the hash
\* before it.
LEMMA NextOfLinked ==
  ASSUME NEW rs, NEW n \in Nat, Linked(rs, n)
  PROVE  NextSeq(rs) = n /\ HeadHash(rs) = HashBefore(rs, n)
<1>1. CASE n = 0
  <2>1. DOMAIN rs = {}
    BY <1>1 DEF Linked
  <2> QED
    BY <1>1, <2>1 DEF NextSeq, HeadHash, HashBefore
<1>2. CASE n # 0
  <2>1. n - 1 \in DOMAIN rs /\ \A m \in DOMAIN rs : m <= n - 1
    BY <1>2 DEF Linked
  <2>2. \A k \in DOMAIN rs : (\A m \in DOMAIN rs : m <= k) => k = n - 1
    BY <2>1 DEF Linked
  <2>3. LastSeq(rs) = n - 1
    BY <2>1, <2>2 DEF LastSeq
  <2> QED
    BY <1>2, <2>1, <2>3 DEF NextSeq, HeadHash, HashBefore
<1> QED
  BY <1>1, <1>2

\* The hash before a number of a linked chain is a hash.
LEMMA HashBeforeType ==
  ASSUME NEW rs, NEW n \in Nat, Linked(rs, n), NEW s \in 0..n
  PROVE  HashBefore(rs, s) \in Seq(Payload)
<1>1. CASE s = 0
  BY <1>1 DEF HashBefore, GENESIS_HASH
<1>2. CASE s # 0
  <2>1. s - 1 \in DOMAIN rs
    BY <1>2 DEF Linked
  <2> QED
    BY <1>2, <2>1 DEF HashBefore, Linked, Row
<1> QED
  BY <1>1, <1>2

\* A linked chain of n rows with a row that links to its head is a linked chain
\* of n + 1 rows, and the hashes before the old numbers are the same.
LEMMA LinkedGrows ==
  ASSUME NEW rs, NEW n \in Nat, Linked(rs, n),
         NEW h \in Seq(Payload), NEW e \in Payload, h = HashBefore(rs, n)
  PROVE  LET rt == WithRow(rs, n, ChainRow(h, e)) IN
         /\ Linked(rt, n + 1)
         /\ rt[n] = ChainRow(h, e)
         /\ \A s \in 0..(n - 1) : rt[s] = rs[s]
         /\ \A s \in 0..n : HashBefore(rt, s) = HashBefore(rs, s)
         /\ HashBefore(rt, n + 1) = Append(h, e)
<1> DEFINE rt == WithRow(rs, n, ChainRow(h, e))
<1>1. DOMAIN rt = 0..n /\ DOMAIN rs = 0..(n - 1)
  BY DEF WithRow, Linked
<1>2. rt[n] = ChainRow(h, e) /\ \A s \in 0..(n - 1) : rt[s] = rs[s]
  BY <1>1 DEF WithRow
<1>3. ChainRow(h, e) \in Row /\ ChainRow(h, e).currentHash = Append(h, e)
      /\ ChainRow(h, e).previousHash = h /\ ChainRow(h, e).canonicalPayload = e
  BY DEF ChainRow, Row, hashChainLink
<1>4. \A s \in 0..n : HashBefore(rt, s) = HashBefore(rs, s)
  <2> TAKE s \in 0..n
  <2>1. CASE s = 0
    BY <2>1 DEF HashBefore
  <2>2. CASE s # 0
    BY <2>2, <1>2 DEF HashBefore
  <2> QED
    BY <2>1, <2>2
<1>5. HashBefore(rt, n + 1) = Append(h, e)
  BY <1>2, <1>3 DEF HashBefore
<1>6. ASSUME NEW s \in DOMAIN rt
      PROVE  /\ rt[s] \in Row
             /\ rt[s] = ChainRow(rt[s].previousHash, rt[s].canonicalPayload)
             /\ rt[s].previousHash = HashBefore(rt, s)
  <2>1. CASE s = n
    BY <2>1, <1>2, <1>3, <1>4
  <2>2. CASE s # n
    <3>1. s \in DOMAIN rs /\ rt[s] = rs[s] /\ HashBefore(rt, s) = HashBefore(rs, s)
      BY <2>2, <1>1, <1>2, <1>4
    <3> QED
      BY <3>1 DEF Linked
  <2> QED
    BY <2>1, <2>2
<1>7. rt = [s \in DOMAIN rt |-> rt[s]]
  BY DEF WithRow
<1>8. Linked(rt, n + 1)
  BY <1>1, <1>6, <1>7 DEF Linked
<1> QED
  BY <1>2, <1>4, <1>5, <1>8

\* What an appender without an uncommitted row holds stays right when the
\* chain grows.
LEMMA AppenderKept ==
  ASSUME NEW rs, NEW n \in Nat, NEW rt,
         \A s \in 0..(n - 1) : rt[s] = rs[s],
         \A s \in 0..n : HashBefore(rt, s) = HashBefore(rs, s),
         NEW p, NEW a \in AppendRecord, AppenderRight(rs, p, a, n), a.pc # "pending"
  PROVE  AppenderRight(rt, p, a, n + 1)
<1>1. a.seq \in Nat /\ a.attempt \in Nat /\ AppendRetries \in Nat
  BY AuditChainAssumption DEF AppendRecord
<1>2. HoldsRight(rt, a, n + 1)
  BY <1>1 DEF AppenderRight, HoldsRight
<1>3. p \notin InTx => AttemptsRight(a, n + 1)
  BY <1>1 DEF AppenderRight, AttemptsRight
<1> QED
  BY <1>2, <1>3 DEF AppenderRight

\* A step of one appender that leaves the rows alone.
LEMMA QuietStep ==
  ASSUME NEW n \in Nat, ChainInvAt(n), NEW p \in Appender, NEW a \in AppendRecord,
         AppenderRight(rows, p, a, n),
         a.pc = "pending" => \A q \in Appender \ {p} : appends[q].pc # "pending",
         appends' = [appends EXCEPT ![p] = a], UNCHANGED rows
  PROVE  ChainInvAt(n)'
<1>1. appends' \in [Appender -> AppendRecord]
  BY DEF ChainInvAt
<1>2. \A q \in Appender : appends'[q] = IF q = p THEN a ELSE appends[q]
  BY DEF ChainInvAt
<1>3. \A q \in Appender : AppenderRight(rows, q, appends'[q], n)
  BY <1>2 DEF ChainInvAt
<1>4. \A q, r \in Appender : appends'[q].pc = "pending" /\ appends'[r].pc = "pending" => q = r
  BY <1>2 DEF ChainInvAt
<1> QED
  BY <1>1, <1>3, <1>4 DEF ChainInvAt

\* A step of one appender that stores its row.
LEMMA StoreStep ==
  ASSUME NEW n \in Nat, ChainInvAt(n), NEW p \in Appender, NEW a \in AppendRecord,
         appends[p].seq = n, appends[p].previousHash = HashBefore(rows, n),
         \A q \in Appender \ {p} : appends[q].pc # "pending",
         rows' = WithRow(rows, n, ChainRow(appends[p].previousHash, appends[p].payload)),
         AppenderRight(rows', p, a, n + 1), a.pc # "pending",
         appends' = [appends EXCEPT ![p] = a]
  PROVE  /\ ChainInvAt(n + 1)'
         /\ HashBefore(rows', n + 1) = Append(HashBefore(rows, n), appends[p].payload)
<1>0. appends[p] \in AppendRecord /\ Linked(rows, n)
  BY DEF ChainInvAt
<1>1. appends[p].previousHash \in Seq(Payload) /\ appends[p].payload \in Payload
  BY <1>0 DEF AppendRecord
<1>2. /\ Linked(rows', n + 1)
      /\ \A s \in 0..(n - 1) : rows'[s] = rows[s]
      /\ \A s \in 0..n : HashBefore(rows', s) = HashBefore(rows, s)
      /\ HashBefore(rows', n + 1) = Append(HashBefore(rows, n), appends[p].payload)
  BY <1>0, <1>1, LinkedGrows
<1>3. appends' \in [Appender -> AppendRecord]
  BY DEF ChainInvAt
<1>4. \A q \in Appender : appends'[q] = IF q = p THEN a ELSE appends[q]
  BY DEF ChainInvAt
<1>5. ASSUME NEW q \in Appender PROVE AppenderRight(rows', q, appends'[q], n + 1)
  <2>1. CASE q = p
    BY <2>1, <1>4
  <2>2. CASE q # p
    <3>1. appends[q] \in AppendRecord /\ AppenderRight(rows, q, appends[q], n)
          /\ appends[q].pc # "pending" /\ appends'[q] = appends[q]
      BY <2>2, <1>4 DEF ChainInvAt
    <3> QED
      BY <3>1, <1>2, AppenderKept
  <2> QED
    BY <2>1, <2>2
<1>6. \A q, r \in Appender : appends'[q].pc = "pending" /\ appends'[r].pc = "pending" => q = r
  BY <1>4
<1>7. ChainInvAt(n + 1)'
  BY <1>2, <1>3, <1>5, <1>6 DEF ChainInvAt
<1> QED
  BY <1>2, <1>7

-----------------------------------------------------------------------------

\* The catch block outside a transaction, when the chain holds more rows than
\* attempts were made.
LEMMA RetriedRight ==
  ASSUME NEW rs, NEW n \in Nat, NEW p \in Appender, NEW a \in AppendRecord,
         a.attempt < AppendRetries, a.attempt + 1 <= n
  PROVE  Retried(a) \in AppendRecord /\ AppenderRight(rs, p, Retried(a), n)
         /\ Retried(a).pc # "pending"
<1>0. a.attempt \in Nat /\ AppendRetries \in Nat
  BY AuditChainAssumption DEF AppendRecord
<1>1. a.attempt + 1 \in 0..AppendRetries /\ a.attempt + 1 \in Nat /\ AppendRetries \in Nat
  BY <1>0
<1>2. CASE a.attempt + 1 < AppendRetries
  <2>1. Retried(a) = [a EXCEPT !.pc = "start", !.attempt = a.attempt + 1]
    BY <1>2 DEF Retried, AppendRecord
  <2>2. Retried(a) \in AppendRecord
    <3>1. "start" \in AppendPC
      BY DEF AppendPC
    <3> QED
      BY <1>1, <2>1, <3>1 DEF AppendRecord
  <2>3. Retried(a).pc = "start" /\ Retried(a).attempt = a.attempt + 1
    BY <2>1 DEF AppendRecord
  <2> QED
    BY <1>1, <1>2, <2>2, <2>3 DEF AppenderRight, HoldsRight, AttemptsRight
<1>3. CASE ~(a.attempt + 1 < AppendRetries)
  <2>1. Retried(a) = [a EXCEPT !.pc = "failed", !.attempt = a.attempt + 1]
    BY <1>3 DEF Retried, AppendRecord
  <2>2. Retried(a) \in AppendRecord
    <3>1. "failed" \in AppendPC
      BY DEF AppendPC
    <3> QED
      BY <1>1, <2>1, <3>1 DEF AppendRecord
  <2>3. Retried(a).pc = "failed" /\ Retried(a).attempt = a.attempt + 1
    BY <2>1 DEF AppendRecord
  <2> QED
    BY <1>1, <1>3, <2>2, <2>3 DEF AppenderRight, HoldsRight, AttemptsRight
<1> QED
  BY <1>2, <1>3

LEMMA ChainInvInit ==
  ASSUME ChainInit
  PROVE  ChainInv
<1> DEFINE e == CHOOSE e \in Payload : TRUE
<1>1. e \in Payload
  BY AuditChainAssumption
<1>2. Idle(e) \in AppendRecord /\ Idle(e).pc = "idle"
  BY <1>1, AuditChainAssumption DEF Idle, AppendRecord, AppendPC, GENESIS_HASH
<1>3. appends = [p \in Appender |-> Idle(e)]
  BY DEF ChainInit
<1>4. DOMAIN rows = {} /\ rows = [s \in DOMAIN rows |-> rows[s]]
  BY DEF ChainInit
<1>5. Linked(rows, 0)
  BY <1>4 DEF Linked
<1>6. \A p \in Appender : AppenderRight(rows, p, appends[p], 0)
  BY <1>2, <1>3 DEF AppenderRight, HoldsRight, AttemptsRight
<1>7. ChainInvAt(0)
  BY <1>2, <1>3, <1>5, <1>6 DEF ChainInvAt
<1> QED
  BY <1>7 DEF ChainInv

\* What a step does to a chain of n rows: the invariant goes on with n rows and
\* the same head, or with n + 1 rows and one event more.
Goes(n) ==
  \/ ChainInvAt(n)' /\ UNCHANGED rows
  \/ /\ ChainInvAt(n + 1)'
     /\ \E e \in Payload : HashBefore(rows', n + 1) = Append(HashBefore(rows, n), e)

\* A new append starts.
LEMMA BeginAppendGoes ==
  ASSUME NEW n \in Nat, ChainInvAt(n), NEW p \in Appender, NEW e \in Payload,
         BeginAppend(p, e)
  PROVE  Goes(n)
<1> DEFINE a == [Idle(e) EXCEPT !.pc = "start"]
<1>0. 0 \in 0..AppendRetries /\ << >> \in Seq(Payload) /\ "start" \in AppendPC
  BY AuditChainAssumption DEF AppendPC
<1>1. a \in AppendRecord /\ a.pc = "start" /\ a.attempt = 0
  BY <1>0 DEF Idle, AppendRecord, GENESIS_HASH
<1>2. AppenderRight(rows, p, a, n)
  BY <1>1, AuditChainAssumption DEF AppenderRight, HoldsRight, AttemptsRight
<1>3. appends' = [appends EXCEPT ![p] = a] /\ UNCHANGED rows
  BY DEF BeginAppend
<1>4. ChainInvAt(n)'
  BY <1>1, <1>2, <1>3, QuietStep
<1> QED
  BY <1>3, <1>4 DEF Goes

\* Every statement of an append.
LEMMA ChainStepGoes ==
  ASSUME NEW n \in Nat, ChainInvAt(n), NEW p \in Appender, ChainStep(p)
  PROVE  Goes(n)
<1>a. /\ Linked(rows, n) /\ DOMAIN rows = 0..(n - 1)
      /\ appends \in [Appender -> AppendRecord] /\ appends[p] \in AppendRecord
      /\ AppenderRight(rows, p, appends[p], n)
  BY DEF ChainInvAt, Linked
<1>b. NextSeq(rows) = n /\ HeadHash(rows) = HashBefore(rows, n)
  BY <1>a, NextOfLinked
<1>c. HashBefore(rows, n) \in Seq(Payload)
  BY <1>a, HashBeforeType
<1>d. /\ appends[p].seq \in Nat /\ appends[p].attempt \in Nat /\ AppendRetries \in Nat
      /\ appends[p].payload \in Payload /\ appends[p].previousHash \in Seq(Payload)
  BY <1>a, AuditChainAssumption DEF AppendRecord
<1>e. ASSUME appends[p].pc = "read", ~KeyTaken(p), KeyFree(p)
      PROVE  /\ appends[p].seq = n /\ appends[p].previousHash = HashBefore(rows, n)
             /\ \A q \in Appender \ {p} : appends[q].pc # "pending"
  <2>1. appends[p].seq = n /\ appends[p].previousHash = HashBefore(rows, n)
    BY <1>a, <1>d, <1>e DEF AppenderRight, HoldsRight, KeyTaken
  <2>2. \A q \in Appender \ {p} : appends[q].pc = "pending" => appends[q].seq = n
    BY DEF ChainInvAt, AppenderRight, HoldsRight
  <2> QED
    BY <1>e, <2>1, <2>2 DEF KeyFree
<1>1. CASE FindLast(p)
  <2> DEFINE a == [appends[p] EXCEPT !.pc = "read", !.seq = n,
                                     !.previousHash = HashBefore(rows, n)]
  <2>1. a \in AppendRecord /\ a.pc = "read" /\ a.seq = n /\ a.attempt = appends[p].attempt
        /\ a.previousHash = HashBefore(rows, n)
    BY <1>a, <1>c DEF AppendRecord, AppendPC
  <2>2. appends' = [appends EXCEPT ![p] = a] /\ UNCHANGED rows /\ appends[p].pc = "start"
    BY <1>1, <1>a, <1>b DEF FindLast
  <2>3. AppenderRight(rows, p, a, n)
    BY <1>a, <2>1, <2>2 DEF AppenderRight, HoldsRight, AttemptsRight
  <2>4. ChainInvAt(n)'
    BY <2>1, <2>2, <2>3, QuietStep
  <2> QED
    BY <2>2, <2>4 DEF Goes
<1>2. CASE CreateStored(p)
  <2>1. /\ appends[p].pc = "read" /\ p \notin InTx /\ ~KeyTaken(p) /\ KeyFree(p)
        /\ rows' = WithRow(rows, appends[p].seq,
                           ChainRow(appends[p].previousHash, appends[p].payload))
    BY <1>2 DEF CreateStored
  <2>2. /\ appends[p].seq = n /\ appends[p].previousHash = HashBefore(rows, n)
        /\ \A q \in Appender \ {p} : appends[q].pc # "pending"
    BY <2>1, <1>e
  <2>3. appends[p].attempt < AppendRetries /\ appends[p].attempt + 1 <= n + 1
    BY <2>1, <2>2, <1>a, <1>d DEF AppenderRight, AttemptsRight
  <2>4. rows'[n] = ChainRow(appends[p].previousHash, appends[p].payload)
    BY <2>1, <2>2, <1>a, <1>d, LinkedGrows
  <2>5. ASSUME NEW a \in AppendRecord, AppenderRight(rows', p, a, n + 1), a.pc # "pending",
               appends' = [appends EXCEPT ![p] = a]
        PROVE  Goes(n)
    BY <2>1, <2>2, <2>5, <1>d, StoreStep DEF Goes
  <2>6. CASE appends' = [appends EXCEPT ![p].pc = "done"]
    <3> DEFINE a == [appends[p] EXCEPT !.pc = "done"]
    <3>1. a \in AppendRecord /\ a.pc = "done" /\ a.seq = n
          /\ a.previousHash = appends[p].previousHash /\ a.payload = appends[p].payload
      BY <1>a, <2>2 DEF AppendRecord, AppendPC
    <3>2. appends' = [appends EXCEPT ![p] = a]
      BY <2>6, <1>a
    <3>3. AppenderRight(rows', p, a, n + 1)
      BY <3>1, <2>4 DEF AppenderRight, HoldsRight, AttemptsRight
    <3> QED
      BY <3>1, <3>2, <3>3, <2>5
  <2>7. CASE appends' = [appends EXCEPT ![p] = Retried(@)]
    <3>1. appends' = [appends EXCEPT ![p] = Retried(appends[p])]
      BY <2>7, <1>a
    <3>2. /\ Retried(appends[p]) \in AppendRecord
          /\ AppenderRight(rows', p, Retried(appends[p]), n + 1)
          /\ Retried(appends[p]).pc # "pending"
      BY <2>3, <1>a, RetriedRight
    <3> QED
      BY <3>1, <3>2, <2>5
  <2> QED
    BY <1>2, <2>6, <2>7 DEF CreateStored
<1>3. CASE CreateRefused(p)
  <2>1. /\ appends[p].pc = "read" /\ p \notin InTx /\ KeyTaken(p) /\ UNCHANGED rows
        /\ appends' = [appends EXCEPT ![p] = Retried(appends[p])]
    BY <1>3, <1>a DEF CreateRefused
  <2>2. appends[p].attempt < AppendRetries /\ appends[p].attempt + 1 <= n
    BY <2>1, <1>a, <1>d DEF AppenderRight, AttemptsRight, KeyTaken
  <2>3. /\ Retried(appends[p]) \in AppendRecord
        /\ AppenderRight(rows, p, Retried(appends[p]), n)
        /\ Retried(appends[p]).pc # "pending"
    BY <2>2, <1>a, RetriedRight
  <2>4. ChainInvAt(n)'
    BY <2>1, <2>3, QuietStep
  <2> QED
    BY <2>1, <2>4 DEF Goes
<1>4. CASE TxCreate(p)
  <2> DEFINE a == [appends[p] EXCEPT !.pc = "pending"]
  <2>1. appends[p].pc = "read" /\ p \in InTx /\ ~KeyTaken(p) /\ KeyFree(p) /\ UNCHANGED rows
        /\ appends' = [appends EXCEPT ![p] = a]
    BY <1>4, <1>a DEF TxCreate
  <2>2. /\ appends[p].seq = n /\ appends[p].previousHash = HashBefore(rows, n)
        /\ \A q \in Appender \ {p} : appends[q].pc # "pending"
    BY <2>1, <1>e
  <2>3. a \in AppendRecord /\ a.pc = "pending" /\ a.seq = n
        /\ a.previousHash = HashBefore(rows, n)
    BY <2>2, <1>a DEF AppendRecord, AppendPC
  <2>4. AppenderRight(rows, p, a, n)
    BY <2>1, <2>3 DEF AppenderRight, HoldsRight
  <2>5. ChainInvAt(n)'
    BY <2>1, <2>2, <2>3, <2>4, QuietStep
  <2> QED
    BY <2>1, <2>5 DEF Goes
<1>5. CASE TxCreateRefused(p) \/ TxRollback(p)
  <2> DEFINE a == [appends[p] EXCEPT !.pc = "failed"]
  <2>1. p \in InTx /\ UNCHANGED rows /\ appends' = [appends EXCEPT ![p] = a]
    BY <1>5, <1>a DEF TxCreateRefused, TxRollback, AppenderRight, AttemptsRight
  <2>2. a \in AppendRecord /\ a.pc = "failed"
    BY <1>a DEF AppendRecord, AppendPC
  <2>3. AppenderRight(rows, p, a, n)
    BY <2>1, <2>2 DEF AppenderRight, HoldsRight
  <2>4. ChainInvAt(n)'
    BY <2>1, <2>2, <2>3, QuietStep
  <2> QED
    BY <2>1, <2>4 DEF Goes
<1>6. CASE TxCommit(p)
  <2> DEFINE a == [appends[p] EXCEPT !.pc = "done"]
  <2>1. /\ appends[p].pc = "pending" /\ appends' = [appends EXCEPT ![p] = a]
        /\ rows' = WithRow(rows, appends[p].seq,
                           ChainRow(appends[p].previousHash, appends[p].payload))
    BY <1>6, <1>a DEF TxCommit
  <2>2. /\ appends[p].seq = n /\ appends[p].previousHash = HashBefore(rows, n)
        /\ \A q \in Appender \ {p} : appends[q].pc # "pending"
    BY <2>1, <1>a DEF ChainInvAt, AppenderRight, HoldsRight
  <2>3. rows'[n] = ChainRow(appends[p].previousHash, appends[p].payload)
    BY <2>1, <2>2, <1>a, <1>d, LinkedGrows
  <2>4. a \in AppendRecord /\ a.pc = "done" /\ a.seq = n
        /\ a.previousHash = appends[p].previousHash /\ a.payload = appends[p].payload
    BY <2>2, <1>a DEF AppendRecord, AppendPC
  <2>5. AppenderRight(rows', p, a, n + 1)
    BY <2>3, <2>4 DEF AppenderRight, HoldsRight, AttemptsRight
  <2> QED
    BY <2>1, <2>2, <2>4, <2>5, <1>d, StoreStep DEF Goes
<1> QED
  BY <1>1, <1>2, <1>3, <1>4, <1>5, <1>6 DEF ChainStep

-----------------------------------------------------------------------------

\* A stuttering step.
LEMMA ChainStutterGoes ==
  ASSUME NEW n \in Nat, ChainInvAt(n), UNCHANGED chainVars
  PROVE  Goes(n)
<1>1. UNCHANGED rows /\ UNCHANGED appends
  BY DEF chainVars
<1>2. ChainInvAt(n)'
  BY <1>1 DEF ChainInvAt
<1> QED
  BY <1>1, <1>2 DEF Goes

LEMMA ChainNextGoes ==
  ASSUME NEW n \in Nat, ChainInvAt(n), [ChainNext]_chainVars
  PROVE  Goes(n)
  BY ChainStutterGoes, ChainStepGoes, BeginAppendGoes DEF ChainNext

\* Every step of the chain keeps the invariant and is an append of one event to
\* the log, or none.
LEMMA ChainInvStep ==
  ASSUME ChainInv, [ChainNext]_chainVars
  PROVE  ChainInv' /\ [Log!LogNext]_(HeadHash(rows))
<1>1. PICK n \in Nat : ChainInvAt(n)
  BY DEF ChainInv
<1>2. Goes(n)
  BY <1>1, ChainNextGoes
<1>3. CASE ChainInvAt(n)' /\ UNCHANGED rows
  BY <1>3 DEF ChainInv
<1>4. CASE /\ ChainInvAt(n + 1)'
           /\ \E e \in Payload : HashBefore(rows', n + 1) = Append(HashBefore(rows, n), e)
  <2>1. HeadHash(rows) = HashBefore(rows, n)
    BY <1>1, NextOfLinked DEF ChainInvAt
  <2>2. Linked(rows', n + 1)
    BY <1>4 DEF ChainInvAt
  <2>3. HeadHash(rows') = HashBefore(rows', n + 1)
    BY <2>2, NextOfLinked
  <2>4. \E e \in Payload : HeadHash(rows') = Append(HeadHash(rows), e)
    BY <1>4, <2>1, <2>3
  <2>5. Log!LogNext
    BY <2>4 DEF Log!LogNext, Log!Grow
  <2>6. ChainInv'
    BY <1>4 DEF ChainInv
  <2> QED
    BY <2>5, <2>6
<1> QED
  BY <1>2, <1>3, <1>4 DEF Goes

\* What the invariant says of the chain: verifyAuditChain accepts it.
LEMMA InvVerifies ==
  ASSUME ChainInv
  PROVE  ChainVerifies
<1>1. PICK n \in Nat : Linked(rows, n)
  BY DEF ChainInv, ChainInvAt
<1>2. Cardinality(DOMAIN rows) = n
  <2>1. DOMAIN rows = 0..(n - 1)
    BY <1>1 DEF Linked
  <2>2. 0 \in Int /\ n - 1 \in Int
    OBVIOUS
  <2>3. Cardinality(0..(n - 1)) = IF 0 > n - 1 THEN 0 ELSE (n - 1) - 0 + 1
    BY <2>2, FS_Interval, Zenon
  <2> QED
    BY <2>1, <2>3
<1>3. DOMAIN rows = 0..(Cardinality(DOMAIN rows) - 1)
  BY <1>1, <1>2 DEF Linked
<1>4. ASSUME NEW s \in DOMAIN rows
      PROVE  rows[s].currentHash = hashChainLink(rows[s].previousHash, rows[s].canonicalPayload)
  <2>1. rows[s] = ChainRow(rows[s].previousHash, rows[s].canonicalPayload)
    BY <1>1 DEF Linked
  <2> QED
    BY <2>1 DEF ChainRow
<1>5. \A s \in DOMAIN rows :
        rows[s].previousHash = IF s = 0 THEN GENESIS_HASH ELSE rows[s - 1].currentHash
  BY <1>1 DEF Linked, HashBefore
<1> QED
  BY <1>3, <1>4, <1>5 DEF ChainVerifies, VerifyChain

\* What the invariant says of the callers.
LEMMA InvCallers ==
  ASSUME ChainInv
  PROVE  ReturnedIsStored /\ GivesUpOnlyBeaten
<1>1. PICK n \in Nat : ChainInvAt(n)
  BY DEF ChainInv
<1>2. DOMAIN rows = 0..(n - 1) /\ NextSeq(rows) = n
  BY <1>1, NextOfLinked DEF ChainInvAt, Linked
<1>3. ReturnedIsStored
  <2> SUFFICES ASSUME NEW p \in Appender, appends[p].pc = "done"
               PROVE  /\ appends[p].seq \in DOMAIN rows
                      /\ rows[appends[p].seq]
                           = ChainRow(appends[p].previousHash, appends[p].payload)
    BY DEF ReturnedIsStored
  <2>1. appends[p].seq \in Nat
    BY <1>1 DEF ChainInvAt, AppendRecord
  <2> QED
    BY <1>1, <1>2, <2>1 DEF ChainInvAt, AppenderRight, HoldsRight
<1>4. GivesUpOnlyBeaten
  BY <1>1, <1>2 DEF GivesUpOnlyBeaten, ChainInvAt, AppenderRight, AttemptsRight
<1> QED
  BY <1>3, <1>4

LEMMA ChainAlways == ChainSpec => []ChainInv
<1>1. ChainInit => ChainInv
  BY ChainInvInit
<1>2. ChainInv /\ [ChainNext]_chainVars => ChainInv'
  BY ChainInvStep
<1> QED
  BY <1>1, <1>2, PTL DEF ChainSpec

\* verifyChainFromRows accepts the chain in every state, for any number of
\* concurrent appenders, retries, aborted transactions and lost replies.
THEOREM ChainAlwaysVerifies == ChainSpec => []ChainVerifies
<1>1. ChainInv => ChainVerifies
  BY InvVerifies
<1> QED
  BY <1>1, ChainAlways, PTL

\* What appendAuditEvent returned is in the chain and stays there unchanged, and
\* outside a transaction it throws only on a chain of MAX_RETRIES events.
THEOREM ChainAnswersHold == ChainSpec => []AnswersHold
<1>1. ChainInv => AnswersHold
  BY InvCallers DEF AnswersHold
<1> QED
  BY <1>1, ChainAlways, PTL

\* The two-statement append under a unique key implements the atomic append of
\* AppendLog: the history a reader sees only grows, one event at a time.
THEOREM ChainImplementsLog == ChainSpec => ChainIsLog
<1>1. ChainInit => Log!LogInit
  <2> SUFFICES ASSUME ChainInit PROVE HeadHash(rows) = << >>
    BY DEF Log!LogInit
  <2>1. DOMAIN rows = {}
    BY DEF ChainInit
  <2> QED
    BY <2>1 DEF HeadHash, GENESIS_HASH
<1>2. ChainInv /\ [ChainNext]_chainVars => [Log!LogNext]_(HeadHash(rows))
  BY ChainInvStep
<1> QED
  BY <1>1, <1>2, ChainAlways, PTL DEF ChainSpec, ChainIsLog, Log!LogSpec

-----------------------------------------------------------------------------
(* The exception workflow. *)

LogEntry == [by : Requester, from : WorkflowState, to : WorkflowState]

Request == [pc : {"idle", "checked", "locked"}, from : WorkflowState, to : WorkflowState]

RowTypes ==
  /\ exc \in [present : BOOLEAN, status : WorkflowState, resolution : BOOLEAN]
  /\ auditLog \in Seq(LogEntry)
  /\ req \in [Requester -> Request]

\* A request that passed the validations asks for a legal, permitted step.
AskedLegally ==
  \A v \in Requester : req[v].pc # "idle" =>
    canTransition(req[v].from, req[v].to) /\ Permitted(v, req[v].to)
      /\ req[v].to \in TargetsOf[v]

\* At most one transaction holds the row, which is as it found it.
OneHolder ==
  /\ \A v, w \in Requester : req[v].pc = "locked" /\ req[w].pc = "locked" => v = w
  /\ \A v \in Requester : req[v].pc = "locked" => exc.status = req[v].from

\* RESOLVED is entered by humans only.
HumansResolve ==
  \A i \in 1..Len(auditLog) : auditLog[i].to = "RESOLVED" => auditLog[i].by \in Human

\* The resolution of the row goes with its status.
ResolutionFits == exc.resolution = (exc.status = "RESOLVED")

\* The part of the inductive invariant about the row, the log and the requests.
RowInv ==
  RowTypes /\ AskedLegally /\ OneHolder /\ HumansResolve /\ AuditWalk /\ ResolutionFits

-----------------------------------------------------------------------------

\* What the transition table says of the two last steps to RESOLVED.
LEMMA WayToResolved ==
  ASSUME NEW s \in WorkflowState
  PROVE  /\ canTransition(s, "RESOLVED") => s = "FINALIZABLE"
         /\ canTransition(s, "FINALIZABLE") => s = "RE_VERIFICATION"
  BY DEF canTransition, WORKFLOW_TRANSITIONS, WorkflowState

\* Only REOPENED follows RESOLVED.
LEMMA WayFromResolved ==
  ASSUME NEW s \in WorkflowState, canTransition("RESOLVED", s)
  PROVE  s = "REOPENED"
  BY DEF canTransition, WORKFLOW_TRANSITIONS, WorkflowState

LEMMA RowInvInit ==
  ASSUME WorkflowInit
  PROVE  RowInv
<1>1. RowTypes
  BY DEF WorkflowInit, RowTypes, WorkflowState, NoRequest, Request
<1>2. AskedLegally /\ OneHolder
  BY DEF WorkflowInit, AskedLegally, OneHolder, NoRequest
<1>3. HumansResolve /\ AuditWalk
  BY DEF WorkflowInit, HumansResolve, AuditWalk
<1>4. ResolutionFits
  BY DEF WorkflowInit, ResolutionFits
<1> QED
  BY <1>1, <1>2, <1>3, <1>4 DEF RowInv

\* The transaction that holds the row commits.
LEMMA CommittedKeeps ==
  ASSUME RowInv, NEW v \in Requester, req[v].pc = "locked", Committed(v)
  PROVE  RowInv'
<1> DEFINE from == req[v].from
           to == req[v].to
           t == Transition(v, from, to)
<1>a. /\ req[v] \in Request /\ from \in WorkflowState /\ to \in WorkflowState
      /\ canTransition(from, to) /\ Permitted(v, to) /\ exc.status = from
  BY DEF RowInv, RowTypes, Request, AskedLegally, OneHolder
<1>b. /\ t \in LogEntry /\ t.by = v /\ t.from = from /\ t.to = to
      /\ auditLog' = Append(auditLog, t) /\ auditLog \in Seq(LogEntry)
  BY <1>a DEF Transition, LogEntry, Committed, RowInv, RowTypes
<1>c. /\ Len(auditLog') = Len(auditLog) + 1 /\ Len(auditLog) \in Nat
      /\ auditLog'[Len(auditLog) + 1] = t
      /\ \A i \in 1..Len(auditLog) : auditLog'[i] = auditLog[i]
  BY <1>b
<1>d. /\ NoRequest \in Request /\ NoRequest.pc = "idle"
      /\ \A w \in Requester : req'[w] = IF w = v THEN NoRequest ELSE req[w]
      /\ req' \in [Requester -> Request]
  BY DEF Committed, RowInv, RowTypes, NoRequest, Request, WorkflowState
<1>e. /\ exc'.status = to
      /\ exc'.resolution = ResolutionAfter(exc.resolution, from, to)
      /\ exc' \in [present : BOOLEAN, status : WorkflowState, resolution : BOOLEAN]
  <2>1. ResolutionAfter(exc.resolution, from, to) \in BOOLEAN
    BY DEF ResolutionAfter, RowInv, RowTypes
  <2> QED
    BY <1>a, <2>1 DEF Committed, RowInv, RowTypes
<1>1. RowTypes'
  BY <1>b, <1>d, <1>e DEF RowTypes
<1>2. AskedLegally'
  BY <1>d DEF RowInv, AskedLegally
<1>3. OneHolder'
  <2>1. \A w \in Requester : req'[w].pc # "locked"
    BY <1>d DEF RowInv, OneHolder
  <2> QED
    BY <2>1 DEF OneHolder
<1>4. HumansResolve'
  <2>1. to = "RESOLVED" => v \in Human
    BY <1>a DEF Permitted, Requester
  <2> QED
    BY <1>b, <1>c, <2>1 DEF RowInv, HumansResolve
<1>5. AuditWalk'
  <2>1. from = IF auditLog = << >> THEN "OPEN" ELSE auditLog[Len(auditLog)].to
    BY <1>a DEF RowInv, AuditWalk
  <2>2. ASSUME NEW i \in 1..Len(auditLog')
        PROVE  /\ canTransition(auditLog'[i].from, auditLog'[i].to)
               /\ auditLog'[i].from = IF i = 1 THEN "OPEN" ELSE auditLog'[i - 1].to
    <3>1. CASE i = Len(auditLog) + 1
      <4>1. auditLog'[i] = t
        BY <3>1, <1>c
      <4>2. CASE auditLog = << >>
        BY <3>1, <4>1, <4>2, <1>a, <1>b, <2>1
      <4>3. CASE auditLog # << >>
        <5>1. Len(auditLog) >= 1 /\ i - 1 = Len(auditLog) /\ i # 1
          BY <3>1, <4>3, <1>b, <1>c
        <5> QED
          BY <4>1, <4>3, <5>1, <1>a, <1>b, <1>c, <2>1
      <4> QED
        BY <4>2, <4>3
    <3>2. CASE i # Len(auditLog) + 1
      <4>1. i \in 1..Len(auditLog) /\ (i # 1 => i - 1 \in 1..Len(auditLog))
        BY <3>2, <1>c
      <4> QED
        BY <4>1, <1>c DEF RowInv, AuditWalk
    <3> QED
      BY <3>1, <3>2
  <2>3. exc'.status = IF auditLog' = << >> THEN "OPEN" ELSE auditLog'[Len(auditLog')].to
    <3>1. auditLog' # << >>
      BY <1>c
    <3> QED
      BY <3>1, <1>b, <1>c, <1>e
  <2> QED
    BY <2>2, <2>3 DEF AuditWalk
<1>6. ResolutionFits'
  <2>1. exc.resolution = (from = "RESOLVED")
    BY <1>a DEF RowInv, ResolutionFits
  <2>2. from = "RESOLVED" => to = "REOPENED"
    BY <1>a, WayFromResolved
  <2> QED
    BY <1>e, <2>1, <2>2 DEF ResolutionFits, ResolutionAfter
<1> QED
  BY <1>1, <1>2, <1>3, <1>4, <1>5, <1>6 DEF RowInv

\* A step of one requester that leaves the row and the log alone.
LEMMA RequestKeeps ==
  ASSUME RowInv, NEW v \in Requester, NEW r \in Request,
         req' = [req EXCEPT ![v] = r], UNCHANGED <<exc, auditLog>>,
         r.pc # "idle" => /\ canTransition(r.from, r.to) /\ Permitted(v, r.to)
                          /\ r.to \in TargetsOf[v],
         r.pc = "locked" => RowFree /\ exc.status = r.from
  PROVE  RowInv'
<1>1. /\ \A w \in Requester : req'[w] = IF w = v THEN r ELSE req[w]
      /\ req' \in [Requester -> Request]
  BY DEF RowInv, RowTypes
<1>2. RowTypes' /\ AskedLegally'
  BY <1>1 DEF RowInv, RowTypes, AskedLegally
<1>3. OneHolder'
  BY <1>1 DEF RowInv, OneHolder, RowFree
<1>4. HumansResolve' /\ AuditWalk' /\ ResolutionFits'
  BY DEF RowInv, HumansResolve, AuditWalk, ResolutionFits
<1> QED
  BY <1>2, <1>3, <1>4 DEF RowInv

\* A step that leaves the log, the requests and the status alone.
LEMMA QuietRowKeeps ==
  ASSUME RowInv, UNCHANGED <<auditLog, req>>,
         exc' = exc \/ exc' = [exc EXCEPT !.present = FALSE]
  PROVE  RowInv'
<1>1. /\ exc' \in [present : BOOLEAN, status : WorkflowState, resolution : BOOLEAN]
      /\ exc'.status = exc.status /\ exc'.resolution = exc.resolution
  BY DEF RowInv, RowTypes
<1>2. RowTypes' /\ AskedLegally' /\ OneHolder' /\ HumansResolve'
  BY <1>1 DEF RowInv, RowTypes, AskedLegally, OneHolder, HumansResolve
<1>3. AuditWalk' /\ ResolutionFits'
  BY <1>1 DEF RowInv, AuditWalk, ResolutionFits
<1> QED
  BY <1>2, <1>3 DEF RowInv

\* Every step keeps the row invariant, and is a step of the chain or leaves the
\* chain alone.
LEMMA WorkflowStep ==
  ASSUME RowInv, [WorkflowNext]_workflowVars
  PROVE  RowInv' /\ [ChainNext]_chainVars
<1>a. \A v \in Human : v \in Appender
  BY AuditChainAssumption DEF Human
<1>b. NoRequest \in Request /\ NoRequest.pc = "idle"
  BY DEF NoRequest, Request, WorkflowState
<1>c. \A p \in Appender : ChainStep(p) => ChainNext
  BY DEF ChainNext
<1>d. \A p \in Appender : \A e \in Payload : BeginAppend(p, e) => ChainNext
  BY DEF ChainNext
<1>e. ASSUME UNCHANGED <<rows, appends>> PROVE [ChainNext]_chainVars
  BY <1>e DEF chainVars
<1>f. \A v \in Requester : req[v] \in Request /\ req[v].from \in WorkflowState
                           /\ req[v].to \in WorkflowState
  BY DEF RowInv, RowTypes, Request
<1>1. ASSUME NEW v \in Requester, NEW to \in TargetsOf[v], ReadStatus(v, to)
      PROVE  RowInv' /\ [ChainNext]_chainVars
  <2> DEFINE r == [pc |-> "checked", from |-> exc.status, to |-> to]
  <2>1. exc.status \in WorkflowState /\ canTransition(exc.status, to)
    BY <1>1 DEF RowInv, RowTypes, ReadStatus
  <2>2. to \in WorkflowState
    BY <2>1 DEF canTransition, WORKFLOW_TRANSITIONS, WorkflowState
  <2>3. r \in Request /\ r.pc = "checked" /\ r.from = exc.status /\ r.to = to
    BY <2>1, <2>2 DEF Request
  <2>4. req' = [req EXCEPT ![v] = r] /\ UNCHANGED <<exc, auditLog>> /\ Permitted(v, to)
    BY <1>1 DEF ReadStatus
  <2>5. RowInv'
    BY <2>1, <2>3, <2>4, RequestKeeps
  <2> QED
    BY <1>1, <1>e, <2>5 DEF ReadStatus
<1>2. ASSUME NEW v \in Requester, CompareAndSwap(v)
      PROVE  RowInv' /\ [ChainNext]_chainVars
  <2> DEFINE r == [req[v] EXCEPT !.pc = "locked"]
  <2>1. r \in Request /\ r.pc = "locked" /\ r.from = req[v].from /\ r.to = req[v].to
    BY <1>f DEF Request
  <2>2. /\ req' = [req EXCEPT ![v] = r] /\ UNCHANGED <<exc, auditLog>>
        /\ RowFree /\ exc.status = req[v].from /\ req[v].pc = "checked"
    BY <1>2 DEF CompareAndSwap, Swaps
  <2>3. /\ canTransition(req[v].from, req[v].to) /\ Permitted(v, req[v].to)
        /\ req[v].to \in TargetsOf[v]
    BY <2>2 DEF RowInv, AskedLegally
  <2>4. RowInv'
    BY <2>1, <2>2, <2>3, RequestKeeps
  <2>5. CASE v \in Human
    <3> DEFINE e == Transition(v, req[v].from, req[v].to)
    <3>1. e \in WorkflowPayload
      BY <2>3, <2>5, <1>f DEF Transition, WorkflowPayload
    <3>2. e \in Payload
      BY <3>1, PayloadAssumption
    <3>3. BeginAppend(v, e)
      BY <1>2, <2>5 DEF CompareAndSwap
    <3> QED
      BY <2>4, <2>5, <3>2, <3>3, <1>a, <1>d
  <2>6. CASE v \notin Human
    BY <1>2, <2>4, <2>6, <1>e DEF CompareAndSwap
  <2> QED
    BY <2>5, <2>6
<1>3. ASSUME NEW v \in Requester, Conflict(v)
      PROVE  RowInv' /\ [ChainNext]_chainVars
  BY <1>3, <1>b, <1>e, RequestKeeps DEF Conflict
<1>4. ASSUME NEW v \in Requester, CommitHuman(v)
      PROVE  RowInv' /\ [ChainNext]_chainVars
  <2>1. RowInv'
    BY <1>4, CommittedKeeps DEF CommitHuman
  <2>2. ChainStep(v) /\ v \in Appender
    BY <1>4, <1>a DEF CommitHuman, ChainStep
  <2> QED
    BY <2>1, <2>2, <1>c
<1>5. ASSUME NEW v \in Requester, CommitAI(v)
      PROVE  RowInv' /\ [ChainNext]_chainVars
  BY <1>5, <1>e, CommittedKeeps DEF CommitAI
<1>6. ASSUME NEW v \in Requester, RollBack(v)
      PROVE  RowInv' /\ [ChainNext]_chainVars
  <2>1. RowInv'
    BY <1>6, <1>b, RequestKeeps DEF RollBack
  <2>2. ChainStep(v) /\ v \in Appender
    BY <1>6, <1>a DEF RollBack, ChainStep
  <2> QED
    BY <2>1, <2>2, <1>c
<1>7. ASSUME NEW p \in Appender, AppendStep(p)
      PROVE  RowInv' /\ [ChainNext]_chainVars
  <2>1. ChainStep(p)
    BY <1>7 DEF AppendStep, ChainStep
  <2>2. RowInv'
    BY <1>7, QuietRowKeeps DEF AppendStep
  <2> QED
    BY <2>1, <2>2, <1>c
<1>8. ASSUME NEW p \in Appender, EngineAppends(p)
      PROVE  RowInv' /\ [ChainNext]_chainVars
  <2>1. SystemEvent \in Payload
    BY PayloadAssumption DEF WorkflowPayload
  <2>2. RowInv'
    BY <1>8, QuietRowKeeps DEF EngineAppends
  <2> QED
    BY <1>8, <2>1, <2>2, <1>d DEF EngineAppends
<1>9. CASE EngineDeletes
  BY <1>9, <1>e, QuietRowKeeps DEF EngineDeletes
<1>10. CASE UNCHANGED workflowVars
  BY <1>10, <1>e, QuietRowKeeps DEF workflowVars
<1> QED
  BY <1>1, <1>2, <1>3, <1>4, <1>5, <1>6, <1>7, <1>8, <1>9, <1>10 DEF WorkflowNext

LEMMA RowAlways == WorkflowSpec => []RowInv
<1>1. WorkflowInit => RowInv
  BY RowInvInit
<1>2. RowInv /\ [WorkflowNext]_workflowVars => RowInv'
  BY WorkflowStep
<1> QED
  BY <1>1, <1>2, PTL DEF WorkflowSpec

-----------------------------------------------------------------------------

\* The workflow uses the chain of its batch as appendAuditEvent allows: its
\* behaviours are behaviours of the chain, and so the chain's theorems hold
\* while transitions and engine runs append to it together.
THEOREM WorkflowUsesChain == WorkflowSpec => ChainSpec /\ []ChainVerifies /\ ChainIsLog
<1>1. WorkflowInit => ChainInit
  BY DEF WorkflowInit
<1>2. RowInv /\ [WorkflowNext]_workflowVars => [ChainNext]_chainVars
  BY WorkflowStep
<1>3. WorkflowSpec => ChainSpec
  BY <1>1, <1>2, RowAlways, PTL DEF WorkflowSpec, ChainSpec
<1> QED
  BY <1>3, ChainAlwaysVerifies, ChainImplementsLog, PTL

\* The audit log of an exception is a walk through WORKFLOW_TRANSITIONS from
\* OPEN to the status of the row, whatever requests race.
THEOREM WorkflowWalks == WorkflowSpec => []AuditWalk
<1>1. RowInv => AuditWalk
  BY DEF RowInv
<1> QED
  BY <1>1, RowAlways, PTL

\* Every resolution was preceded by a passing re-verification and entered by a
\* human, and a row carries a resolution exactly while it is RESOLVED.
THEOREM WorkflowResolves == WorkflowSpec => []ResolvedWasVerified
<1>1. ASSUME RowInv PROVE ResolvedWasVerified
  <2>1. auditLog \in Seq(LogEntry)
    BY <1>1 DEF RowInv, RowTypes
  <2>2. ASSUME NEW i \in 1..Len(auditLog), auditLog[i].to = "RESOLVED"
        PROVE  i > 1 /\ auditLog[i - 1].from = "RE_VERIFICATION" /\ auditLog[i].by \in Human
    <3>1. auditLog[i] \in LogEntry /\ Len(auditLog) \in Nat
      BY <2>1, <2>2
    <3>2. auditLog[i].from = "FINALIZABLE"
      <4>1. auditLog[i].from \in WorkflowState
        BY <3>1 DEF LogEntry
      <4>2. canTransition(auditLog[i].from, "RESOLVED")
        BY <1>1, <2>2 DEF RowInv, AuditWalk
      <4> QED
        BY <4>1, <4>2, WayToResolved
    <3>3. i # 1 /\ auditLog[i - 1].to = "FINALIZABLE"
      BY <1>1, <3>2 DEF RowInv, AuditWalk
    <3>4. i - 1 \in 1..Len(auditLog)
      BY <3>1, <3>3
    <3>5. auditLog[i - 1].from \in WorkflowState
      <4>1. \A j \in 1..Len(auditLog) : auditLog[j] \in LogEntry
        BY <2>1
      <4>2. auditLog[i - 1] \in LogEntry
        BY <3>4, <4>1
      <4> QED
        BY <4>2 DEF LogEntry
    <3>6. canTransition(auditLog[i - 1].from, "FINALIZABLE")
      BY <1>1, <3>3, <3>4 DEF RowInv, AuditWalk
    <3>7. auditLog[i - 1].from = "RE_VERIFICATION"
      BY <3>5, <3>6, WayToResolved
    <3> QED
      BY <1>1, <2>2, <3>3, <3>7 DEF RowInv, HumansResolve
  <2>3. exc.resolution = (exc.status = "RESOLVED")
    BY <1>1 DEF RowInv, ResolutionFits
  <2> QED
    BY <2>2, <2>3 DEF ResolvedWasVerified
<1> QED
  BY <1>1, RowAlways, PTL

-----------------------------------------------------------------------------
(* The chain and the log *)

\* A chosen position at the end: the ranks of the others stay, its own is new.
LEMMA RankGrows ==
  ASSUME NEW n \in Nat, NEW S \in SUBSET (1..n)
  PROVE  LET U == S \cup {n + 1} IN
         /\ Cardinality(S) \in Nat /\ Cardinality(U) = Cardinality(S) + 1
         /\ Rank(U, n + 1) = Cardinality(S) + 1
         /\ \A i \in S : Rank(U, i) = Rank(S, i) /\ Rank(U, i) # Cardinality(S) + 1
<1> DEFINE U == S \cup {n + 1}
<1>1. IsFiniteSet(S) /\ n + 1 \notin S
  <2>1. IsFiniteSet(1..n)
    BY FS_Interval
  <2>2. n + 1 \notin 1..n
    OBVIOUS
  <2>3. IsFiniteSet(S)
    BY <2>1, FS_Subset
  <2> QED
    BY <2>2, <2>3
<1>2. Cardinality(S) \in Nat /\ Cardinality(U) = Cardinality(S) + 1
  BY <1>1, FS_CardinalityType, FS_AddElement
<1>3. Rank(U, n + 1) = Cardinality(S) + 1
  <2>0. \A j \in U : j <= n + 1
    OBVIOUS
  <2> HIDE DEF U
  <2>1. {j \in U : j <= n + 1} = U
    BY <2>0
  <2> QED
    BY <1>2, <2>1 DEF Rank
<1>4. ASSUME NEW i \in S PROVE Rank(U, i) = Rank(S, i) /\ Rank(U, i) # Cardinality(S) + 1
  <2> DEFINE V == {j \in S : j <= i}
  <2>1. {j \in U : j <= i} = V /\ V \in SUBSET S
    BY <1>4
  <2> HIDE DEF V
  <2>2. Cardinality(V) \in Nat /\ Cardinality(V) <= Cardinality(S)
    BY <1>1, <2>1, FS_Subset, FS_CardinalityType
  <2>3. Rank(U, i) = Cardinality(V) /\ Rank(S, i) = Cardinality(V)
    BY <2>1 DEF Rank, V
  <2> QED
    BY <1>2, <2>2, <2>3
<1> QED
  BY <1>2, <1>3, <1>4

\* An entry that is not chosen changes nothing, in either record.
LEMMA UnchosenEntry ==
  ASSUME NEW A, NEW s \in Seq(A), NEW S \in SUBSET DOMAIN s,
         NEW B, NEW t \in Seq(B), NEW T \in SUBSET DOMAIN t,
         SameEntries(s, S, t, T)
  PROVE  /\ \A x : SameEntries(Append(s, x), S, t, T)
         /\ \A y : SameEntries(s, S, Append(t, y), T)
<1>1. ASSUME NEW x PROVE SameEntries(Append(s, x), S, t, T)
  <2>1. \A i \in S : Append(s, x)[i] = s[i]
    BY LenProperties
  <2> QED
    BY <2>1 DEF SameEntries
<1>2. ASSUME NEW y PROVE SameEntries(s, S, Append(t, y), T)
  <2>1. \A j \in T : Append(t, y)[j] = t[j]
    BY LenProperties
  <2> QED
    BY <2>1 DEF SameEntries
<1> QED
  BY <1>1, <1>2

\* One entry, chosen, at the end of both records.
LEMMA ChosenEntry ==
  ASSUME NEW A, NEW s \in Seq(A), NEW S \in SUBSET DOMAIN s,
         NEW B, NEW t \in Seq(B), NEW T \in SUBSET DOMAIN t,
         SameEntries(s, S, t, T), NEW x
  PROVE  SameEntries(Append(s, x), S \cup {Len(s) + 1}, Append(t, x), T \cup {Len(t) + 1})
<1> DEFINE m == Len(s)
           n == Len(t)
           U == S \cup {m + 1}
           V == T \cup {n + 1}
<1>1. m \in Nat /\ n \in Nat /\ S \in SUBSET (1..m) /\ T \in SUBSET (1..n)
  BY LenProperties
<1>2. /\ Append(s, x)[m + 1] = x /\ \A i \in S : Append(s, x)[i] = s[i]
      /\ Append(t, x)[n + 1] = x /\ \A j \in T : Append(t, x)[j] = t[j]
  BY LenProperties
<1> HIDE DEF m, n
<1>3. /\ Cardinality(S) \in Nat /\ Cardinality(U) = Cardinality(S) + 1
      /\ Rank(U, m + 1) = Cardinality(S) + 1
      /\ \A i \in S : Rank(U, i) = Rank(S, i) /\ Rank(U, i) # Cardinality(S) + 1
  BY <1>1, RankGrows
<1>4. /\ Cardinality(T) \in Nat /\ Cardinality(V) = Cardinality(T) + 1
      /\ Rank(V, n + 1) = Cardinality(T) + 1
      /\ \A j \in T : Rank(V, j) = Rank(T, j) /\ Rank(V, j) # Cardinality(T) + 1
  BY <1>1, RankGrows
<1>5. Cardinality(S) = Cardinality(T)
  BY DEF SameEntries
<1>6. ASSUME NEW i \in U, NEW j \in V, Rank(U, i) = Rank(V, j)
      PROVE  Append(s, x)[i] = Append(t, x)[j]
  <2>1. CASE i \in S /\ j \in T
    BY <1>2, <1>3, <1>4, <1>6, <2>1 DEF SameEntries
  <2>2. CASE i = m + 1 /\ j = n + 1
    BY <1>2, <2>2
  <2>3. ~(i = m + 1 /\ j \in T) /\ ~(i \in S /\ j = n + 1)
    BY <1>3, <1>4, <1>5, <1>6
  <2> QED
    BY <2>1, <2>2, <2>3
<1> QED
  BY <1>3, <1>4, <1>5, <1>6 DEF SameEntries, m, n

\* A stored row is one event more at the head of the chain.
LEMMA StoredHead ==
  ASSUME ChainInv, NEW p \in Appender, CreateStored(p) \/ TxCommit(p)
  PROVE  HeadHash(rows') = Append(HeadHash(rows), appends[p].payload)
<1>1. PICK n \in Nat : ChainInvAt(n)
  BY DEF ChainInv
<1>2. /\ Linked(rows, n) /\ DOMAIN rows = 0..(n - 1) /\ appends[p] \in AppendRecord
      /\ AppenderRight(rows, p, appends[p], n) /\ HeadHash(rows) = HashBefore(rows, n)
  BY <1>1, NextOfLinked DEF ChainInvAt, Linked
<1>3. /\ appends[p].seq \in Nat /\ appends[p].payload \in Payload
      /\ appends[p].previousHash \in Seq(Payload)
  BY <1>2 DEF AppendRecord
<1>4. rows' = WithRow(rows, appends[p].seq,
                      ChainRow(appends[p].previousHash, appends[p].payload))
  BY DEF CreateStored, TxCommit
<1>5. appends[p].seq = n /\ appends[p].previousHash = HashBefore(rows, n)
  <2>1. CASE CreateStored(p)
    BY <1>2, <1>3, <2>1 DEF CreateStored, AppenderRight, HoldsRight, KeyTaken
  <2>2. CASE TxCommit(p)
    BY <1>2, <1>3, <2>2 DEF TxCommit, AppenderRight, HoldsRight
  <2> QED
    BY <2>1, <2>2
<1>6. /\ Linked(rows', n + 1)
      /\ HashBefore(rows', n + 1) = Append(HashBefore(rows, n), appends[p].payload)
  BY <1>2, <1>3, <1>4, <1>5, LinkedGrows
<1>7. HeadHash(rows') = HashBefore(rows', n + 1)
  BY <1>6, NextOfLinked
<1> QED
  BY <1>2, <1>6, <1>7

\* The head of the chain is a sequence of payloads.
LEMMA HeadType ==
  ASSUME ChainInv
  PROVE  HeadHash(rows) \in Seq(Payload) /\ appends \in [Appender -> AppendRecord]
<1>1. PICK n \in Nat : ChainInvAt(n)
  BY DEF ChainInv
<1>2. Linked(rows, n) /\ appends \in [Appender -> AppendRecord]
  BY <1>1 DEF ChainInvAt
<1>3. n \in 0..n
  OBVIOUS
<1> QED
  BY <1>2, <1>3, NextOfLinked, HashBeforeType

\* What an append carries: in a transaction the transition of its request, from
\* the engine an event of the system.
PayloadsRight ==
  /\ \A v \in Human : req[v].pc = "locked" =>
       appends[v].payload = Transition(v, req[v].from, req[v].to)
  /\ \A p \in Appender \ InTx : appends[p].pc # "idle" => appends[p].payload = SystemEvent

\* The inductive invariant behind LineageMatchesAudit.
LineageInv == RowInv /\ ChainInv /\ PayloadsRight /\ LineageMatchesAudit

\* A step of an append that starts none keeps every payload.
LEMMA PayloadKept ==
  ASSUME ChainInv, NEW p \in Appender, ChainStep(p)
  PROVE  /\ \A q \in Appender : appends'[q].payload = appends[q].payload
         /\ \A q \in Appender : appends'[q].pc # "idle" => appends[q].pc # "idle"
<1>1. appends \in [Appender -> AppendRecord] /\ appends[p] \in AppendRecord
  BY HeadType
<1>2. /\ Retried(appends[p]).payload = appends[p].payload
  BY <1>1 DEF Retried, AppendRecord
<1>3. appends[p].pc # "idle"
  BY DEF ChainStep, FindLast, CreateStored, CreateRefused, TxCreate, TxCreateRefused,
         TxCommit, TxRollback
<1>4. /\ \A q \in Appender \ {p} : appends'[q] = appends[q]
      /\ appends'[p].payload = appends[p].payload
  <2>1. CASE CreateStored(p) \/ CreateRefused(p)
    BY <1>1, <1>2, <2>1 DEF CreateStored, CreateRefused, AppendRecord
  <2>2. CASE FindLast(p)
    BY <1>1, <2>2 DEF FindLast, AppendRecord
  <2>3. CASE TxCreate(p) \/ TxCreateRefused(p) \/ TxCommit(p) \/ TxRollback(p)
    BY <1>1, <2>3 DEF TxCreate, TxCreateRefused, TxCommit, TxRollback, AppendRecord
  <2> QED
    BY <2>1, <2>2, <2>3 DEF ChainStep
<1> QED
  BY <1>3, <1>4

\* One event more in the chain, one entry more in the log.
LEMMA ActionsGrow ==
  ASSUME LineageInv
  PROVE  /\ \A e \in Payload : HeadHash(rows') = Append(HeadHash(rows), e) =>
              ChainActions' = IF e = SystemEvent THEN ChainActions
                              ELSE ChainActions \cup {Len(HeadHash(rows)) + 1}
         /\ \A t \in LogEntry : auditLog' = Append(auditLog, t) =>
              LogActions' = IF t.by \in Human THEN LogActions \cup {Len(auditLog) + 1}
                            ELSE LogActions
<1>1. ASSUME NEW e \in Payload, HeadHash(rows') = Append(HeadHash(rows), e)
      PROVE  ChainActions' = IF e = SystemEvent THEN ChainActions
                             ELSE ChainActions \cup {Len(HeadHash(rows)) + 1}
  <2> DEFINE h == HeadHash(rows)
             g == HeadHash(rows')
  <2>1. h \in Seq(Payload)
    BY HeadType DEF LineageInv
  <2>2. ChainActions' = {i \in DOMAIN g : g[i] # SystemEvent}
        /\ ChainActions = {i \in DOMAIN h : h[i] # SystemEvent} /\ g = Append(h, e)
    BY <1>1 DEF ChainActions
  <2> HIDE DEF h, g
  <2>3. /\ DOMAIN g = 1..(Len(h) + 1) /\ DOMAIN h = 1..Len(h) /\ Len(h) \in Nat
        /\ g[Len(h) + 1] = e /\ \A i \in 1..Len(h) : g[i] = h[i]
    BY <2>1, <2>2, LenProperties
  <2>4. \A i : i \in DOMAIN g <=> i \in DOMAIN h \/ i = Len(h) + 1
    BY <2>3
  <2>5. Len(h) + 1 \notin DOMAIN h
    BY <2>3
  <2>6. ChainActions' = IF e = SystemEvent THEN ChainActions ELSE ChainActions \cup {Len(h) + 1}
    BY <2>2, <2>3, <2>4, <2>5
  <2> QED
    BY <2>6 DEF h
<1>2. ASSUME NEW t \in LogEntry, auditLog' = Append(auditLog, t)
      PROVE  LogActions' = IF t.by \in Human THEN LogActions \cup {Len(auditLog) + 1}
                           ELSE LogActions
  <2>1. auditLog \in Seq(LogEntry)
    BY DEF LineageInv, RowInv, RowTypes
  <2>3. /\ DOMAIN auditLog' = 1..(Len(auditLog) + 1) /\ DOMAIN auditLog = 1..Len(auditLog)
        /\ Len(auditLog) \in Nat /\ auditLog'[Len(auditLog) + 1] = t
        /\ \A i \in 1..Len(auditLog) : auditLog'[i] = auditLog[i]
    BY <1>2, <2>1, LenProperties
  <2>4. \A i : i \in DOMAIN auditLog' <=> i \in DOMAIN auditLog \/ i = Len(auditLog) + 1
    BY <2>3
  <2>5. Len(auditLog) + 1 \notin DOMAIN auditLog
    BY <2>3
  <2> QED
    BY <2>3, <2>4, <2>5 DEF LogActions
<1> QED
  BY <1>1, <1>2

\* The two records as the lemmas about entries take them.
LEMMA RecordTypes ==
  ASSUME LineageInv
  PROVE  /\ HeadHash(rows) \in Seq(Payload) /\ ChainActions \in SUBSET DOMAIN HeadHash(rows)
         /\ auditLog \in Seq(LogEntry) /\ LogActions \in SUBSET DOMAIN auditLog
         /\ SameEntries(HeadHash(rows), ChainActions, auditLog, LogActions)
<1>1. HeadHash(rows) \in Seq(Payload)
  BY HeadType DEF LineageInv
<1>2. ChainActions \in SUBSET DOMAIN HeadHash(rows) /\ LogActions \in SUBSET DOMAIN auditLog
  BY DEF ChainActions, LogActions
<1> QED
  BY <1>1, <1>2 DEF LineageInv, LineageMatchesAudit, RowInv, RowTypes

\* Steps that change neither record.
LEMMA RecordsAlone ==
  ASSUME LineageInv, UNCHANGED <<rows, auditLog>>
  PROVE  LineageMatchesAudit'
  BY DEF LineageInv, LineageMatchesAudit, ChainActions, LogActions

\* A human's transition commits with its event.
LEMMA HumanCommits ==
  ASSUME LineageInv, NEW v \in Requester, CommitHuman(v)
  PROVE  LineageMatchesAudit'
<1> DEFINE t == Transition(v, req[v].from, req[v].to)
<1>1. v \in Human /\ v \in Appender /\ req[v].pc = "locked" /\ TxCommit(v)
      /\ auditLog' = Append(auditLog, t)
  BY AuditChainAssumption DEF CommitHuman, Committed, Human
<1>2. appends[v].payload = t
  BY <1>1 DEF LineageInv, PayloadsRight
<1>3. t \in LogEntry /\ t.by = v /\ t.from \in WorkflowState
  <2>1. req[v].from \in WorkflowState /\ req[v].to \in WorkflowState
    BY DEF LineageInv, RowInv, RowTypes, Request
  <2> QED
    BY <2>1 DEF Transition, LogEntry
<1>4. t # SystemEvent
  <2>1. SystemEvent.from = "-" /\ "-" \notin WorkflowState
    BY DEF SystemEvent, WorkflowState
  <2> QED
    BY <1>3, <2>1
<1> HIDE DEF t
<1>5. t \in Payload
  <2>1. appends[v] \in AppendRecord
    BY <1>1, HeadType DEF LineageInv
  <2> QED
    BY <1>2, <2>1 DEF AppendRecord
<1>6. HeadHash(rows') = Append(HeadHash(rows), t)
  BY <1>1, <1>2, StoredHead DEF LineageInv
<1>7. /\ ChainActions' = ChainActions \cup {Len(HeadHash(rows)) + 1}
      /\ LogActions' = LogActions \cup {Len(auditLog) + 1}
  BY <1>1, <1>3, <1>4, <1>5, <1>6, ActionsGrow
<1>8. SameEntries(Append(HeadHash(rows), t), ChainActions \cup {Len(HeadHash(rows)) + 1},
                  Append(auditLog, t), LogActions \cup {Len(auditLog) + 1})
  BY RecordTypes, ChosenEntry
<1> QED
  BY <1>1, <1>6, <1>7, <1>8 DEF LineageMatchesAudit

\* An AI's transition commits without one.
LEMMA AICommits ==
  ASSUME LineageInv, NEW v \in Requester, CommitAI(v)
  PROVE  LineageMatchesAudit'
<1> DEFINE t == Transition(v, req[v].from, req[v].to)
<1>1. v \notin Human /\ UNCHANGED rows /\ auditLog' = Append(auditLog, t)
  BY WorkflowAssumption, AuditChainAssumption DEF CommitAI, Committed, Human
<1>2. t \in LogEntry /\ t.by = v
  <2>1. req[v].from \in WorkflowState /\ req[v].to \in WorkflowState
    BY DEF LineageInv, RowInv, RowTypes, Request
  <2> QED
    BY <2>1 DEF Transition, LogEntry
<1> HIDE DEF t
<1>3. LogActions' = LogActions
  BY <1>1, <1>2, ActionsGrow
<1>4. SameEntries(HeadHash(rows), ChainActions, Append(auditLog, t), LogActions)
  BY RecordTypes, UnchosenEntry
<1> QED
  BY <1>1, <1>3, <1>4 DEF LineageMatchesAudit, ChainActions

\* A statement of an append that stays inside appendAuditEvent.
LEMMA StatementKeepsLineage ==
  ASSUME LineageInv, NEW p \in Appender, AppendStep(p)
  PROVE  LineageMatchesAudit'
<1>1. CASE CreateStored(p)
  <2>1. p \notin InTx /\ appends[p].pc = "read"
    BY <1>1 DEF CreateStored
  <2>2. appends[p].payload = SystemEvent
    BY <2>1 DEF LineageInv, PayloadsRight
  <2>3. SystemEvent \in Payload
    BY PayloadAssumption DEF WorkflowPayload
  <2>4. HeadHash(rows') = Append(HeadHash(rows), SystemEvent)
    BY <1>1, <2>2, StoredHead DEF LineageInv
  <2>5. ChainActions' = ChainActions
    BY <2>3, <2>4, ActionsGrow
  <2>6. SameEntries(Append(HeadHash(rows), SystemEvent), ChainActions, auditLog, LogActions)
    BY RecordTypes, UnchosenEntry
  <2>7. auditLog' = auditLog
    BY DEF AppendStep
  <2> QED
    BY <2>4, <2>5, <2>6, <2>7 DEF LineageMatchesAudit, LogActions
<1>2. CASE ~CreateStored(p)
  <2>1. UNCHANGED <<rows, auditLog>>
    BY <1>2 DEF AppendStep, FindLast, CreateRefused, TxCreate
  <2> QED
    BY <2>1, RecordsAlone
<1> QED
  BY <1>1, <1>2

\* Every step keeps what appends carry.
LEMMA PayloadsStep ==
  ASSUME LineageInv, [WorkflowNext]_workflowVars
  PROVE  PayloadsRight'
<1>0. /\ appends \in [Appender -> AppendRecord] /\ req \in [Requester -> Request]
      /\ \A v \in Human : v \in Appender /\ v \in InTx /\ v \in Requester
  BY HeadType, AuditChainAssumption DEF LineageInv, RowInv, RowTypes, Human, Requester
<1>a. NoRequest.pc = "idle"
  BY DEF NoRequest
<1>b. ASSUME UNCHANGED appends, NEW v \in Requester, NEW r \in Request, r.pc # "locked",
             req' = [req EXCEPT ![v] = r]
      PROVE  PayloadsRight'
  BY <1>0, <1>b DEF LineageInv, PayloadsRight
<1>c. ASSUME NEW p \in Appender, ChainStep(p),
             \/ UNCHANGED req
             \/ \E v \in Requester : req' = [req EXCEPT ![v] = NoRequest]
      PROVE  PayloadsRight'
  <2>1. /\ \A q \in Appender : appends'[q].payload = appends[q].payload
        /\ \A q \in Appender : appends'[q].pc # "idle" => appends[q].pc # "idle"
    BY <1>c, PayloadKept DEF LineageInv
  <2>2. \A v \in Human : req'[v].pc = "locked" => req'[v] = req[v]
    BY <1>0, <1>a, <1>c
  <2> QED
    BY <1>0, <2>1, <2>2 DEF LineageInv, PayloadsRight
<1>d. NoRequest \in Request
  BY DEF NoRequest, Request, WorkflowState
<1>1. ASSUME NEW v \in Requester, NEW to \in TargetsOf[v], ReadStatus(v, to)
      PROVE  PayloadsRight'
  <2> DEFINE r == [pc |-> "checked", from |-> exc.status, to |-> to]
  <2>1. r.pc = "checked" /\ req' = [req EXCEPT ![v] = r] /\ UNCHANGED appends
    BY <1>1 DEF ReadStatus
  <2> HIDE DEF r
  <2>2. \A w \in Human : req'[w].pc = "locked" => req'[w] = req[w]
    BY <1>0, <2>1
  <2> QED
    BY <1>0, <2>1, <2>2 DEF LineageInv, PayloadsRight
<1>2. ASSUME NEW v \in Requester, CompareAndSwap(v)
      PROVE  PayloadsRight'
  <2>1. /\ req'[v].from = req[v].from /\ req'[v].to = req[v].to
        /\ \A w \in Requester \ {v} : req'[w] = req[w]
    BY <1>0, <1>2 DEF CompareAndSwap, Request
  <2>2. CASE v \in Human
    <3> DEFINE e == Transition(v, req[v].from, req[v].to)
    <3>1. appends' = [appends EXCEPT ![v] = [Idle(e) EXCEPT !.pc = "start"]]
      BY <1>2, <2>2 DEF CompareAndSwap, BeginAppend
    <3>2. [Idle(e) EXCEPT !.pc = "start"].payload = e
      BY DEF Idle
    <3>3. appends'[v].payload = e /\ \A q \in Appender \ {v} : appends'[q] = appends[q]
      BY <1>0, <2>2, <3>1, <3>2
    <3> QED
      BY <1>0, <2>1, <2>2, <3>3 DEF LineageInv, PayloadsRight
  <2>3. CASE v \notin Human
    <3>1. UNCHANGED appends
      BY <1>2, <2>3 DEF CompareAndSwap
    <3>2. \A w \in Human : req'[w] = req[w]
      BY <1>0, <2>1, <2>3
    <3> QED
      BY <3>1, <3>2 DEF LineageInv, PayloadsRight
  <2> QED
    BY <2>2, <2>3
<1>3. ASSUME NEW v \in Requester, Conflict(v)
      PROVE  PayloadsRight'
  BY <1>3, <1>a, <1>b, <1>d DEF Conflict
<1>4. ASSUME NEW v \in Requester, CommitHuman(v) \/ RollBack(v)
      PROVE  PayloadsRight'
  <2>1. v \in Appender /\ ChainStep(v) /\ req' = [req EXCEPT ![v] = NoRequest]
    BY <1>0, <1>4 DEF CommitHuman, RollBack, Committed, ChainStep
  <2> QED
    BY <1>c, <2>1
<1>5. ASSUME NEW v \in Requester, CommitAI(v)
      PROVE  PayloadsRight'
  BY <1>5, <1>a, <1>b, <1>d DEF CommitAI, Committed
<1>6. ASSUME NEW p \in Appender, AppendStep(p)
      PROVE  PayloadsRight'
  <2>1. ChainStep(p) /\ UNCHANGED req
    BY <1>6 DEF AppendStep, ChainStep
  <2> QED
    BY <1>c, <2>1
<1>7. ASSUME NEW p \in Appender, EngineAppends(p)
      PROVE  PayloadsRight'
  <2>1. /\ appends' = [appends EXCEPT ![p] = [Idle(SystemEvent) EXCEPT !.pc = "start"]]
        /\ p \notin InTx /\ UNCHANGED req
    BY <1>7 DEF EngineAppends, BeginAppend
  <2>2. [Idle(SystemEvent) EXCEPT !.pc = "start"].payload = SystemEvent
    BY DEF Idle
  <2>3. appends'[p].payload = SystemEvent /\ \A q \in Appender \ {p} : appends'[q] = appends[q]
    BY <1>0, <2>1, <2>2
  <2> QED
    BY <1>0, <2>1, <2>3 DEF LineageInv, PayloadsRight
<1>8. CASE EngineDeletes \/ UNCHANGED workflowVars
  BY <1>8 DEF EngineDeletes, workflowVars, LineageInv, PayloadsRight
<1> QED
  BY <1>1, <1>2, <1>3, <1>4, <1>5, <1>6, <1>7, <1>8 DEF WorkflowNext

\* The human actions in the tamper-evident chain are those of the audit log, in
\* the same order, although the engine appends to the same chain meanwhile and
\* appends are refused, rolled back and retried (transitionException, which
\* passes its transaction to appendAuditEvent).
THEOREM WorkflowLineage == WorkflowSpec => []LineageMatchesAudit
<1>1. ASSUME WorkflowInit PROVE LineageInv
  <2>1. RowInv /\ ChainInv
    BY <1>1, RowInvInit, ChainInvInit DEF WorkflowInit
  <2>2. PayloadsRight
    <3>1. \A v \in Human : req[v].pc = "idle"
      BY <1>1 DEF WorkflowInit, NoRequest, Requester
    <3>2. \A p \in Appender : appends[p].pc = "idle"
      BY <1>1 DEF WorkflowInit, ChainInit, Idle
    <3> QED
      BY <3>1, <3>2 DEF PayloadsRight
  <2>3. HeadHash(rows) = << >> /\ auditLog = << >>
    BY <1>1 DEF WorkflowInit, ChainInit, HeadHash, GENESIS_HASH
  <2>4. ChainActions = {} /\ LogActions = {}
    BY <2>3 DEF ChainActions, LogActions
  <2>5. LineageMatchesAudit
    BY <2>4 DEF LineageMatchesAudit, SameEntries
  <2> QED
    BY <2>1, <2>2, <2>5 DEF LineageInv
<1>2. ASSUME LineageInv, [WorkflowNext]_workflowVars PROVE LineageInv'
  <2>1. RowInv' /\ [ChainNext]_chainVars
    BY <1>2, WorkflowStep DEF LineageInv
  <2>2. ChainInv'
    BY <1>2, <2>1, ChainInvStep DEF LineageInv
  <2>3. PayloadsRight'
    BY <1>2, PayloadsStep
  <2>4. LineageMatchesAudit'
    <3>1. ASSUME NEW v \in Requester, NEW to \in TargetsOf[v], ReadStatus(v, to)
          PROVE  LineageMatchesAudit'
      BY <1>2, <3>1, RecordsAlone DEF ReadStatus
    <3>2. ASSUME NEW v \in Requester, CompareAndSwap(v) \/ Conflict(v) \/ RollBack(v)
          PROVE  LineageMatchesAudit'
      BY <1>2, <3>2, RecordsAlone
      DEF CompareAndSwap, BeginAppend, Conflict, RollBack, TxCreateRefused, TxRollback
    <3>3. ASSUME NEW v \in Requester, CommitHuman(v) \/ CommitAI(v)
          PROVE  LineageMatchesAudit'
      BY <1>2, <3>3, HumanCommits, AICommits
    <3>4. ASSUME NEW p \in Appender, AppendStep(p) \/ EngineAppends(p)
          PROVE  LineageMatchesAudit'
      BY <1>2, <3>4, StatementKeepsLineage, RecordsAlone DEF EngineAppends, BeginAppend
    <3>5. CASE EngineDeletes \/ UNCHANGED workflowVars
      BY <1>2, <3>5, RecordsAlone DEF EngineDeletes, workflowVars
    <3> QED
      BY <1>2, <3>1, <3>2, <3>3, <3>4, <3>5 DEF WorkflowNext
  <2> QED
    BY <2>1, <2>2, <2>3, <2>4 DEF LineageInv
<1>3. LineageInv => LineageMatchesAudit
  BY DEF LineageInv
<1> QED
  BY <1>1, <1>2, <1>3, PTL DEF WorkflowSpec

-----------------------------------------------------------------------------
(* Corrections *)

Decided == {"APPROVED", "REJECTED"}

Reviewing ==
  [pc : {"idle", "approving", "rejecting"}, copy : CorrectionRecord,
   expects : RecordVersion \cup {AnyVersion}]

\* The proof of a record holds, and an approved record has one.
Sound(c) ==
  /\ c.verified => c.lines \in {c.imbalance, 0 - c.imbalance}
  /\ c.status = "APPROVED" => c.verified

\* The lock has one holder, the one approval under way.
LockExact ==
  \A v, w \in Reviewer :
    review[v].pc = "approving" => v \in activeLocks /\ (w \in activeLocks => v = w)

\* While something undecided can still be approved, a proposal is left for it.
ProposalLeft ==
  /\ approvals <= proposals
  /\ correction.status \notin Decided \cup {"ABSENT"} => approvals < proposals
  /\ \A v \in Reviewer :
       review[v].pc = "approving" /\ review[v].copy.status \notin Decided
         => approvals < proposals

AllSound == Sound(correction) /\ \A v \in Reviewer : Sound(review[v].copy)

\* The inductive invariant.
CorrectionInv == CorrectionTypeOK /\ LockExact /\ ProposalLeft /\ AllSound

-----------------------------------------------------------------------------

\* The prover's verdict: the lines are as large as the imbalance.
LEMMA VerifiedBalances ==
  ASSUME NEW d \in Nat, NEW c \in Nat, NEW diff \in Nat, Verified(d, c, diff)
  PROVE  diff \in {c - d, 0 - (c - d)}
  BY DEF Verified, AfterState

LEMMA NothingYet ==
  NoCorrection \in CorrectionRecord /\ NoReview \in Reviewing /\ Sound(NoCorrection)
<1>1. (CHOOSE n \in RecordVersion : TRUE) \in RecordVersion
  BY CorrectionAssumption
<1>2. NoCorrection \in CorrectionRecord
  BY <1>1 DEF NoCorrection, CorrectionRecord, CorrectionStatus
<1>3. NoReview \in Reviewing
  BY <1>2 DEF NoReview, Reviewing
<1> QED
  BY <1>2, <1>3 DEF Sound, NoCorrection

LEMMA CorrectionInvInit ==
  ASSUME CorrectionInit
  PROVE  CorrectionInv
<1>1. CorrectionTypeOK
  BY NothingYet, CorrectionAssumption DEF CorrectionInit, CorrectionTypeOK, Reviewing
<1>2. LockExact
  BY DEF CorrectionInit, LockExact, NoReview
<1>3. ProposalLeft
  BY DEF CorrectionInit, ProposalLeft, NoReview, NoCorrection
<1>4. AllSound
  BY NothingYet DEF CorrectionInit, AllSound, NoReview
<1> QED
  BY <1>1, <1>2, <1>3, <1>4 DEF CorrectionInv

\* The correction is proposed, for the first time or again.
LEMMA ProposeKeeps ==
  ASSUME CorrectionInv, NEW d \in Amount, NEW c \in Amount, NEW diff \in Amount,
         NEW n \in RecordVersion, Propose(d, c, diff, n)
  PROVE  CorrectionInv'
<1>a. d \in Nat /\ c \in Nat /\ diff \in Nat /\ c - d \in Int
  BY CorrectionAssumption
<1>b. proposals \in Nat /\ approvals \in Nat /\ proposals' = proposals + 1
      /\ proposals' \in 0..MaxProposals /\ UNCHANGED <<activeLocks, review, approvals>>
  BY CorrectionAssumption DEF CorrectionInv, CorrectionTypeOK, Propose
<1>c. /\ correction'.status = "AWAITING_REVIEW" /\ correction'.lines = diff
      /\ correction'.imbalance = c - d /\ correction'.verified = Verified(d, c, diff)
  BY DEF Propose
<1>d. Verified(d, c, diff) \in BOOLEAN
  BY DEF Verified
<1>1. CorrectionTypeOK'
  <2>1. correction' \in CorrectionRecord
    BY <1>a, <1>d DEF Propose, CorrectionRecord, CorrectionStatus
  <2> QED
    BY <1>b, <2>1 DEF CorrectionInv, CorrectionTypeOK
<1>2. LockExact'
  BY <1>b DEF CorrectionInv, LockExact
<1>3. ProposalLeft'
  BY <1>b DEF CorrectionInv, ProposalLeft
<1>4. AllSound'
  <2>1. Sound(correction')
    BY <1>a, <1>c, VerifiedBalances DEF Sound
  <2> QED
    BY <1>b, <2>1 DEF CorrectionInv, AllSound
<1> QED
  BY <1>1, <1>2, <1>3, <1>4 DEF CorrectionInv

\* A review begins with a copy of the stored record.
LEMMA BeginKeeps ==
  ASSUME CorrectionInv, NEW v \in Reviewer, NEW r \in Reviewing,
         review[v].pc = "idle", r.copy = correction, correction.status # "ABSENT",
         review' = [review EXCEPT ![v] = r],
         UNCHANGED <<correction, proposals, approvals>>,
         \/ r.pc = "approving" /\ LockFree /\ activeLocks' = activeLocks \cup {v}
         \/ r.pc = "rejecting" /\ UNCHANGED activeLocks
  PROVE  CorrectionInv'
<1>a. \A w \in Reviewer : review'[w] = IF w = v THEN r ELSE review[w]
  BY DEF CorrectionInv, CorrectionTypeOK
<1>1. CorrectionTypeOK'
  BY DEF CorrectionInv, CorrectionTypeOK, Reviewing
<1>2. LockExact'
  BY <1>a DEF CorrectionInv, LockExact, LockFree
<1>3. ProposalLeft'
  BY <1>a DEF CorrectionInv, ProposalLeft
<1>4. AllSound'
  BY <1>a DEF CorrectionInv, AllSound
<1> QED
  BY <1>1, <1>2, <1>3, <1>4 DEF CorrectionInv

\* What approveCorrection decides is a status, and APPROVED only with a proof.
LEMMA OutcomeFacts ==
  ASSUME NEW copy, NEW expects
  PROVE  /\ ApprovalOutcome(copy, expects) \in {"STALE", "FAILED", "APPROVED"}
         /\ ApprovalOutcome(copy, expects) = "APPROVED" => copy.verified
  BY DEF ApprovalOutcome

LEMMA ApproveEndKeeps ==
  ASSUME CorrectionInv, NEW v \in Reviewer, ApproveEnd(v)
  PROVE  CorrectionInv'
<1> DEFINE copy == review[v].copy
           outcome == ApprovalOutcome(copy, review[v].expects)
<1>a. /\ review[v].pc = "approving" /\ review[v] \in Reviewing /\ copy \in CorrectionRecord
      /\ proposals \in Nat /\ approvals \in Nat /\ UNCHANGED proposals
      /\ activeLocks' = activeLocks \ {v} /\ review' = [review EXCEPT ![v] = NoReview]
  BY CorrectionAssumption DEF CorrectionInv, CorrectionTypeOK, Reviewing, ApproveEnd
<1>b. /\ NoReview.pc = "idle" /\ NoReview.copy = NoCorrection
      /\ \A w \in Reviewer : review'[w] = IF w = v THEN NoReview ELSE review[w]
      /\ review' \in [Reviewer -> Reviewing]
  BY <1>a, NothingYet DEF CorrectionInv, CorrectionTypeOK, NoReview, Reviewing
<1>c. \A w \in Reviewer : review'[w].pc # "approving"
  <2>1. \A w \in Reviewer : review[w].pc = "approving" => w = v
    BY <1>a DEF CorrectionInv, LockExact
  <2> QED
    BY <1>b, <2>1
<1>1. LockExact'
  BY <1>c DEF LockExact
<1>2. CASE copy.status \in Decided
  <2>1. UNCHANGED <<correction, approvals>>
    BY <1>2 DEF ApproveEnd, Decided
  <2>2. CorrectionTypeOK'
    BY <1>a, <1>b, <2>1 DEF CorrectionInv, CorrectionTypeOK, Reviewing
  <2>3. ProposalLeft'
    BY <1>a, <1>c, <2>1 DEF CorrectionInv, ProposalLeft
  <2>4. AllSound'
    BY <1>b, <2>1, NothingYet DEF CorrectionInv, AllSound
  <2> QED
    BY <1>1, <2>2, <2>3, <2>4 DEF CorrectionInv
<1>3. CASE copy.status \notin Decided
  <2>1. /\ correction' = [copy EXCEPT !.status = outcome]
        /\ approvals' = approvals + IF outcome = "APPROVED" THEN 1 ELSE 0
    BY <1>3 DEF ApproveEnd, Decided
  <2>2. outcome \in {"STALE", "FAILED", "APPROVED"} /\ (outcome = "APPROVED" => copy.verified)
    BY OutcomeFacts
  <2>3. /\ correction' \in CorrectionRecord /\ correction'.status = outcome
        /\ correction'.verified = copy.verified /\ correction'.lines = copy.lines
        /\ correction'.imbalance = copy.imbalance
    <3>1. outcome \in CorrectionStatus
      BY <2>2 DEF CorrectionStatus
    <3> QED
      BY <1>a, <2>1, <3>1 DEF CorrectionRecord
  <2>4. approvals < proposals
    BY <1>3, <1>a DEF CorrectionInv, ProposalLeft
  <2>5. CorrectionTypeOK'
    BY <1>a, <1>b, <2>1, <2>3 DEF CorrectionInv, CorrectionTypeOK, Reviewing
  <2>6. ProposalLeft'
    BY <1>a, <1>c, <2>1, <2>2, <2>3, <2>4 DEF ProposalLeft, Decided
  <2>7. Sound(correction')
    BY <2>2, <2>3 DEF CorrectionInv, AllSound, Sound
  <2>8. AllSound'
    BY <1>b, <2>7, NothingYet DEF CorrectionInv, AllSound
  <2> QED
    BY <1>1, <2>5, <2>6, <2>8 DEF CorrectionInv
<1> QED
  BY <1>2, <1>3

LEMMA RejectEndKeeps ==
  ASSUME CorrectionInv, NEW v \in Reviewer, RejectEnd(v)
  PROVE  CorrectionInv'
<1> DEFINE copy == review[v].copy
<1>a. /\ review[v].pc = "rejecting" /\ copy \in CorrectionRecord
      /\ UNCHANGED <<activeLocks, proposals, approvals>>
      /\ review' = [review EXCEPT ![v] = NoReview]
  BY DEF CorrectionInv, CorrectionTypeOK, RejectEnd
<1>b. /\ NoReview.pc = "idle" /\ NoReview.copy = NoCorrection
      /\ \A w \in Reviewer : review'[w] = IF w = v THEN NoReview ELSE review[w]
      /\ review' \in [Reviewer -> Reviewing]
  BY <1>a, NothingYet DEF CorrectionInv, CorrectionTypeOK, NoReview, Reviewing
<1>c. \/ correction' = correction
      \/ /\ correction' \in CorrectionRecord /\ correction'.status = "REJECTED"
         /\ correction'.verified = copy.verified /\ correction'.lines = copy.lines
         /\ correction'.imbalance = copy.imbalance
  BY <1>a DEF RejectEnd, CorrectionRecord, CorrectionStatus
<1>1. CorrectionTypeOK'
  BY <1>a, <1>b, <1>c DEF CorrectionInv, CorrectionTypeOK, Reviewing
<1>2. LockExact'
  BY <1>a, <1>b DEF CorrectionInv, LockExact
<1>3. ProposalLeft'
  BY <1>a, <1>b, <1>c DEF CorrectionInv, ProposalLeft, Decided
<1>4. AllSound'
  <2>1. Sound(correction')
    BY <1>c DEF CorrectionInv, AllSound, Sound
  <2> QED
    BY <1>b, <2>1, NothingYet DEF CorrectionInv, AllSound
<1> QED
  BY <1>1, <1>2, <1>3, <1>4 DEF CorrectionInv

LEMMA CorrectionInvStep ==
  ASSUME CorrectionInv, [CorrectionNext]_correctionVars
  PROVE  CorrectionInv'
<1>1. ASSUME NEW v \in Reviewer, NEW n \in RecordVersion \cup {AnyVersion}, ApproveBegin(v, n)
      PROVE  CorrectionInv'
  <2> DEFINE r == [pc |-> "approving", copy |-> correction, expects |-> n]
  <2>1. r \in Reviewing /\ r.copy = correction /\ r.pc = "approving"
    BY DEF CorrectionInv, CorrectionTypeOK, Reviewing
  <2> QED
    BY <1>1, <2>1, BeginKeeps DEF ApproveBegin
<1>2. ASSUME NEW v \in Reviewer, RejectBegin(v)
      PROVE  CorrectionInv'
  <2> DEFINE r == [pc |-> "rejecting", copy |-> correction, expects |-> AnyVersion]
  <2>1. r \in Reviewing /\ r.copy = correction /\ r.pc = "rejecting"
    BY DEF CorrectionInv, CorrectionTypeOK, Reviewing
  <2> QED
    BY <1>2, <2>1, BeginKeeps DEF RejectBegin
<1>3. CASE UNCHANGED correctionVars
  BY <1>3 DEF correctionVars, CorrectionInv, CorrectionTypeOK, LockExact, ProposalLeft,
              AllSound, Sound
<1> QED
  BY <1>1, <1>2, <1>3, ProposeKeeps, ApproveEndKeeps, RejectEndKeeps DEF CorrectionNext

LEMMA CorrectionAlways == CorrectionSpec => []CorrectionInv
<1>1. CorrectionInit => CorrectionInv
  BY CorrectionInvInit
<1>2. CorrectionInv /\ [CorrectionNext]_correctionVars => CorrectionInv'
  BY CorrectionInvStep
<1> QED
  BY <1>1, <1>2, PTL DEF CorrectionSpec

\* However approvals, rejections and repeated proposals interleave, the ledger
\* holds no more CORRECTION_APPROVED entries than the correction was proposed.
LEMMA CorrectionApprovedOnce == CorrectionSpec => []ApprovedOncePerProposal
<1>1. CorrectionInv => ApprovedOncePerProposal
  BY DEF CorrectionInv, ProposalLeft, ApprovedOncePerProposal
<1> QED
  BY <1>1, CorrectionAlways, PTL

\* The lines of an approved correction are as large as the imbalance they were
\* proposed for, whatever amounts the proposal was posted with.
LEMMA CorrectionBalances == CorrectionSpec => []ApprovedBalances
<1>1. CorrectionInv => ApprovedBalances
  BY DEF CorrectionInv, AllSound, Sound, ApprovedBalances
<1> QED
  BY <1>1, CorrectionAlways, PTL

\* However approvals, rejections and repeated proposals interleave, a correction is
\* posted to the ledger at most once per proposal, and the lines of an approved one
\* are as large as the imbalance they were proposed for.
THEOREM CorrectionApprovals == CorrectionSpec => []ApprovalsSound
<1>1. ApprovedOncePerProposal /\ ApprovedBalances => ApprovalsSound
  BY DEF ApprovalsSound
<1> QED
  BY <1>1, CorrectionApprovedOnce, CorrectionBalances, PTL

-----------------------------------------------------------------------------
(* Policies.  A rollback is a draft, a replay, an approval and an activation *)
(* in one step, so the invariant is a predicate of the versions, the active  *)
(* one and the versions with a report, and each write is shown to keep it.   *)

PolicyRecord(K) ==
  [status : PolicyStatus, createdBy : Person \cup {"SYSTEM"},
   approvedBy : Person \cup {Override, "CRO", NoOne}, parentVersion : K \cup {<< >>}]

InForce == {"ACTIVE", "SUPERSEDED"}

\* The names versions are put together from.
Name == DraftName \cup {Default}

\* A version has an approver from APPROVED on, and then a report and a recorded
\* author other than the approver, who is a person if the version is a draft's and
\* not a rollback's, which has two names or more; its parent is, or was, in force.
Sane(ps, active, reported, v) ==
  /\ v \in Seq(Name) /\ v # << >>
  /\ (ps[v].approvedBy = NoOne) = (ps[v].status \in {"DRAFT", "SHADOW"})
  /\ (ps[v].status = "ACTIVE") = (v = active)
  /\ v # <<Default>> =>
       /\ ps[v].parentVersion \in DOMAIN ps
       /\ ps[ps[v].parentVersion].status \in InForce
       /\ v = active => ps[ps[v].parentVersion].status = "SUPERSEDED"
       /\ ps[v].status \notin {"DRAFT", "SHADOW"} =>
            /\ ps[v].approvedBy # ps[v].createdBy /\ v \in reported
            /\ Len(v) = 1 => ps[v].approvedBy \in Person

PolicySound(ps, active, reported) ==
  /\ IsFiniteSet(DOMAIN ps) /\ Cardinality(DOMAIN ps) <= MaxPolicies
  /\ <<Default>> \in DOMAIN ps /\ active \in DOMAIN ps
  /\ ps \in [DOMAIN ps -> PolicyRecord(DOMAIN ps)]
  /\ reported \subseteq DOMAIN ps
  /\ \A v \in DOMAIN ps : Sane(ps, active, reported, v)

\* The inductive invariant.
PolicyInv == PolicySound(policies, activeVersion, DOMAIN reports)

LEMMA PolicyInvInit == PolicyInit => PolicyInv
<1> SUFFICES ASSUME PolicyInit PROVE PolicyInv
  OBVIOUS
<1>1. policies = [v \in {<<Default>>} |->
        [status |-> "ACTIVE", createdBy |-> "SYSTEM", approvedBy |-> "CRO",
         parentVersion |-> << >>]]
  BY DEF PolicyInit
<1>2. DOMAIN reports = {} /\ activeVersion = <<Default>>
  BY DEF PolicyInit
<1>3. IsFiniteSet(DOMAIN policies) /\ Cardinality(DOMAIN policies) = 1
  BY <1>1, FS_Singleton
<1>4. policies \in [DOMAIN policies -> PolicyRecord(DOMAIN policies)]
  BY <1>1 DEF PolicyRecord, PolicyStatus
<1>5. "CRO" # NoOne
  BY DEF NoOne
<1>6. Sane(policies, activeVersion, DOMAIN reports, <<Default>>)
  <2>1. <<Default>> \in Seq(Name) /\ <<Default>> # << >>
    BY DEF Name
  <2> QED
    BY <1>1, <1>2, <1>5, <2>1 DEF Sane
<1> QED
  BY <1>1, <1>2, <1>3, <1>4, <1>6, PolicyAssumption DEF PolicyInv, PolicySound

\* createDraftPolicy: one more version, a child of the active one.
LEMMA DraftKeeps ==
  ASSUME PolicyInv, NEW v \in Seq(Name), v # << >>, v \notin Known,
         Cardinality(Known) < MaxPolicies, NEW p \in Person
  PROVE  /\ PolicySound(Drafted(v, p), activeVersion, DOMAIN reports)
         /\ DOMAIN Drafted(v, p) = Known \cup {v}
         /\ Drafted(v, p)[v].status = "DRAFT"
<1> DEFINE d == [status |-> "DRAFT", createdBy |-> p,
                 approvedBy |-> NoOne, parentVersion |-> activeVersion]
           ps == Drafted(v, p)
<1> USE DEF Known
<1>1. ps = [w \in Known \cup {v} |-> IF w = v THEN d ELSE policies[w]]
  BY DEF Drafted, Put
<1>2. ps[v] = d /\ \A w \in Known : ps[w] = policies[w]
  BY <1>1
<1>3. /\ activeVersion \in Known /\ policies[activeVersion].status = "ACTIVE"
      /\ \A w \in Known : policies[w] \in PolicyRecord(Known)
  BY DEF PolicyInv, PolicySound, Sane
<1> HIDE DEF ps
<1>4. IsFiniteSet(DOMAIN ps) /\ Cardinality(DOMAIN ps) <= MaxPolicies
  <2>1. IsFiniteSet(Known) /\ Cardinality(Known) \in Nat
    BY FS_CardinalityType DEF PolicyInv, PolicySound
  <2>2. IsFiniteSet(Known \cup {v}) /\ Cardinality(Known \cup {v}) = Cardinality(Known) + 1
    BY <2>1, FS_AddElement
  <2> QED
    BY <1>1, <2>1, <2>2, PolicyAssumption
<1>5. ps \in [DOMAIN ps -> PolicyRecord(DOMAIN ps)]
  <2>1. d \in PolicyRecord(Known \cup {v})
    BY <1>3 DEF PolicyRecord, PolicyStatus
  <2>2. \A w \in Known : policies[w] \in PolicyRecord(Known \cup {v})
    BY <1>3 DEF PolicyRecord
  <2> QED
    BY <1>1, <2>1, <2>2
<1>6. ASSUME NEW w \in Known PROVE Sane(ps, activeVersion, DOMAIN reports, w)
  <2>1. Sane(policies, activeVersion, DOMAIN reports, w)
    BY DEF PolicyInv, PolicySound
  <2> QED
    BY <1>1, <1>2, <2>1 DEF Sane
<1>7. Sane(ps, activeVersion, DOMAIN reports, v)
  BY <1>1, <1>2, <1>3 DEF Sane, InForce
<1>8. PolicySound(ps, activeVersion, DOMAIN reports)
  BY <1>1, <1>4, <1>5, <1>6, <1>7 DEF PolicySound, PolicyInv
<1> QED
  BY <1>1, <1>2, <1>8 DEF ps

\* The replay: a draft moves to SHADOW, and the version has a report.
LEMMA ReplayKeeps ==
  ASSUME NEW ps, NEW reported, PolicySound(ps, activeVersion, reported), NEW v \in DOMAIN ps,
         NEW s, s = IF ps[v].status = "DRAFT" THEN "SHADOW" ELSE ps[v].status
  PROVE  PolicySound([ps EXCEPT ![v].status = s], activeVersion, {v} \cup reported)
<1> DEFINE qs == [ps EXCEPT ![v].status = s]
<1>1. qs \in [DOMAIN ps -> PolicyRecord(DOMAIN ps)] /\ DOMAIN qs = DOMAIN ps
  BY DEF PolicySound, PolicyRecord, PolicyStatus
<1>2. ASSUME NEW w \in DOMAIN ps
      PROVE  /\ qs[w].approvedBy = ps[w].approvedBy
             /\ qs[w].createdBy = ps[w].createdBy
             /\ qs[w].parentVersion = ps[w].parentVersion
             /\ \/ qs[w].status = ps[w].status
                \/ ps[w].status = "DRAFT" /\ qs[w].status = "SHADOW"
  BY DEF PolicySound, PolicyRecord
<1> HIDE DEF qs
<1>3. ASSUME NEW w \in DOMAIN ps PROVE Sane(qs, activeVersion, {v} \cup reported, w)
  <2>1. Sane(ps, activeVersion, reported, w)
    BY DEF PolicySound
  <2> QED
    BY <1>1, <1>2, <2>1 DEF Sane, InForce
<1>4. PolicySound(qs, activeVersion, {v} \cup reported)
  BY <1>1, <1>3 DEF PolicySound
<1> QED
  BY <1>4 DEF qs

\* The approval, by someone other than the author, of a version with a report.
LEMMA ApprovalKeeps ==
  ASSUME NEW ps, NEW reported, PolicySound(ps, activeVersion, reported),
         NEW v \in reported, NEW p \in Person \cup {Override},
         ps[v].status = "SHADOW", p # ps[v].createdBy, Len(v) = 1 => p \in Person
  PROVE  PolicySound([ps EXCEPT ![v].status = "APPROVED", ![v].approvedBy = p],
               activeVersion, reported)
<1> DEFINE qs == [ps EXCEPT ![v].status = "APPROVED", ![v].approvedBy = p]
<1>0. v \in DOMAIN ps /\ p # NoOne
  BY PolicyAssumption DEF PolicySound
<1>1. qs \in [DOMAIN ps -> PolicyRecord(DOMAIN ps)] /\ DOMAIN qs = DOMAIN ps
  BY ZenonT(30), <1>0 DEF PolicySound, PolicyRecord, PolicyStatus
<1>2. ASSUME NEW w \in DOMAIN ps
      PROVE  /\ w # v => qs[w] = ps[w]
             /\ w = v => /\ qs[w].status = "APPROVED" /\ qs[w].approvedBy = p
                         /\ qs[w].createdBy = ps[w].createdBy
                         /\ qs[w].parentVersion = ps[w].parentVersion
  BY <1>0 DEF PolicySound, PolicyRecord
<1> HIDE DEF qs
<1>3. \A u \in DOMAIN ps : ps[u].status \in InForce => qs[u] = ps[u]
  BY <1>2 DEF InForce
<1>4. ASSUME NEW w \in DOMAIN ps PROVE Sane(qs, activeVersion, reported, w)
  <2>1. Sane(ps, activeVersion, reported, w)
    BY DEF PolicySound
  <2>2. CASE w = v
    BY <1>0, <1>1, <1>2, <1>3, <2>1, <2>2 DEF Sane
  <2>3. CASE w # v
    BY <1>1, <1>2, <1>3, <2>1, <2>3 DEF Sane
  <2> QED
    BY <2>2, <2>3
<1>5. PolicySound(qs, activeVersion, reported)
  BY <1>1, <1>4 DEF PolicySound
<1> QED
  BY <1>5 DEF qs

\* The activation of an approved version: it replaces the active one, which is
\* superseded in the same step.
LEMMA ActivationKeeps ==
  ASSUME NEW ps, NEW reported, PolicySound(ps, activeVersion, reported),
         NEW v \in DOMAIN ps, ps[v].status = "APPROVED"
  PROVE  PolicySound(Activated(ps, v), v, reported)
<1> DEFINE qs == Activated(ps, v)
<1>1. qs \in [DOMAIN ps -> PolicyRecord(DOMAIN ps)] /\ DOMAIN qs = DOMAIN ps
  BY DEF Activated, PolicySound, PolicyRecord, PolicyStatus
<1>2. activeVersion \in DOMAIN ps /\ ps[activeVersion].status = "ACTIVE"
  BY DEF PolicySound, Sane
<1>3. ASSUME NEW w \in DOMAIN ps
      PROVE  /\ qs[w].approvedBy = ps[w].approvedBy
             /\ qs[w].createdBy = ps[w].createdBy
             /\ qs[w].parentVersion = ps[w].parentVersion
             /\ qs[w].status = IF w = v THEN "ACTIVE"
                               ELSE IF w = activeVersion THEN "SUPERSEDED"
                               ELSE ps[w].status
  BY DEF Activated, PolicySound, PolicyRecord
<1> HIDE DEF qs
<1>4. \A u \in DOMAIN ps : ps[u].status \in InForce => qs[u].status = "SUPERSEDED"
  <2> SUFFICES ASSUME NEW u \in DOMAIN ps, ps[u].status \in InForce
               PROVE  qs[u].status = "SUPERSEDED"
    OBVIOUS
  <2>1. (ps[u].status = "ACTIVE") = (u = activeVersion)
    BY DEF PolicySound, Sane
  <2> QED
    BY <1>3, <2>1 DEF InForce
<1>5. ASSUME NEW w \in DOMAIN ps PROVE Sane(qs, v, reported, w)
  <2>1. Sane(ps, activeVersion, reported, w)
    BY DEF PolicySound
  <2>2. (qs[w].status \in {"DRAFT", "SHADOW"}) = (ps[w].status \in {"DRAFT", "SHADOW"})
    BY <1>2, <1>3
  <2>3. (qs[w].status = "ACTIVE") = (w = v)
    BY <1>3, <2>1 DEF Sane
  <2> QED
    BY <1>1, <1>3, <1>4, <2>1, <2>2, <2>3 DEF Sane, InForce
<1>6. PolicySound(qs, v, reported)
  BY <1>1, <1>5 DEF PolicySound
<1> QED
  BY <1>6 DEF qs

\* The version of a rollback has two names or more.
LEMMA JoinedNames ==
  ASSUME NEW s \in Seq(Name), s # << >>, NEW t \in Seq(Name), t # << >>
  PROVE  s \o t \in Seq(Name) /\ s \o t # << >> /\ Len(s \o t) # 1
<1>1. Len(s) > 0 /\ Len(t) > 0
  OBVIOUS
<1>2. s \o t \in Seq(Name) /\ Len(s \o t) = Len(s) + Len(t)
  OBVIOUS
<1> QED
  BY <1>1, <1>2

\* rollbackToVersion, approved and activated at once or left in SHADOW.
LEMMA RollbackKeeps ==
  ASSUME PolicyInv, NEW target, NEW p \in Person, NEW b \in BOOLEAN,
         target \in Known, RollbackToVersion(target, p, b)
  PROVE  PolicyInv'
<1> DEFINE v == activeVersion \o target
           drafted == Drafted(v, p)
           shadowed == [drafted EXCEPT ![v].status = "SHADOW"]
           approved == [shadowed EXCEPT ![v].status = "APPROVED", ![v].approvedBy = Override]
           reported == {v} \cup DOMAIN reports
<1>0. /\ v \notin Known /\ Cardinality(Known) < MaxPolicies
      /\ DOMAIN reports' = reported
  BY DEF RollbackToVersion, Put
<1>v. v \in Seq(Name) /\ v # << >> /\ Len(v) # 1
  <2>1. /\ activeVersion \in Seq(Name) /\ activeVersion # << >>
        /\ target \in Seq(Name) /\ target # << >>
    BY DEF PolicyInv, PolicySound, Sane, Known
  <2> QED
    BY <2>1, JoinedNames
<1> HIDE DEF v
<1>1. /\ PolicySound(drafted, activeVersion, DOMAIN reports)
      /\ v \in DOMAIN drafted /\ drafted[v].status = "DRAFT"
  BY <1>0, <1>v, DraftKeeps
<1>2. PolicySound(shadowed, activeVersion, reported)
  BY <1>1, ReplayKeeps
<1>3. shadowed[v].status = "SHADOW" /\ v \in DOMAIN shadowed
  BY <1>1 DEF PolicySound, PolicyRecord
<1>4. CASE MayApprove(shadowed[v], Override, b)
  <2>1. PolicySound(approved, activeVersion, reported)
    BY <1>2, <1>3, <1>4, <1>v, ApprovalKeeps DEF MayApprove
  <2>2. v \in DOMAIN approved /\ approved[v].status = "APPROVED"
    BY ZenonT(30), <1>2, <1>3 DEF PolicySound, PolicyRecord
  <2>3. PolicySound(Activated(approved, v), v, reported)
    BY <2>1, <2>2, ActivationKeeps
  <2>4. Activated(approved, v) = Activated([shadowed EXCEPT ![v].approvedBy = Override], v)
    BY <1>2, <1>3 DEF Activated, PolicySound, PolicyRecord
  <2>5. /\ policies' = Activated([shadowed EXCEPT ![v].approvedBy = Override], v)
        /\ activeVersion' = v
    BY <1>4 DEF RollbackToVersion, v
  <2> QED
    BY <1>0, <2>3, <2>4, <2>5 DEF PolicyInv
<1>5. CASE ~MayApprove(shadowed[v], Override, b)
  <2>1. policies' = shadowed /\ activeVersion' = activeVersion
    BY <1>5 DEF RollbackToVersion, v
  <2> QED
    BY <1>0, <1>2, <2>1 DEF PolicyInv
<1> QED
  BY <1>4, <1>5

LEMMA PolicyInvStep ==
  ASSUME PolicyInv, [PolicyNext]_policyVars
  PROVE  PolicyInv'
<1>1. ASSUME NEW d \in DraftName, NEW p \in Person, CreateDraftPolicy(<<d>>, p)
      PROVE  PolicyInv'
  <2>1. <<d>> \in Seq(Name) /\ <<d>> # << >>
    BY DEF Name
  <2> QED
    BY <1>1, <2>1, DraftKeeps DEF CreateDraftPolicy, PolicyInv
<1>2. ASSUME NEW v \in Known, NEW b \in BOOLEAN, RunShadowReplay(v, b)
      PROVE  PolicyInv'
  <2> DEFINE s == IF policies[v].status = "DRAFT" THEN "SHADOW" ELSE policies[v].status
  <2>1. /\ policies' = [policies EXCEPT ![v].status = s]
        /\ DOMAIN reports' = {v} \cup DOMAIN reports
        /\ activeVersion' = activeVersion
    BY <1>2 DEF RunShadowReplay, Put
  <2>2. PolicySound([policies EXCEPT ![v].status = s], activeVersion, {v} \cup DOMAIN reports)
    BY ReplayKeeps DEF PolicyInv, Known
  <2> QED
    BY <2>1, <2>2 DEF PolicyInv
<1>3. ASSUME NEW v \in Known, NEW p \in Person, Approve(v, p)
      PROVE  PolicyInv'
  <2>1. PolicySound([policies EXCEPT ![v].status = "APPROVED", ![v].approvedBy = p],
              activeVersion, DOMAIN reports)
    BY <1>3, ApprovalKeeps DEF Approve, MayApprove, PolicyInv
  <2> QED
    BY <1>3, <2>1 DEF Approve, PolicyInv
<1>4. ASSUME NEW v \in Known, Activate(v)
      PROVE  PolicyInv'
  BY <1>4, ActivationKeeps DEF Activate, MayActivate, PolicyInv, Known
<1>5. ASSUME NEW v \in Known, NEW p \in Person, NEW b \in BOOLEAN,
             RollbackToVersion(v, p, b)
      PROVE  PolicyInv'
  BY <1>5, RollbackKeeps
<1>6. CASE UNCHANGED policyVars
  BY <1>6 DEF policyVars, PolicyInv
<1> QED
  BY <1>1, <1>2, <1>3, <1>4, <1>5, <1>6 DEF PolicyNext

\* However drafts, replays, approvals, activations and rollbacks alternate, one
\* version is in force, its ancestors no longer are, and everything that is or
\* was in force was replayed and has a recorded approver other than its recorded
\* author, a person unless it came from a rollback, for any people, version names
\* and number of versions.
THEOREM PolicyInForce == PolicySpec => []InForceIsSound
<1>1. PolicyInv => PolicyTypeOK
  BY DEF PolicyInv, PolicySound, Sane, PolicyTypeOK, Known, PolicyRecord
<1>2. PolicyInv => OneActive
  <2> SUFFICES ASSUME PolicyInv PROVE OneActive
    OBVIOUS
  <2>1. \A v \in Known : (policies[v].status = "ACTIVE") = (v = activeVersion)
    BY DEF PolicyInv, PolicySound, Sane, Known
  <2>2. activeVersion \in Known /\ Sane(policies, activeVersion, DOMAIN reports, activeVersion)
    BY DEF PolicyInv, PolicySound, Known
  <2> QED
    BY <2>1, <2>2 DEF OneActive, Sane
<1>3. PolicyInv => InForceWasVetted
  BY DEF PolicyInv, PolicySound, Sane, InForceWasVetted, Known
<1>4. PolicyInv => InForceIsSound
  BY <1>1, <1>2, <1>3 DEF InForceIsSound
<1> QED
  BY <1>4, PolicyInvInit, PolicyInvStep, PTL DEF PolicySpec

=============================================================================
