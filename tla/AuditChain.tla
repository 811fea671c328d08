----------------------------- MODULE AuditChain -----------------------------
(***************************************************************************)
(* src/lib/reconciliation/audit-chain.ts: appendAuditEvent and             *)
(* verifyChainFromRows on the AuditEvent rows of one batch.                *)
(*                                                                         *)
(* An append is two statements, findFirst and create; the unique key on    *)
(* (batchId, seq) refuses the second of two creates with one number.       *)
(* Outside a transaction a refused append starts again, MAX_RETRIES times. *)
(* Inside one (client: tx, the appends of transitionException) a refused   *)
(* statement aborts the PostgreSQL transaction, so the retries fail too;   *)
(* its row is invisible until the commit, and a create with the same       *)
(* number waits for that.                                                  *)
(*                                                                         *)
(* A digest is the sequence of the payloads hashed into it: sha256 is      *)
(* taken to be free of collisions, and the model keeps what it digests.    *)
(***************************************************************************)
EXTENDS Naturals, FiniteSets, Sequences

CONSTANTS
  Appender,        \* callers of appendAuditEvent
  InTx,            \* those that pass client: tx
  Payload,         \* canonical payloads
  AppendRetries,   \* MAX_RETRIES
  MayLoseReply,    \* a create may be stored although its caller sees an error
  MaxRows          \* bound: no append starts once the chain is this long

ASSUME AuditChainAssumption ==
  /\ InTx \subseteq Appender /\ Payload # {}
  /\ AppendRetries \in Nat \ {0}
  /\ MayLoseReply \in BOOLEAN
  /\ MaxRows \in Nat

VARIABLES
  rows,     \* the AuditEvent rows of the batch: a function of their seq
  appends   \* per caller: where it is, its attempt, its payload and what it read

chainVars == <<rows, appends>>

GENESIS_HASH == << >>

\* Mutant: a link digests only its own payload.
HashPayloadOnly(previousHash, payload) == <<payload>>

hashChainLink(previousHash, payload) == Append(previousHash, payload)

ChainRow(previousHash, payload) ==
  [previousHash |-> previousHash, canonicalPayload |-> payload,
   currentHash |-> hashChainLink(previousHash, payload)]

WithRow(rs, seq, row) ==
  [s \in DOMAIN rs \cup {seq} |-> IF s = seq THEN row ELSE rs[s]]

\* The seq of the row ORDER BY seq DESC finds first.
LastSeq(rs) == CHOOSE n \in DOMAIN rs : \A m \in DOMAIN rs : m <= n

\* Mutant: numbers start at one.
NextSeqFromOne(rs) == IF DOMAIN rs = {} THEN 1 ELSE LastSeq(rs) + 1

NextSeq(rs) == IF DOMAIN rs = {} THEN 0 ELSE LastSeq(rs) + 1

HeadHash(rs) ==
  IF DOMAIN rs = {} THEN GENESIS_HASH ELSE rs[LastSeq(rs)].currentHash

\* verifyChainFromRows: sorted by seq, the rows start at GENESIS_HASH, are
\* numbered without a gap, digest themselves and link to their predecessor.
VerifyChain(rs) ==
  /\ DOMAIN rs = 0..(Cardinality(DOMAIN rs) - 1)
  /\ \A s \in DOMAIN rs :
       /\ rs[s].currentHash = hashChainLink(rs[s].previousHash, rs[s].canonicalPayload)
       /\ rs[s].previousHash = IF s = 0 THEN GENESIS_HASH ELSE rs[s - 1].currentHash

-----------------------------------------------------------------------------

AppendPC == {"idle", "start", "read", "pending", "done", "failed"}

Idle(e) == [pc |-> "idle", attempt |-> 0, payload |-> e, seq |-> 0,
            previousHash |-> GENESIS_HASH]

ChainInit ==
  /\ rows = [s \in {} |-> ChainRow(GENESIS_HASH, CHOOSE e \in Payload : TRUE)]
  /\ appends = [p \in Appender |-> Idle(CHOOSE e \in Payload : TRUE)]

\* A caller enters appendAuditEvent with a payload.
BeginAppend(p, e) ==
  /\ appends[p].pc \in {"idle", "done", "failed"}
  /\ NextSeq(rows) < MaxRows
  /\ appends' = [appends EXCEPT ![p] = [Idle(e) EXCEPT !.pc = "start"]]
  /\ UNCHANGED rows

\* findFirst: a transaction's uncommitted row is not seen.
FindLast(p) ==
  /\ appends[p].pc = "start"
  /\ appends' = [appends EXCEPT ![p].pc = "read", ![p].seq = NextSeq(rows),
                                ![p].previousHash = HeadHash(rows)]
  /\ UNCHANGED rows

\* No other transaction holds the number uncommitted: a create waits for that.
KeyFree(p) ==
  \A q \in Appender \ {p} : appends[q].pc = "pending" => appends[q].seq # appends[p].seq

\* Mutant: there is no unique key.
KeyTakenNever(p) == FALSE

KeyTaken(p) == appends[p].seq \in DOMAIN rows

\* The catch block: the next attempt, or the error is thrown.
Retried(a) ==
  IF a.attempt + 1 < AppendRetries
    THEN [a EXCEPT !.pc = "start", !.attempt = @ + 1]
    ELSE [a EXCEPT !.pc = "failed", !.attempt = @ + 1]

CreateStored(p) ==
  /\ appends[p].pc = "read" /\ p \notin InTx
  /\ KeyFree(p) /\ ~KeyTaken(p)
  /\ rows' = WithRow(rows, appends[p].seq,
                     ChainRow(appends[p].previousHash, appends[p].payload))
  /\ \/ appends' = [appends EXCEPT ![p].pc = "done"]
     \/ MayLoseReply /\ appends' = [appends EXCEPT ![p] = Retried(@)]

CreateRefused(p) ==
  /\ appends[p].pc = "read" /\ p \notin InTx
  /\ KeyFree(p) /\ KeyTaken(p)
  /\ appends' = [appends EXCEPT ![p] = Retried(@)]
  /\ UNCHANGED rows

\* In a transaction: the row is created but not committed.
TxCreate(p) ==
  /\ appends[p].pc = "read" /\ p \in InTx
  /\ KeyFree(p) /\ ~KeyTaken(p)
  /\ appends' = [appends EXCEPT ![p].pc = "pending"]
  /\ UNCHANGED rows

TxCreateRefused(p) ==
  /\ appends[p].pc = "read" /\ p \in InTx
  /\ KeyFree(p) /\ KeyTaken(p)
  /\ appends' = [appends EXCEPT ![p].pc = "failed"]
  /\ UNCHANGED rows

TxCommit(p) ==
  /\ appends[p].pc = "pending"
  /\ rows' = WithRow(rows, appends[p].seq,
                     ChainRow(appends[p].previousHash, appends[p].payload))
  /\ appends' = [appends EXCEPT ![p].pc = "done"]

\* A later statement of the transaction fails and takes the row back.
TxRollback(p) ==
  /\ appends[p].pc = "pending"
  /\ appends' = [appends EXCEPT ![p].pc = "failed"]
  /\ UNCHANGED rows

ChainStep(p) ==
  \/ FindLast(p)
  \/ CreateStored(p)
  \/ CreateRefused(p)
  \/ TxCreate(p)
  \/ TxCreateRefused(p)
  \/ TxCommit(p)
  \/ TxRollback(p)

ChainNext ==
  \E p \in Appender : ChainStep(p) \/ \E e \in Payload : BeginAppend(p, e)

ChainSpec == ChainInit /\ [][ChainNext]_chainVars

-----------------------------------------------------------------------------

ChainTypeOK ==
  /\ DOMAIN rows \subseteq Nat
  /\ \A s \in DOMAIN rows :
       rows[s] \in [previousHash : Seq(Payload), canonicalPayload : Payload,
                    currentHash : Seq(Payload)]
  /\ appends \in [Appender -> [pc : AppendPC, attempt : 0..AppendRetries,
                               payload : Payload, seq : Nat,
                               previousHash : Seq(Payload)]]

\* verifyAuditChain accepts the chain in every state, however the appends of
\* runs and of reviewers overlap, are retried, rolled back or repeated.
ChainVerifies == VerifyChain(rows)

\* appendAuditEvent returns only when its event is in the chain under the
\* number it returned, linked to the hash it returned.
ReturnedIsStored ==
  \A p \in Appender : appends[p].pc = "done" =>
    /\ appends[p].seq \in DOMAIN rows
    /\ rows[appends[p].seq] = ChainRow(appends[p].previousHash, appends[p].payload)

\* An append outside a transaction throws only on a chain that holds at least
\* MAX_RETRIES events: each attempt was beaten by a row it had not seen, or was
\* itself stored and its answer lost, so a lone writer never fails.
GivesUpOnlyBeaten ==
  \A p \in Appender \ InTx : appends[p].pc = "failed" => NextSeq(rows) >= AppendRetries

\* What callers of appendAuditEvent are told is true: a returned event is stored
\* and stays, and an error was not for want of trying.
AnswersHold == ReturnedIsStored /\ GivesUpOnlyBeaten

\* The chain as its readers see it: the events digested by the last row.  Two
\* statements under a unique key implement one atomic append.
Log == INSTANCE AppendLog WITH log <- HeadHash(rows), LogEvent <- Payload

ChainIsLog == Log!LogSpec
=============================================================================
