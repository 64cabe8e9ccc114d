----------------------------- MODULE AuditChain -----------------------------
(***************************************************************************)
(* The hash-chained audit log and the transactions that append to it       *)
(* (src/patsquire_plr/db/audit.py and its callers).                        *)
(*                                                                         *)
(* append_event runs inside the caller's transaction: it takes the chain's *)
(* transaction-level advisory lock, reads the hash of the newest event it  *)
(* can see, and inserts the next event.  The lock is held until the        *)
(* transaction ends.  Some callers hold a lock of their own before that    *)
(* (the landscape in add_taxonomy_version, the subject in record_approval).*)
(*                                                                         *)
(* The table is a sequence in the order the rows were committed; what reads*)
(* it orders by seq, as the code does.  A digest is opaque and EventHash is*)
(* any function into the digests.                                          *)
(***************************************************************************)
EXTENDS Naturals, Sequences, SequencesExt

CONSTANTS
  Writer,          \* database sessions that append events
  Content,         \* what an event says (time, step, type, actor, payload)
  Digest,          \* SHA-256 digests
  GENESIS_HASH,
  EventHash(_, _), \* event_hash: of the previous hash and the event's content
  Subject,         \* landscapes and approval subjects with a lock of their own
  None,
  PerTransaction,  \* bound: events one transaction appends
  MaxEvents        \* bound: no transaction begins beyond this many events

ASSUME AuditAssumption ==
  /\ GENESIS_HASH \in Digest
  /\ \A d \in Digest, c \in Content : EventHash(d, c) \in Digest
  /\ None \notin Writer \cup Subject \cup Digest
  /\ PerTransaction \in Nat \ {0} /\ MaxEvents \in Nat

VARIABLES
  log,         \* committed rows of audit_event
  nextSeq,     \* next value of the identity column; a rollback leaves a gap
  chainLock,   \* session holding AUDIT_LOCK_KEY
  subjectLock, \* session holding each subject's lock
  pc,          \* where each session is in its transaction
  subject,     \* the subject each transaction locks, None for most
  last,        \* last_hash as each append_event read it
  draft        \* rows each transaction has flushed but not committed

vars == <<log, nextSeq, chainLock, subjectLock, pc, subject, last, draft>>

Row == [seq : Nat, content : Content, prev : Digest, hash : Digest]

Init ==
  /\ log = <<>> /\ nextSeq = 1
  /\ chainLock = None
  /\ subjectLock = [s \in Subject |-> None]
  /\ pc = [w \in Writer |-> "idle"]
  /\ subject = [w \in Writer |-> None]
  /\ last = [w \in Writer |-> None]
  /\ draft = [w \in Writer |-> <<>>]

-----------------------------------------------------------------------------
(* Helpers *)

Goto(w, label) == pc' = [pc EXCEPT ![w] = label]

\* The rows a session sees: what is committed and what it has flushed itself.
Visible(w) == log \o draft[w]

\* The row ORDER BY seq DESC LIMIT 1 returns.
Newest(rows) ==
  CHOOSE i \in DOMAIN rows : \A j \in DOMAIN rows : rows[j].seq <= rows[i].seq

LastHash(rows) == IF rows = <<>> THEN GENESIS_HASH ELSE rows[Newest(rows)].hash

\* The row append_event builds.
Sealed(q, c, prev) ==
  [seq |-> q, content |-> c, prev |-> prev, hash |-> EventHash(prev, c)]

\* Mutation: the chain's lock is a session-level one, and outlives the transaction.
End_KeepLock(w) ==
  /\ subjectLock' = [s \in Subject |-> IF subjectLock[s] = w THEN None ELSE subjectLock[s]]
  /\ subject' = [subject EXCEPT ![w] = None]
  /\ last' = [last EXCEPT ![w] = None]
  /\ draft' = [draft EXCEPT ![w] = <<>>]
  /\ Goto(w, "idle")
  /\ UNCHANGED chainLock

\* The end of a transaction releases its locks.
End(w) ==
  /\ chainLock' = IF chainLock = w THEN None ELSE chainLock
  /\ subjectLock' = [s \in Subject |-> IF subjectLock[s] = w THEN None ELSE subjectLock[s]]
  /\ subject' = [subject EXCEPT ![w] = None]
  /\ last' = [last EXCEPT ![w] = None]
  /\ draft' = [draft EXCEPT ![w] = <<>>]
  /\ Goto(w, "idle")

-----------------------------------------------------------------------------
(* Transactions *)

Begin(w, s) ==
  /\ pc[w] = "idle" /\ nextSeq <= MaxEvents
  /\ subject' = [subject EXCEPT ![w] = s]
  /\ Goto(w, IF s = None THEN "open" ELSE "waiting")
  /\ UNCHANGED <<log, nextSeq, chainLock, subjectLock, last, draft>>

\* The caller's own lock, taken before any event is appended.
LockSubject(w) ==
  /\ pc[w] = "waiting" /\ subjectLock[subject[w]] = None
  /\ subjectLock' = [subjectLock EXCEPT ![subject[w]] = w]
  /\ Goto(w, "open")
  /\ UNCHANGED <<log, nextSeq, chainLock, subject, last, draft>>

\* Mutation: the lock is taken without waiting for it.
LockChain_NoWait(w) ==
  /\ pc[w] = "open" /\ Len(draft[w]) < PerTransaction
  /\ chainLock' = w /\ Goto(w, "locked")
  /\ UNCHANGED <<log, nextSeq, subjectLock, subject, last, draft>>

\* append_event begins; a transaction that already holds the lock gets it again.
LockChain(w) ==
  /\ pc[w] = "open" /\ Len(draft[w]) < PerTransaction
  /\ chainLock \in {None, w}
  /\ chainLock' = w /\ Goto(w, "locked")
  /\ UNCHANGED <<log, nextSeq, subjectLock, subject, last, draft>>

ReadLast(w) ==
  /\ pc[w] = "locked"
  /\ last' = [last EXCEPT ![w] = LastHash(Visible(w))]
  /\ Goto(w, "read")
  /\ UNCHANGED <<log, nextSeq, chainLock, subjectLock, subject, draft>>

\* session.flush inserts the row; the hash column is unique.
Insert(w, c) ==
  LET row == Sealed(nextSeq, c, last[w])
  IN /\ pc[w] = "read"
     /\ \A i \in DOMAIN Visible(w) : Visible(w)[i].hash # row.hash
     /\ draft' = [draft EXCEPT ![w] = Append(@, row)]
     /\ nextSeq' = nextSeq + 1
     /\ Goto(w, "open")
     /\ UNCHANGED <<log, chainLock, subjectLock, subject, last>>

Commit(w) ==
  /\ pc[w] = "open" /\ draft[w] # <<>>
  /\ log' = log \o draft[w]
  /\ End(w)
  /\ UNCHANGED nextSeq

\* An exception or a lost connection (external) at any point of the transaction.
Rollback(w) ==
  /\ pc[w] # "idle"
  /\ End(w)
  /\ UNCHANGED <<log, nextSeq>>

Progress(w) ==
  \/ LockSubject(w) \/ LockChain(w) \/ ReadLast(w)
  \/ \E c \in Content : Insert(w, c)
  \/ Commit(w)

Next == \E w \in Writer :
  \/ \E s \in Subject \cup {None} : Begin(w, s)
  \/ Progress(w)
  \/ Rollback(w)

Spec == Init /\ [][Next]_vars

\* A session goes on with its transaction, and Postgres hands a lock to whoever has
\* waited for it longest.
FairSpec == Spec /\ \A w \in Writer :
  /\ WF_vars(ReadLast(w) \/ (\E c \in Content : Insert(w, c)) \/ Commit(w))
  /\ SF_vars(LockSubject(w)) /\ SF_vars(LockChain(w))

-----------------------------------------------------------------------------
(* verify_chain *)

\* expected_prev when the loop over ORDER BY seq reaches row i.
ExpectedPrev(rows, i) ==
  LET Earlier == {j \in DOMAIN rows : rows[j].seq < rows[i].seq}
  IN IF Earlier = {} THEN GENESIS_HASH
     ELSE rows[CHOOSE j \in Earlier : \A k \in Earlier : rows[k].seq <= rows[j].seq].hash

\* Mutations: verify_chain trusts the stored hashes, or does not follow the links.
Bad_TrustHash(rows, i) == rows[i].prev # ExpectedPrev(rows, i)
Bad_NoLink(rows, i) == rows[i].hash # EventHash(rows[i].prev, rows[i].content)

Bad(rows, i) ==
  \/ rows[i].prev # ExpectedPrev(rows, i)
  \/ rows[i].hash # EventHash(rows[i].prev, rows[i].content)

Verifies(rows) == \A i \in DOMAIN rows : ~Bad(rows, i)

\* first_bad_seq: the loop returns at the first row that is bad.
FirstBadIs(rows, i) ==
  /\ i \in DOMAIN rows /\ Bad(rows, i)
  /\ \A j \in DOMAIN rows : rows[j].seq < rows[i].seq => ~Bad(rows, j)

-----------------------------------------------------------------------------
(* Properties *)

TypeOK ==
  /\ log \in Seq(Row) /\ nextSeq \in Nat
  /\ chainLock \in Writer \cup {None}
  /\ subjectLock \in [Subject -> Writer \cup {None}]
  /\ pc \in [Writer -> {"idle", "waiting", "open", "locked", "read"}]
  /\ subject \in [Writer -> Subject \cup {None}]
  /\ last \in [Writer -> Digest \cup {None}]
  /\ draft \in [Writer -> Seq(Row)]

\* "Concurrent writers cannot fork the chain" (audit.py:6-7): whatever transactions
\* interleave, roll back or append twice, every committed log verifies.
ChainVerifies == Verifies(log)

\* A session's own verification, with its uncommitted events, succeeds too; so does any
\* that runs after it commits.
DraftVerifies == \A w \in Writer : draft[w] # <<>> => Verifies(Visible(w))

\* The order of seq is the order of commits: a reader of the log never sees an event
\* appear before one it has already seen.
CommitsInSeqOrder ==
  \A i, j \in DOMAIN log : i < j => log[i].seq < log[j].seq

\* Events are only ever added at the end.
AppendOnly == [][IsPrefix(log, log')]_log

\* A committed event whose content is changed afterwards is reported as the first bad
\* one (unless the two contents collide).
EditReported ==
  \A i \in DOMAIN log, c \in Content :
    EventHash(log[i].prev, c) # log[i].hash =>
      FirstBadIs([log EXCEPT ![i].content = c], i)

\* An event that is removed is missed by verify_chain, as long as a later one is left.
RemovalReported ==
  \A i \in DOMAIN log :
    i # Len(log) /\ log[i].hash # log[i].prev => FirstBadIs(RemoveAt(log, i), i)

\* No transaction waits for ever: the subject's lock always comes before the chain's.
TransactionsEnd == \A w \in Writer : pc[w] # "idle" ~> pc[w] = "idle"

=============================================================================
