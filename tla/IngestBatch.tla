----------------------------- MODULE IngestBatch -----------------------------
(***************************************************************************)
(* One lookup batch and the processes that run it                          *)
(* (src/patsquire_plr/ingest/runner.py, replay.py, cli.py).                *)
(*                                                                         *)
(* A batch row is created by start_lookup_batch; any number of processes   *)
(* then call run_lookup_batch on it, one after another or at once.  A run  *)
(* takes the batch's session-level advisory lock, reads which keys still   *)
(* lack a final outcome, fetches each of them, puts the payload into the   *)
(* raw store, records raw row, document and outcome in one transaction,    *)
(* and finally reconciles.  A run may be refused, meet an unexpected error *)
(* at any call, or die at any point.                                       *)
(*                                                                         *)
(* Database tables are state shared by all runs.  Transactions are READ    *)
(* COMMITTED: each statement sees what is committed when it is made.  So a *)
(* transaction that decides by what it has read takes several steps, with  *)
(* what it read kept by its process (pc, page, seen) until it commits.     *)
(* An upload to the raw store precedes the transaction.                    *)
(* The order of the requested keys decides only which of two keys that name*)
(* one publication is the duplicate: a run takes its keys in any order.    *)
(***************************************************************************)
EXTENDS Naturals, FiniteSets

CONSTANTS
  Runner,      \* processes that may run the batch
  Key,         \* the distinct requested keys of the batch (after _dedupe)
  Pub,         \* publications a served page can be about
  Serves,      \* Serves[k]: the publications that match the request k
  Version,     \* adapter versions a process may have been deployed with
  Provenance,  \* "lookup" (keys of a user) or "replay" (pages of an old batch)
  Unusable,    \* a page that does not parse into a document
  NoRow        \* no such row, no such process

Content == Pub \cup {Unusable}

ASSUME ConstantsAssumption ==
  /\ Key # {} /\ IsFiniteSet(Key)
  /\ Serves \in [Key -> SUBSET Pub]
  /\ Unusable \notin Pub
  /\ NoRow \notin Runner \cup Version \cup Content \cup {0, 1}
  /\ NoRow \notin [content : Content, origin : {"network", "stored"}, by : Version]
  /\ Provenance \in {"lookup", "replay"}

FetchedOutcomes == {"stored", "quarantined", "duplicate"}
FinalOutcomes   == FetchedOutcomes \cup {"not_found", "invalid_request"}
Misses          == {"not_found", "invalid_request", "failed"}
Outcomes        == FetchedOutcomes \cup Misses

VARIABLES
  status,      \* ingest_batch.status; "none" before the row exists
  adapter,     \* ingest_batch.adapter_version
  storedCount, \* ingest_batch.stored_count
  latest,      \* latest ingest_item.outcome of each key; "none" without an item
  raw,         \* raw_record row of each key (unique per batch and key)
  document,    \* patent_document row hanging off that raw record
  itemDocs,    \* document_count of the key's item with a fetched outcome
  lastEvent,   \* latest audit event about the batch
  objects,     \* payloads in the object store
  lock,        \* holder of the batch's advisory lock
  pc,          \* where each process is in run_lookup_batch
  version,     \* adapter version each process runs with
  source,      \* where each process gets its pages
  pending,     \* keys each run still has to fetch
  page,        \* the payload each run has fetched, and the outcome decided for it
  seen         \* what each run's reconciliation has read

rows == <<status, adapter, storedCount, latest, raw, document, itemDocs, lastEvent>>
local == <<version, source, pending, page, seen>>
vars == <<rows, objects, lock, pc, local>>

RawRow == [content : Content, origin : {"network", "stored"}, by : Version]
Page == [key : Key, content : Content, outcome : FetchedOutcomes \cup {"undecided"}]
Reconciling == {"outcomes_read", "items_read", "raw_read", "documents_read"}
PC == {"idle", "started", "locked", "admitted", "fetching", "recording", "storing", "aborting",
       "unlocking", "raising"} \cup Reconciling

NothingSeen == [open |-> {}, items |-> 0, expected |-> 0, raw |-> 0, documents |-> 0]

Init ==
  /\ status = "none" /\ adapter = NoRow /\ storedCount = NoRow
  /\ latest = [k \in Key |-> "none"]
  /\ raw = [k \in Key |-> NoRow]
  /\ document = [k \in Key |-> NoRow]
  /\ itemDocs = [k \in Key |-> NoRow]
  /\ lastEvent = "none"
  /\ objects = IF Provenance = "replay" THEN Content ELSE {}
  /\ lock = NoRow
  /\ pc = [r \in Runner |-> "idle"]
  /\ version = [r \in Runner |-> NoRow]
  /\ source = [r \in Runner |-> "none"]
  /\ pending = [r \in Runner |-> {}]
  /\ page = [r \in Runner |-> NoRow]
  /\ seen = [r \in Runner |-> NothingSeen]

-----------------------------------------------------------------------------
(* Helpers *)

Goto(r, label) == pc' = [pc EXCEPT ![r] = label]

\* What a run no longer uses once its loop or its reconciliation is over.
Forget(r) ==
  /\ pending' = [pending EXCEPT ![r] = {}]
  /\ page' = [page EXCEPT ![r] = NoRow]
  /\ seen' = [seen EXCEPT ![r] = NothingSeen]

\* The process ends its run; nothing of its local state survives.
Leave(r) ==
  /\ Goto(r, "idle") /\ Forget(r)
  /\ version' = [version EXCEPT ![r] = NoRow]
  /\ source' = [source EXCEPT ![r] = "none"]

Release(r) == lock' = IF lock = r THEN NoRow ELSE lock

\* Mutation: a quarantined page is fetched again.
Unsettled_Refetch == {k \in Key : latest[k] \notin FinalOutcomes \ {"quarantined"}}

Unsettled == {k \in Key : latest[k] \notin FinalOutcomes}

\* Mutation: _already_stored is not asked.
Outcome_NoDuplicates(k, p) == IF p \notin Serves[k] THEN "quarantined" ELSE "stored"

\* The outcome _record gives a fetched page: it must parse and match the request,
\* and its publication must not already be stored in this batch.
Outcome(k, p) ==
  IF p \notin Serves[k] THEN "quarantined"
  ELSE IF \E j \in Key : document[j] = p THEN "duplicate"
  ELSE "stored"

\* What the statements of _reconcile count, and what it compares.
RawCount      == Cardinality({k \in Key : raw[k] # NoRow})
FetchedItems  == Cardinality({k \in Key : itemDocs[k] # NoRow})
DocumentCount == Cardinality({k \in Key : document[k] # NoRow})
ExpectedDocs  == Cardinality({k \in Key : itemDocs[k] = 1})
Mismatch(s) == s.raw # s.items \/ s.documents # s.expected

-----------------------------------------------------------------------------
(* Starting a run *)

\* A replay batch is first run on the stored pages of the batch it re-reads.
FirstSource == IF Provenance = "replay" THEN "stored" ELSE "network"

\* start_lookup_batch (or start_replay_batch): the row and its audit event.
Start(r, v) ==
  /\ status = "none" /\ pc[r] = "idle"
  /\ status' = "running" /\ adapter' = v /\ lastEvent' = "batch_started"
  /\ version' = [version EXCEPT ![r] = v]
  /\ source' = [source EXCEPT ![r] = FirstSource]
  /\ Goto(r, "started")
  /\ UNCHANGED <<storedCount, latest, raw, document, itemDocs, objects, lock,
                 pending, page, seen>>

\* The process that started the batch goes on to run it.
LockStarted(r) ==
  /\ pc[r] = "started" /\ lock = NoRow
  /\ lock' = r /\ Goto(r, "locked")
  /\ UNCHANGED <<rows, objects, local>>

\* BatchBusyError for the process that started the batch.
Busy(r) ==
  /\ pc[r] = "started" /\ lock # NoRow
  /\ Leave(r)
  /\ UNCHANGED <<rows, objects, lock>>

\* Mutation: the answer of pg_try_advisory_lock is not looked at.
Resume_NoLock(r, v) ==
  /\ pc[r] = "idle" /\ status # "none"
  /\ lock' = (IF lock = NoRow THEN r ELSE lock) /\ Goto(r, "locked")
  /\ version' = [version EXCEPT ![r] = v]
  /\ source' = [source EXCEPT ![r] = "network"]
  /\ UNCHANGED <<rows, objects, pending, page, seen>>

\* `plr ingest resume`: a process, of whatever version is deployed now, runs an
\* existing batch with the configured network source.
Resume(r, v) ==
  /\ pc[r] = "idle" /\ status # "none" /\ lock = NoRow
  /\ lock' = r /\ Goto(r, "locked")
  /\ version' = [version EXCEPT ![r] = v]
  /\ source' = [source EXCEPT ![r] = "network"]
  /\ UNCHANGED <<rows, objects, pending, page, seen>>

\* Mutations: a complete batch, or one of another version, is run again.
Refused_NotComplete(r) == adapter # version[r]
Refused_AnyVersion(r) == status = "complete"

\* _prepare refuses a complete batch and a batch of another adapter version.
Refused(r) == status = "complete" \/ adapter # version[r]

Refuse(r) ==
  /\ pc[r] = "locked" /\ Refused(r)
  /\ Goto(r, "unlocking")
  /\ UNCHANGED <<rows, objects, lock, local>>

\* _prepare has read the batch row and accepts it.
Admit(r) ==
  /\ pc[r] = "locked" /\ ~Refused(r)
  /\ Goto(r, "admitted")
  /\ UNCHANGED <<rows, objects, lock, local>>

\* It reads the outcomes, sets the status and commits.
Prepare(r) ==
  /\ pc[r] = "admitted"
  /\ status' = "running"
  /\ pending' = [pending EXCEPT ![r] = Unsettled]
  /\ Goto(r, "fetching")
  /\ UNCHANGED <<adapter, storedCount, latest, raw, document, itemDocs,
                 lastEvent, objects, lock, version, source, page, seen>>

\* An unexpected error in _prepare: rolled back, and outside the inner try.
PrepareError(r) ==
  /\ pc[r] \in {"locked", "admitted"}
  /\ Goto(r, "raising")
  /\ UNCHANGED <<rows, objects, lock, local>>

-----------------------------------------------------------------------------
(* Fetching and recording *)

\* The source reports not_found, invalid_request or failed: an item row only.
\* A stored page can only be served or raise an error.
RecordMiss(r, k, o) ==
  /\ pc[r] = "fetching" /\ k \in pending[r] /\ source[r] = "network"
  /\ latest' = [latest EXCEPT ![k] = o]
  /\ pending' = [pending EXCEPT ![r] = @ \ {k}]
  /\ UNCHANGED <<status, adapter, storedCount, raw, document, itemDocs,
                 lastEvent, objects, lock, pc, version, source, page, seen>>

\* The source serves payload p and raw_store.put stores it (or verifies the copy).
PutPage(r, k, p) ==
  /\ pc[r] = "fetching" /\ k \in pending[r]
  /\ objects' = objects \cup {p}
  /\ page' = [page EXCEPT ![r] = [key |-> k, content |-> p, outcome |-> "undecided"]]
  /\ Goto(r, "recording")
  /\ UNCHANGED <<rows, lock, version, source, pending, seen>>

\* Another transaction has inserted a raw record of the key and not ended: an insert
\* of the same key waits for its end, because of the unique constraint.
InsertUnderWay(k) == \E q \in Runner : pc[q] = "storing" /\ page[q].key = k

\* _record's transaction inserts the raw record, reads the page, and asks what is
\* stored already.  No constraint covers publications: nothing holds its answer.
InsertRaw(r) ==
  LET k == page[r].key
      p == page[r].content
  IN /\ pc[r] = "recording" /\ raw[k] = NoRow /\ ~InsertUnderWay(k)
     /\ page' = [page EXCEPT ![r] = [key |-> k, content |-> p, outcome |-> Outcome(k, p)]]
     /\ Goto(r, "storing")
     /\ UNCHANGED <<rows, objects, lock, version, source, pending, seen>>

\* Mutation: document_count is taken from the parser, before the duplicate check.
RecordPage_Count(r) ==
  LET k == page[r].key
      p == page[r].content
      o == page[r].outcome
  IN /\ pc[r] = "storing"
     /\ raw' = [raw EXCEPT ![k] =
                  [content |-> p, origin |-> source[r], by |-> version[r]]]
     /\ document' = [document EXCEPT ![k] = IF o = "stored" THEN p ELSE NoRow]
     /\ itemDocs' = [itemDocs EXCEPT ![k] = IF p \in Serves[k] THEN 1 ELSE 0]
     /\ latest' = [latest EXCEPT ![k] = o]
     /\ pending' = [pending EXCEPT ![r] = @ \ {k}]
     /\ page' = [page EXCEPT ![r] = NoRow]
     /\ Goto(r, "fetching")
     /\ UNCHANGED <<status, adapter, storedCount, lastEvent, objects, lock,
                    version, source, seen>>

\* The transaction writes document and item as it decided, and commits.
RecordPage(r) ==
  LET k == page[r].key
      p == page[r].content
      o == page[r].outcome
  IN /\ pc[r] = "storing"
     /\ raw' = [raw EXCEPT ![k] =
                  [content |-> p, origin |-> source[r], by |-> version[r]]]
     /\ document' = [document EXCEPT ![k] = IF o = "stored" THEN p ELSE NoRow]
     /\ itemDocs' = [itemDocs EXCEPT ![k] = IF o = "stored" THEN 1 ELSE 0]
     /\ latest' = [latest EXCEPT ![k] = o]
     /\ pending' = [pending EXCEPT ![r] = @ \ {k}]
     /\ page' = [page EXCEPT ![r] = NoRow]
     /\ Goto(r, "fetching")
     /\ UNCHANGED <<status, adapter, storedCount, lastEvent, objects, lock,
                    version, source, seen>>

\* The unique constraint on (batch, key) rejects a second raw record.
UniqueViolation(r) ==
  /\ pc[r] = "recording" /\ raw[page[r].key] # NoRow
  /\ Goto(r, "aborting") /\ Forget(r)
  /\ UNCHANGED <<rows, objects, lock, version, source>>

\* Any exception while fetching, uploading or recording; an open transaction is
\* rolled back.
FetchError(r) ==
  /\ \/ pc[r] = "fetching" /\ pending[r] # {}
     \/ pc[r] \in {"recording", "storing"}
  /\ Goto(r, "aborting") /\ Forget(r)
  /\ UNCHANGED <<rows, objects, lock, version, source>>

\* Mutation: a status the table does not know.
Abort_Status(r) ==
  /\ pc[r] = "aborting"
  /\ status' = "aborted" /\ lastEvent' = "batch_aborted"
  /\ Goto(r, "raising")
  /\ UNCHANGED <<adapter, storedCount, latest, raw, document, itemDocs, objects,
                 lock, local>>

\* _abort, then the exception goes on.
Abort(r) ==
  /\ pc[r] = "aborting"
  /\ status' = "failed" /\ lastEvent' = "batch_aborted"
  /\ Goto(r, "raising")
  /\ UNCHANGED <<adapter, storedCount, latest, raw, document, itemDocs, objects,
                 lock, local>>

-----------------------------------------------------------------------------
(* Finishing *)

\* One statement of _reconcile: what it reads is kept, nothing is written.
Read(r, from, to, s) ==
  /\ pc[r] = from /\ Goto(r, to)
  /\ seen' = [seen EXCEPT ![r] = s]
  /\ UNCHANGED <<rows, objects, lock, version, source, pending, page>>

ReadOutcomes(r) ==
  /\ pending[r] = {}
  /\ Read(r, "fetching", "outcomes_read", [seen[r] EXCEPT !.open = Unsettled])
ReadItems(r) ==
  Read(r, "outcomes_read", "items_read",
       [seen[r] EXCEPT !.items = FetchedItems, !.expected = ExpectedDocs])
ReadRaw(r) == Read(r, "items_read", "raw_read", [seen[r] EXCEPT !.raw = RawCount])
ReadDocuments(r) ==
  Read(r, "raw_read", "documents_read", [seen[r] EXCEPT !.documents = DocumentCount])

\* The decision is committed.  A mismatch is raised afterwards, as ReconciliationError.
Reconcile(r) ==
  /\ pc[r] = "documents_read"
  /\ status' = IF Mismatch(seen[r]) \/ seen[r].open # {} THEN "failed" ELSE "complete"
  /\ lastEvent' = IF status' = "complete" THEN "finished_complete" ELSE "finished_failed"
  /\ storedCount' = seen[r].documents
  /\ Goto(r, "unlocking") /\ Forget(r)
  /\ UNCHANGED <<adapter, latest, raw, document, itemDocs, objects, lock, version, source>>

\* An unexpected error in _reconcile: rolled back, and outside the inner try.
ReconcileError(r) ==
  /\ \/ pc[r] = "fetching" /\ pending[r] = {}
     \/ pc[r] \in Reconciling
  /\ Goto(r, "raising") /\ Forget(r)
  /\ UNCHANGED <<rows, objects, lock, version, source>>

\* Mutation: the lock is not given back (its connection returns to the pool).
Unlock_Keep(r) ==
  /\ pc[r] \in {"unlocking", "raising"}
  /\ Leave(r)
  /\ UNCHANGED <<rows, objects, lock>>

\* The finally clause.
Unlock(r) ==
  /\ pc[r] \in {"unlocking", "raising"}
  /\ Release(r) /\ Leave(r)
  /\ UNCHANGED <<rows, objects>>

\* The process dies (external): its lock connection and any transaction die with it.
Crash(r) ==
  /\ pc[r] # "idle"
  /\ Release(r) /\ Leave(r)
  /\ UNCHANGED <<rows, objects>>

\* The database drops the idle connection that holds the lock (external): the run
\* does not notice, because it does not use that connection before the end.
LoseLock(r) ==
  /\ lock = r
  /\ lock' = NoRow
  /\ UNCHANGED <<rows, objects, pc, local>>

-----------------------------------------------------------------------------
Run(r) ==
  \/ \E v \in Version : Start(r, v) \/ Resume(r, v)
  \/ LockStarted(r) \/ Busy(r)
  \/ Refuse(r) \/ Admit(r) \/ Prepare(r) \/ PrepareError(r)
  \/ \E k \in Key :
       \/ \E o \in Misses : RecordMiss(r, k, o)
       \/ \E p \in Content : PutPage(r, k, p)
  \/ InsertRaw(r) \/ RecordPage(r) \/ UniqueViolation(r) \/ FetchError(r) \/ Abort(r)
  \/ ReadOutcomes(r) \/ ReadItems(r) \/ ReadRaw(r) \/ ReadDocuments(r)
  \/ Reconcile(r) \/ ReconcileError(r) \/ Unlock(r)

Next == \E r \in Runner : Run(r) \/ Crash(r)

Spec == Init /\ [][Next]_vars

\* The same system when the lock connection can be lost under a live run.
NextLockLoss == Next \/ \E r \in Runner : LoseLock(r)
SpecLockLoss == Init /\ [][NextLockLoss]_vars

-----------------------------------------------------------------------------
(* Fairness: the operator keeps resuming a batch that is not complete with the  *)
(* adapter it was created with; every pending key is in the end answered for    *)
(* good; of the runs that come to prepare, to record a page, or to reconcile    *)
(* when every key is settled, again and again one gets to the end of it; and a  *)
(* run that can go on does.  Errors and crashes may come in between, any number *)
(* of times.                                                                    *)

Answer(r) ==
  \E k \in Key : \/ \E o \in {"not_found", "invalid_request"} : RecordMiss(r, k, o)
                 \/ \E p \in Content : PutPage(r, k, p)

Preparing == \E r \in Runner : pc[r] = "locked" /\ ~Refused(r)
Recording == \E r \in Runner : pc[r] = "recording"
Settling  == \E r \in Runner : pc[r] = "fetching" /\ pending[r] = {} /\ Unsettled = {}

FairSpec ==
  /\ Spec
  /\ SF_vars(\E r \in Runner : Resume(r, adapter))
  /\ SF_vars(\E r \in Runner : Answer(r))
  /\ []<>Preparing => []<><<\E r \in Runner : Prepare(r)>>_vars
  /\ []<>Recording => []<><<\E r \in Runner : RecordPage(r)>>_vars
  /\ []<>Settling => []<><<\E r \in Runner : Reconcile(r) /\ status' = "complete">>_vars
  /\ \A r \in Runner :
       WF_vars(\/ LockStarted(r) \/ Busy(r) \/ Refuse(r) \/ Admit(r) \/ Prepare(r)
               \/ InsertRaw(r) \/ RecordPage(r) \/ UniqueViolation(r) \/ Abort(r)
               \/ ReadOutcomes(r) \/ ReadItems(r) \/ ReadRaw(r) \/ ReadDocuments(r)
               \/ Reconcile(r) \/ Unlock(r))

-----------------------------------------------------------------------------
(* Properties *)

Running(r) == pc[r] \notin {"idle", "started"}

\* Every variable stays within its domain (the CHECK constraints of the tables).
TypeOK ==
  /\ status \in {"none", "running", "failed", "complete"}
  /\ adapter \in Version \cup {NoRow}
  /\ storedCount \in Nat \cup {NoRow}
  /\ latest \in [Key -> Outcomes \cup {"none"}]
  /\ raw \in [Key -> RawRow \cup {NoRow}]
  /\ document \in [Key -> Pub \cup {NoRow}]
  /\ itemDocs \in [Key -> {0, 1, NoRow}]
  /\ lastEvent \in {"none", "batch_started", "batch_aborted", "finished_complete",
                    "finished_failed"}
  /\ objects \in SUBSET Content
  /\ lock \in Runner \cup {NoRow}
  /\ pc \in [Runner -> PC]
  /\ version \in [Runner -> Version \cup {NoRow}]
  /\ source \in [Runner -> {"none", "network", "stored"}]
  /\ pending \in [Runner -> SUBSET Key]
  /\ page \in [Runner -> Page \cup {NoRow}]
  /\ seen \in [Runner -> [open : SUBSET Key, items : Nat, expected : Nat, raw : Nat,
                          documents : Nat]]

\* "A session-level advisory lock on the batch makes concurrent runs of one batch
\* impossible" (runner.py:139): two processes are never both inside run_lookup_batch.
RunsExclude == \A r, q \in Runner : Running(r) /\ Running(q) => r = q

\* However runs crash, abort and resume, a publication is stored once per batch,
\* also when several requested keys name it.
OneDocumentPerPublication ==
  \A j, k \in Key : document[j] # NoRow /\ document[j] = document[k] => j = k

\* Resume fetches only what has no final outcome: no later run re-records a key that
\* is settled, even a run that read its pending keys long before.
FinalOutcomesStand ==
  [][\A k \in Key : latest[k] \in FinalOutcomes =>
       UNCHANGED <<latest[k], raw[k], document[k], itemDocs[k]>>]_vars

\* Items, raw records and documents add up in every state: a crash between any two
\* steps leaves no half item.
RowsAddUp == RawCount = FetchedItems /\ DocumentCount = ExpectedDocs

\* Nor does a run ever find otherwise, although it counts them in several statements:
\* _reconcile never raises ReconciliationError while its run holds the lock.
CrossChecksHold == \A r \in Runner : pc[r] = "documents_read" => ~Mismatch(seen[r])

\* A complete batch has a final outcome for every key, and the count in its row is
\* the number of documents that hang off it.
CompleteIsSettled ==
  status = "complete" => Unsettled = {} /\ RowsAddUp /\ storedCount = DocumentCount

\* Once complete, no row of the batch changes and nothing reopens it: no abort of a
\* slow run, no resume.  Datasets are built from complete batches only.
CompleteIsFrozen == [][status = "complete" => UNCHANGED rows]_vars

\* A key's latest outcome tells which rows exist for it.
RowsMatchOutcome ==
  \A k \in Key :
    /\ (raw[k] # NoRow) <=> latest[k] \in FetchedOutcomes
    /\ (document[k] # NoRow) <=> latest[k] = "stored"

\* The audit log's last word about the batch agrees with its row: the log says
\* "finished complete" exactly while the row says complete.
AuditAgrees == (lastEvent = "finished_complete") <=> (status = "complete")

\* Raw first: a raw_record row always points to a payload that is in the store.
RawFirst == \A k \in Key : raw[k] # NoRow => raw[k].content \in objects

\* All records of a batch were made by the adapter version recorded on its row,
\* whatever versions of the program have been run on it.
OneAdapterVersion == \A k \in Key : raw[k] # NoRow => raw[k].by = adapter

\* "Nothing is fetched; the original pages and retrieval times are used"
\* (cli.py:330, of a replay batch): every raw record comes from a stored page.
ReplayFetchesNothing ==
  Provenance = "replay" => \A k \in Key : raw[k] # NoRow => raw[k].origin = "stored"

\* A batch that keeps being resumed completes, whatever crashes and errors befall
\* its runs: no state it can be left in is beyond recovery.
BatchCompletes == (status # "none") ~> (status = "complete")

\* What a batch promises its readers (module BatchContract): keys are settled one at
\* a time, for good, and the batch is closed once all are.
Contract == INSTANCE BatchContract WITH
  settled <- [k \in Key |-> IF latest[k] \in FinalOutcomes THEN latest[k] ELSE "open"],
  holding <- {p \in Pub : \E k \in Key : document[k] = p},
  closed  <- status = "complete"
ImplementsContract == Contract!Spec

=============================================================================
