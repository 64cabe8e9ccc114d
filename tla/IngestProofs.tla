----------------------------- MODULE IngestProofs -----------------------------
(***************************************************************************)
(* Proofs about IngestBatch: the batch promise holds for any number of     *)
(* runners, keys, publications and adapter versions, as long as a run keeps*)
(* its lock connection (Spec; LoseLock is not a step of it).  The last part*)
(* proves what holds even without (SpecLockLoss).                          *)
(***************************************************************************)
EXTENDS IngestBatch, FiniteSetTheorems, TLAPS

-----------------------------------------------------------------------------
(* The inductive invariant *)

\* A process that runs has a version and a source, one that records has a page, and one
\* with an open transaction has decided what becomes of it.
LocalsOK ==
  \A r \in Runner :
    /\ pc[r] # "idle" => version[r] \in Version /\ source[r] \in {"network", "stored"}
    /\ pc[r] \in {"recording", "storing"} => page[r] \in Page
    /\ pc[r] = "storing" =>
         /\ page[r].outcome \in FetchedOutcomes
         /\ page[r].outcome = "stored" => page[r].content \in Pub

\* Whoever runs the batch holds its lock.
LockHeld == \A r \in Runner : Running(r) => lock = r

\* From _prepare to the end of its loop a run sees its batch as running: no other
\* process can have finished or aborted it.
RunSeesRunning ==
  \A r \in Runner :
    /\ pc[r] = "admitted" => status # "complete"
    /\ pc[r] \in {"fetching", "recording", "storing", "aborting"} \cup Reconciling =>
         status = "running"

\* The keys a run still has to fetch are unsettled, and every other key has an item.
PendingIsUnsettled ==
  \A r \in Runner : pc[r] \in {"fetching", "recording", "storing"} =>
    \A k \in Key : /\ k \in pending[r] => latest[k] \notin FinalOutcomes
                   /\ latest[k] = "none" => k \in pending[r]

\* The page about to be recorded is uploaded and belongs to a pending key.
PageIsStored ==
  \A r \in Runner : pc[r] \in {"recording", "storing"} =>
    page[r].key \in pending[r] /\ page[r].content \in objects

\* One item row per raw record, with the document count of that record.
ItemsMatchRows ==
  \A k \in Key : /\ (itemDocs[k] # NoRow) <=> (raw[k] # NoRow)
                 /\ (itemDocs[k] = 1) <=> (document[k] # NoRow)

CompleteRow == status = "complete" => Unsettled = {} /\ storedCount = DocumentCount

\* What an open transaction decided is still what the committed rows call for.
DecisionStands ==
  \A r \in Runner : pc[r] = "storing" =>
    page[r].outcome = Outcome(page[r].key, page[r].content)

\* What a reconciliation has read so far is still so.
ReadsStand ==
  \A r \in Runner :
    /\ pc[r] \in Reconciling => seen[r].open = Unsettled
    /\ pc[r] \in Reconciling \ {"outcomes_read"} =>
         seen[r].items = FetchedItems /\ seen[r].expected = ExpectedDocs
    /\ pc[r] \in {"raw_read", "documents_read"} => seen[r].raw = RawCount
    /\ pc[r] = "documents_read" => seen[r].documents = DocumentCount

RowsInv ==
  /\ TypeOK /\ LocalsOK /\ LockHeld /\ RunSeesRunning /\ PendingIsUnsettled
  /\ PageIsStored /\ ItemsMatchRows /\ RowsMatchOutcome /\ OneDocumentPerPublication
  /\ CompleteRow /\ AuditAgrees /\ RawFirst

IInv == RowsInv /\ DecisionStands /\ ReadsStand

-----------------------------------------------------------------------------

LEMMA CountIsNat == \A S \in SUBSET Key : Cardinality(S) \in Nat
BY ConstantsAssumption, FS_CardinalityType, FS_Subset

\* NoRow is not a row of any table and not a process.
LEMMA NoRowIsNoRow == NoRow \notin Pub \cup Runner \cup Version \cup RawRow \cup {0, 1}
BY ConstantsAssumption DEF Content, RawRow

LEMMA InvInit == Init => IInv
<1> SUFFICES ASSUME Init PROVE IInv
  OBVIOUS
<1>1. TypeOK
  BY ConstantsAssumption DEF Init, TypeOK, Outcomes, PC, Content, NothingSeen
<1>2. LocalsOK /\ LockHeld /\ RunSeesRunning /\ PendingIsUnsettled /\ PageIsStored
  BY DEF Init, LocalsOK, LockHeld, RunSeesRunning, PendingIsUnsettled, PageIsStored, Running,
     Reconciling
<1>3. ItemsMatchRows /\ RowsMatchOutcome /\ OneDocumentPerPublication
  BY ConstantsAssumption DEF Init, ItemsMatchRows, RowsMatchOutcome,
     OneDocumentPerPublication, FetchedOutcomes
<1>4. CompleteRow /\ AuditAgrees /\ RawFirst
  BY DEF Init, CompleteRow, AuditAgrees, RawFirst
<1>5. DecisionStands /\ ReadsStand
  BY DEF Init, DecisionStands, ReadsStand, Reconciling
<1> QED
  BY <1>1, <1>2, <1>3, <1>4, <1>5 DEF IInv, RowsInv

\* The lock makes the running process unique.
LEMMA OneRun ==
  ASSUME LockHeld, NEW r \in Runner, NEW q \in Runner, Running(r), Running(q)
  PROVE  r = q
BY DEF LockHeld

\* A pending key has no rows but its failed items.
LEMMA PendingKey ==
  ASSUME PendingIsUnsettled, RowsMatchOutcome, NEW r \in Runner,
         pc[r] \in {"fetching", "recording", "storing"}, NEW k \in Key, k \in pending[r]
  PROVE  latest[k] \notin FinalOutcomes /\ raw[k] = NoRow /\ document[k] = NoRow
<1>1. latest[k] \notin FinalOutcomes
  BY DEF PendingIsUnsettled
<1>2. latest[k] \notin FetchedOutcomes /\ latest[k] # "stored"
  BY <1>1 DEF FinalOutcomes, FetchedOutcomes
<1> QED
  BY <1>1, <1>2 DEF RowsMatchOutcome

\* What _record makes of a page.
LEMMA OutcomeOf ==
  ASSUME NEW k \in Key, NEW p \in Content
  PROVE  /\ Outcome(k, p) \in FetchedOutcomes
         /\ Outcome(k, p) = "stored" => p \in Pub /\ \A j \in Key : document[j] # p
BY ConstantsAssumption DEF Outcome, FetchedOutcomes

\* The counts of the tables are natural numbers, and change only with the tables.
LEMMA CountsAre ==
  /\ FetchedItems \in Nat /\ ExpectedDocs \in Nat /\ RawCount \in Nat /\ DocumentCount \in Nat
  /\ UNCHANGED <<latest, raw, document, itemDocs>> =>
       UNCHANGED <<Unsettled, FetchedItems, ExpectedDocs, RawCount, DocumentCount>>
BY CountIsNat DEF FetchedItems, ExpectedDocs, RawCount, DocumentCount, Unsettled

\* What a statement of _reconcile reads has the type of what is kept of it.
LEMMA ReadIsTyped ==
  ASSUME TypeOK, NEW r \in Runner,
         ReadOutcomes(r) \/ ReadItems(r) \/ ReadRaw(r) \/ ReadDocuments(r)
  PROVE  /\ TypeOK'
         /\ pc'[r] \in Reconciling /\ pc[r] \in {"fetching"} \cup Reconciling
         /\ UNCHANGED <<rows, objects, lock, version, source, pending, page>>
         /\ \A q \in Runner \ {r} : pc'[q] = pc[q]
<1> DEFINE Seen == [open : SUBSET Key, items : Nat, expected : Nat, raw : Nat, documents : Nat]
<1>1. seen \in [Runner -> Seen] /\ pc \in [Runner -> PC]
  BY DEF TypeOK
<1>2. seen[r] \in Seen /\ Unsettled \in SUBSET Key
  BY <1>1 DEF Unsettled
<1>3. PICK s \in Seen : \E from, to \in {"fetching"} \cup Reconciling :
                        Read(r, from, to, s) /\ to \in Reconciling
  BY <1>2, CountsAre DEF ReadOutcomes, ReadItems, ReadRaw, ReadDocuments, Reconciling
<1>4. /\ seen' = [seen EXCEPT ![r] = s] /\ UNCHANGED <<rows, objects, lock, version, source, pending, page>>
      /\ pc'[r] \in Reconciling /\ pc[r] \in {"fetching"} \cup Reconciling
      /\ \A q \in Runner \ {r} : pc'[q] = pc[q]
      /\ pc' \in [Runner -> PC]
  BY <1>1, <1>3 DEF Read, Goto, PC
<1>5. seen' \in [Runner -> Seen]
  BY <1>1, <1>4
<1> HIDE DEF Seen
<1>6. TypeOK'
  BY <1>4, <1>5 DEF TypeOK, rows, Seen
<1> QED
  BY <1>4, <1>6

\* So have the variables of a process that ends.
LEMMA LeaveIsTyped ==
  ASSUME TypeOK, NEW r \in Runner, Release(r), Leave(r), UNCHANGED <<rows, objects>>
  PROVE  TypeOK'
<1>1. lock' \in Runner \cup {NoRow} /\ pc' \in [Runner -> PC]
  BY DEF TypeOK, Release, Leave, Goto, PC
<1>2. /\ version' \in [Runner -> Version \cup {NoRow}]
      /\ source' \in [Runner -> {"none", "network", "stored"}]
  BY DEF TypeOK, Leave
<1>3. pending' \in [Runner -> SUBSET Key] /\ page' \in [Runner -> Page \cup {NoRow}]
  BY DEF TypeOK, Leave, Forget
<1>4. seen' \in [Runner -> [open : SUBSET Key, items : Nat, expected : Nat, raw : Nat,
                            documents : Nat]]
  <2>1. NothingSeen \in [open : SUBSET Key, items : Nat, expected : Nat, raw : Nat,
                         documents : Nat]
    BY DEF NothingSeen
  <2> QED
    BY <2>1 DEF TypeOK, Leave, Forget
<1>5. UNCHANGED <<status, adapter, storedCount, latest, raw, document, itemDocs, lastEvent,
                  objects>>
  BY DEF rows
<1> QED
  BY <1>1, <1>2, <1>3, <1>4, <1>5 DEF TypeOK

LEMMA RowsStep == IInv /\ [Next]_vars => RowsInv'
<1> SUFFICES ASSUME IInv, [Next]_vars PROVE RowsInv'
  OBVIOUS
<1>0. RowsInv /\ DecisionStands /\ ReadsStand
  BY DEF IInv
<1>a. NothingSeen \in [open : SUBSET Key, items : Nat, expected : Nat, raw : Nat, documents : Nat]
  BY DEF NothingSeen
<1> USE <1>0, NoRowIsNoRow DEF RowsInv, TypeOK, LocalsOK, LockHeld, RunSeesRunning,
        PendingIsUnsettled, PageIsStored, ItemsMatchRows, RowsMatchOutcome,
        OneDocumentPerPublication, CompleteRow, AuditAgrees, RawFirst, Running, PC, Reconciling,
        Outcomes, FetchedOutcomes, FinalOutcomes, Misses, RawRow, DocumentCount, Unsettled
<1>1. ASSUME NEW r \in Runner, NEW v \in Version, Start(r, v) PROVE RowsInv'
  BY <1>1 DEF Start, FirstSource, Goto
<1>2. ASSUME NEW r \in Runner, LockStarted(r) PROVE RowsInv'
  BY <1>2 DEF LockStarted, Goto, rows, local
<1>3. ASSUME NEW r \in Runner, Busy(r) PROVE RowsInv'
  BY <1>3, <1>a DEF Busy, Leave, Forget, Goto, rows
<1>4. ASSUME NEW r \in Runner, NEW v \in Version, Resume(r, v) PROVE RowsInv'
  BY <1>4 DEF Resume, Goto, rows
<1>5. ASSUME NEW r \in Runner, Refuse(r) \/ Admit(r) PROVE RowsInv'
  <2>1. CASE Refuse(r)
    BY <2>1 DEF Refuse, Goto, rows, local
  <2>2. CASE Admit(r)
    <3>1. status # "complete" /\ pc[r] = "locked" /\ pc' = [pc EXCEPT ![r] = "admitted"]
          /\ UNCHANGED <<rows, objects, lock, local>>
      BY <2>2 DEF Admit, Refused, Goto
    <3>2. TypeOK' /\ LocalsOK' /\ LockHeld' /\ RunSeesRunning'
      BY <3>1 DEF rows, local
    <3> QED
      BY <3>1, <3>2 DEF rows, local
  <2> QED
    BY <1>5, <2>1, <2>2
<1>6. ASSUME NEW r \in Runner, Prepare(r) PROVE RowsInv'
  BY <1>6 DEF Prepare, Goto
<1>7. ASSUME NEW r \in Runner, PrepareError(r) PROVE RowsInv'
  BY <1>7 DEF PrepareError, Goto, rows, local
<1>8. ASSUME NEW r \in Runner, NEW k \in Key, NEW o \in Misses, RecordMiss(r, k, o) PROVE RowsInv'
  <2> USE <1>8 DEF RecordMiss
  <2>1. TypeOK' /\ LocalsOK' /\ LockHeld' /\ RunSeesRunning' /\ RawFirst'
    OBVIOUS
  <2>2. latest[k] \notin FinalOutcomes /\ raw[k] = NoRow /\ document[k] = NoRow
    BY PendingKey
  <2>3. ItemsMatchRows' /\ RowsMatchOutcome' /\ OneDocumentPerPublication'
    BY <2>2
  <2>4. ASSUME NEW q \in Runner, pc'[q] \in {"fetching", "recording", "storing"} PROVE q = r
    <3>1. lock = r /\ pc[q] \in {"fetching", "recording", "storing"}
      BY <2>4
    <3> QED
      BY <3>1
  <2>5. PendingIsUnsettled' /\ PageIsStored'
    BY <2>4
  <2>6. CompleteRow' /\ AuditAgrees'
    OBVIOUS
  <2> QED
    BY <2>1, <2>3, <2>5, <2>6
<1>9. ASSUME NEW r \in Runner, NEW k \in Key, NEW p \in Content, PutPage(r, k, p) PROVE RowsInv'
  BY <1>9 DEF PutPage, Goto, rows, Page
<1>10. ASSUME NEW r \in Runner, InsertRaw(r) PROVE RowsInv'
  <2> DEFINE k == page[r].key
             p == page[r].content
             o == Outcome(k, p)
  <2>1. k \in Key /\ p \in Content /\ k \in pending[r] /\ p \in objects
    BY <1>10 DEF InsertRaw, Page
  <2>2. o \in FetchedOutcomes /\ (o = "stored" => p \in Pub)
    BY <2>1, OutcomeOf
  <2>3. /\ page' = [page EXCEPT ![r] = [key |-> k, content |-> p, outcome |-> o]]
        /\ pc' = [pc EXCEPT ![r] = "storing"] /\ pc[r] = "recording"
        /\ UNCHANGED <<rows, objects, lock, version, source, pending, seen>>
    BY <1>10 DEF InsertRaw, Goto
  <2> HIDE DEF k, p, o
  <2> QED
    BY <2>1, <2>2, <2>3 DEF rows, Page
<1>11. ASSUME NEW r \in Runner, RecordPage(r) PROVE RowsInv'
  <2> DEFINE k == page[r].key
             p == page[r].content
             o == page[r].outcome
  <2> USE <1>11 DEF RecordPage, Goto
  <2>1. k \in Key /\ p \in Content /\ k \in pending[r] /\ p \in objects
    BY DEF Page
  <2>2. latest[k] \notin FinalOutcomes /\ raw[k] = NoRow /\ document[k] = NoRow
    BY <2>1, PendingKey
  <2>3. o \in FetchedOutcomes /\ (o = "stored" => p \in Pub /\ \A j \in Key : document[j] # p)
    BY <2>1, OutcomeOf DEF DecisionStands
  <2>4. /\ raw' = [raw EXCEPT ![k] = [content |-> p, origin |-> source[r], by |-> version[r]]]
        /\ document' = [document EXCEPT ![k] = IF o = "stored" THEN p ELSE NoRow]
        /\ itemDocs' = [itemDocs EXCEPT ![k] = IF o = "stored" THEN 1 ELSE 0]
        /\ latest' = [latest EXCEPT ![k] = o]
        /\ pending' = [pending EXCEPT ![r] = @ \ {k}]
        /\ page' = [page EXCEPT ![r] = NoRow]
        /\ pc' = [pc EXCEPT ![r] = "fetching"]
        /\ pc[r] = "storing"
        /\ UNCHANGED <<status, adapter, storedCount, lastEvent, objects, lock, version, source, seen>>
    OBVIOUS
  <2> HIDE <1>11 DEF k, p, o, RecordPage
  <2>5. [content |-> p, origin |-> source[r], by |-> version[r]] \in RawRow
    BY <2>1, <2>4
  <2>6. TypeOK' /\ LocalsOK' /\ LockHeld' /\ RunSeesRunning'
    BY <2>1, <2>3, <2>4, <2>5
  <2>7. ItemsMatchRows' /\ RowsMatchOutcome' /\ RawFirst'
    BY <2>1, <2>3, <2>4, <2>5
  <2>8. OneDocumentPerPublication'
    BY <2>1, <2>2, <2>3, <2>4
  <2>9. ASSUME NEW q \in Runner, pc'[q] \in {"fetching", "recording", "storing"} PROVE q = r
    <3>1. lock = r /\ (q # r => pc[q] \in {"fetching", "recording", "storing"})
      BY <2>4, <2>9
    <3> QED
      BY <3>1
  <2>10. PendingIsUnsettled' /\ PageIsStored'
    BY <2>1, <2>3, <2>4, <2>9
  <2>11. CompleteRow' /\ AuditAgrees'
    BY <2>4
  <2> QED
    BY <2>6, <2>7, <2>8, <2>10, <2>11
<1>12. ASSUME NEW r \in Runner, UniqueViolation(r) \/ FetchError(r) PROVE RowsInv'
  <2>1. /\ pc[r] \in {"fetching", "recording", "storing"}
        /\ pc' = [pc EXCEPT ![r] = "aborting"]
        /\ pending' = [pending EXCEPT ![r] = {}] /\ page' = [page EXCEPT ![r] = NoRow]
        /\ seen' = [seen EXCEPT ![r] = NothingSeen]
        /\ UNCHANGED <<rows, objects, lock, version, source>>
    BY <1>12 DEF UniqueViolation, FetchError, Forget, Goto
  <2> QED
    BY <2>1, <1>a DEF rows
<1>13. ASSUME NEW r \in Runner, Abort(r) PROVE RowsInv'
  BY <1>13 DEF Abort, Goto, local
<1>14. ASSUME NEW r \in Runner,
              ReadOutcomes(r) \/ ReadItems(r) \/ ReadRaw(r) \/ ReadDocuments(r)
       PROVE  RowsInv'
  <2>1. /\ TypeOK'
        /\ pc'[r] \in Reconciling /\ pc[r] \in {"fetching"} \cup Reconciling
        /\ UNCHANGED <<rows, objects, lock, version, source, pending, page>>
        /\ \A q \in Runner \ {r} : pc'[q] = pc[q]
    BY <1>14, ReadIsTyped
  <2>2. LocalsOK' /\ LockHeld'
    BY <2>1 DEF rows
  <2>4. RunSeesRunning'
    BY <2>1 DEF rows
  <2>5. PendingIsUnsettled' /\ PageIsStored'
    BY <2>1 DEF rows
  <2>3. ItemsMatchRows' /\ RowsMatchOutcome' /\ OneDocumentPerPublication' /\ CompleteRow'
        /\ AuditAgrees' /\ RawFirst'
    BY <2>1 DEF rows
  <2> QED
    BY <2>1, <2>2, <2>3, <2>4, <2>5
<1>15. ASSUME NEW r \in Runner, Reconcile(r) PROVE RowsInv'
  <2>1. /\ pc[r] = "documents_read" /\ pc' = [pc EXCEPT ![r] = "unlocking"]
        /\ pending' = [pending EXCEPT ![r] = {}] /\ page' = [page EXCEPT ![r] = NoRow]
        /\ seen' = [seen EXCEPT ![r] = NothingSeen]
        /\ status' \in {"failed", "complete"}
        /\ status' = "complete" => seen[r].open = {}
        /\ lastEvent' = IF status' = "complete" THEN "finished_complete" ELSE "finished_failed"
        /\ storedCount' = seen[r].documents
        /\ UNCHANGED <<adapter, latest, raw, document, itemDocs, objects, lock, version, source>>
    BY <1>15 DEF Reconcile, Forget, Goto
  <2>2. seen[r].documents = DocumentCount /\ seen[r].open = Unsettled
    BY <2>1 DEF ReadsStand
  <2>3. TypeOK'
    BY <2>1, <1>a
  <2>4. LocalsOK' /\ LockHeld' /\ PageIsStored' /\ PendingIsUnsettled'
    BY <2>1
  <2>5. ASSUME NEW q \in Runner,
               pc'[q] \in {"admitted", "fetching", "recording", "storing", "aborting"} \cup Reconciling
        PROVE FALSE
    BY <2>1, <2>5, OneRun
  <2>6. RunSeesRunning' /\ ItemsMatchRows' /\ RowsMatchOutcome' /\ OneDocumentPerPublication'
    BY <2>1, <2>5
  <2>7. CompleteRow' /\ AuditAgrees' /\ RawFirst'
    BY <2>1, <2>2
  <2> QED
    BY <2>3, <2>4, <2>6, <2>7
<1>16. ASSUME NEW r \in Runner, ReconcileError(r) PROVE RowsInv'
  BY <1>16, <1>a DEF ReconcileError, Forget, Goto, rows
<1>17. ASSUME NEW r \in Runner, Unlock(r) \/ Crash(r) PROVE RowsInv'
  <2>1. TypeOK'
    BY <1>17, LeaveIsTyped DEF Unlock, Crash
  <2> USE <1>17, <1>a DEF Unlock, Crash, Leave, Forget, Release, Goto, rows
  <2>2. LocalsOK' /\ LockHeld'
    OBVIOUS
  <2>3. RunSeesRunning' /\ PendingIsUnsettled' /\ PageIsStored'
    BY SMTT(60)
  <2>4. ItemsMatchRows' /\ RowsMatchOutcome' /\ RawFirst'
    OBVIOUS
  <2>5. OneDocumentPerPublication'
    OBVIOUS
  <2>6. AuditAgrees'
    OBVIOUS
  <2>7. UNCHANGED <<latest, document>>
    OBVIOUS
  <2>8. UNCHANGED <<status, storedCount>> /\ CompleteRow
    OBVIOUS
  <2>9. CompleteRow'
    <3> HIDE DEF Unsettled, DocumentCount, RowsInv
    <3>1. Unsettled' = Unsettled /\ DocumentCount' = DocumentCount
      BY ONLY <2>7 DEF Unsettled, DocumentCount
    <3> QED
      BY ONLY <3>1, <2>8 DEF CompleteRow
  <2> QED
    BY <2>1, <2>2, <2>3, <2>4, <2>5, <2>6, <2>9
<1>18. CASE UNCHANGED vars
  BY <1>18 DEF vars, rows, local
<1> HIDE <1>0 DEF RowsInv, TypeOK, LocalsOK, LockHeld, RunSeesRunning, PendingIsUnsettled,
        PageIsStored, ItemsMatchRows, RowsMatchOutcome, OneDocumentPerPublication,
        CompleteRow, AuditAgrees, RawFirst, Running, PC, Reconciling, Outcomes, FetchedOutcomes,
        FinalOutcomes, Misses, RawRow, DocumentCount, Unsettled
<1> QED
  BY <1>1, <1>2, <1>3, <1>4, <1>5, <1>6, <1>7, <1>8, <1>9, <1>10, <1>11, <1>12, <1>13, <1>14, <1>15, <1>16, <1>17, <1>18 DEF Next, Run

\* What a step of process r does to what other processes have read, and how r comes to
\* have decided or read something.
LEMMA ReadersStep ==
  ASSUME TypeOK, NEW r \in Runner, Run(r) \/ Crash(r)
  PROVE  /\ \A q \in Runner \ {r} : pc'[q] = pc[q] /\ page'[q] = page[q] /\ seen'[q] = seen[q]
         /\ \/ UNCHANGED <<latest, raw, document, itemDocs>>
            \/ pc[r] \in {"fetching", "storing"} /\ pc'[r] = "fetching"
         /\ pc'[r] = "storing" => InsertRaw(r)
         /\ pc'[r] \in Reconciling =>
              ReadOutcomes(r) \/ ReadItems(r) \/ ReadRaw(r) \/ ReadDocuments(r)
<1> DEFINE Goal ==
         /\ \A q \in Runner \ {r} : pc'[q] = pc[q] /\ page'[q] = page[q] /\ seen'[q] = seen[q]
         /\ \/ UNCHANGED <<latest, raw, document, itemDocs>>
            \/ pc[r] \in {"fetching", "storing"} /\ pc'[r] = "fetching"
         /\ pc'[r] = "storing" => InsertRaw(r)
         /\ pc'[r] \in Reconciling =>
              ReadOutcomes(r) \/ ReadItems(r) \/ ReadRaw(r) \/ ReadDocuments(r)
<1>0. /\ pc \in [Runner -> PC] /\ page \in [Runner -> Page \cup {NoRow}]
      /\ DOMAIN seen = Runner
  BY DEF TypeOK
<1> USE <1>0 DEF Goto, Forget, Leave, rows, local, Reconciling
<1>1. ASSUME NEW v \in Version, Start(r, v) \/ Resume(r, v) PROVE Goal
  BY <1>1 DEF Start, Resume
<1>2. CASE LockStarted(r) \/ Busy(r) \/ Refuse(r) \/ Admit(r) \/ Prepare(r) \/ PrepareError(r)
  BY <1>2 DEF LockStarted, Busy, Refuse, Admit, Prepare, PrepareError
<1>3. ASSUME NEW k \in Key, NEW o \in Misses, RecordMiss(r, k, o) PROVE Goal
  BY <1>3 DEF RecordMiss
<1>4. ASSUME NEW k \in Key, NEW p \in Content, PutPage(r, k, p) PROVE Goal
  BY <1>4 DEF PutPage
<1>5. CASE InsertRaw(r)
  <2>1. /\ \A q \in Runner \ {r} : pc'[q] = pc[q] /\ page'[q] = page[q]
        /\ pc'[r] = "storing" /\ seen' = seen /\ UNCHANGED <<latest, raw, document, itemDocs>>
    BY <1>5 DEF InsertRaw
  <2> QED
    BY <1>5, <2>1
<1>6. CASE RecordPage(r)
  <2>1. /\ \A q \in Runner \ {r} : pc'[q] = pc[q] /\ page'[q] = page[q]
        /\ pc[r] = "storing" /\ pc'[r] = "fetching" /\ seen' = seen
    BY <1>6 DEF RecordPage
  <2> QED
    BY <2>1
<1>7. CASE UniqueViolation(r) \/ FetchError(r) \/ Abort(r)
  BY <1>7 DEF UniqueViolation, FetchError, Abort
<1>8. CASE ReadOutcomes(r) \/ ReadItems(r) \/ ReadRaw(r) \/ ReadDocuments(r)
  <2>1. \E from, s : \E to \in Reconciling : Read(r, from, to, s)
    BY <1>8 DEF ReadOutcomes, ReadItems, ReadRaw, ReadDocuments
  <2>2. /\ \A q \in Runner \ {r} : pc'[q] = pc[q] /\ page'[q] = page[q] /\ seen'[q] = seen[q]
        /\ UNCHANGED <<latest, raw, document, itemDocs>> /\ pc'[r] \in Reconciling
    BY <2>1 DEF Read
  <2> QED
    BY <1>8, <2>2
<1>9. CASE Reconcile(r) \/ ReconcileError(r) \/ Unlock(r) \/ Crash(r)
  BY <1>9 DEF Reconcile, ReconcileError, Unlock, Crash
<1> QED
  BY <1>1, <1>2, <1>3, <1>4, <1>5, <1>6, <1>7, <1>8, <1>9 DEF Run

\* Nothing is committed behind the back of a process that holds the lock.
LEMMA ReadsStep == IInv /\ [Next]_vars => DecisionStands' /\ ReadsStand'
<1> DEFINE Decision(q) == pc[q] = "storing" =>
             page[q].outcome = Outcome(page[q].key, page[q].content)
           Reads(q) ==
             /\ pc[q] \in Reconciling => seen[q].open = Unsettled
             /\ pc[q] \in Reconciling \ {"outcomes_read"} =>
                  seen[q].items = FetchedItems /\ seen[q].expected = ExpectedDocs
             /\ pc[q] \in {"raw_read", "documents_read"} => seen[q].raw = RawCount
             /\ pc[q] = "documents_read" => seen[q].documents = DocumentCount
<1> SUFFICES ASSUME IInv, [Next]_vars, NEW q \in Runner PROVE Decision(q)' /\ Reads(q)'
  BY DEF DecisionStands, ReadsStand
<1>0. TypeOK /\ LockHeld /\ Decision(q) /\ Reads(q)
  BY DEF IInv, RowsInv, DecisionStands, ReadsStand
<1>1. ASSUME UNCHANGED <<pc[q], page[q], seen[q], latest, raw, document, itemDocs>>
      PROVE  Decision(q)' /\ Reads(q)'
  <2>1. UNCHANGED <<Unsettled, FetchedItems, ExpectedDocs, RawCount, DocumentCount>>
    BY <1>1, CountsAre
  <2>2. Outcome(page[q].key, page[q].content)' = Outcome(page[q].key, page[q].content)
    BY <1>1 DEF Outcome
  <2> QED
    BY <1>0, <1>1, <2>1, <2>2
<1>2. ASSUME NEW r \in Runner, Run(r) \/ Crash(r), q # r PROVE Decision(q)' /\ Reads(q)'
  <2>1. pc'[q] = pc[q] /\ page'[q] = page[q] /\ seen'[q] = seen[q]
    BY <1>0, <1>2, ReadersStep
  <2>2. CASE UNCHANGED <<latest, raw, document, itemDocs>>
    BY <1>1, <2>1, <2>2
  <2>3. CASE pc[r] \in {"fetching", "storing"}
    <3>1. pc[q] \notin {"storing"} \cup Reconciling
      BY <1>0, <1>2, <2>3, OneRun DEF Running, Reconciling
    <3> QED
      BY <2>1, <3>1 DEF Reconciling
  <2> QED
    BY <1>0, <1>2, <2>2, <2>3, ReadersStep
<1>3. CASE Run(q) \/ Crash(q)
  <2>1. CASE pc'[q] = "storing"
    <3>1. InsertRaw(q)
      BY <1>0, <1>3, <2>1, ReadersStep
    <3>2. page'[q] = [key |-> page[q].key, content |-> page[q].content,
                      outcome |-> Outcome(page[q].key, page[q].content)]
          /\ document' = document
      BY <1>0, <3>1 DEF InsertRaw, TypeOK, rows
    <3>3. Outcome(page[q].key, page[q].content)' = Outcome(page[q].key, page[q].content)
      BY <3>2 DEF Outcome
    <3> QED
      BY <2>1, <3>2, <3>3 DEF Reconciling
  <2>2. CASE pc'[q] \in Reconciling
    <3>0. seen[q] \in [open : SUBSET Key, items : Nat, expected : Nat, raw : Nat, documents : Nat]
          /\ DOMAIN seen = Runner /\ DOMAIN pc = Runner
      BY <1>0 DEF TypeOK
    <3>1. UNCHANGED <<latest, raw, document, itemDocs>>
      BY <1>0, <1>3, <2>2, ReadersStep DEF Reconciling
    <3>2. UNCHANGED <<Unsettled, FetchedItems, ExpectedDocs, RawCount, DocumentCount>>
      BY <3>1, CountsAre
    <3>3. CASE ReadOutcomes(q)
      BY <3>0, <3>2, <3>3 DEF ReadOutcomes, Read, Goto, Reconciling
    <3>4. CASE ReadItems(q)
      BY <1>0, <3>0, <3>2, <3>4 DEF ReadItems, Read, Goto, Reconciling
    <3>5. CASE ReadRaw(q)
      BY <1>0, <3>0, <3>2, <3>5 DEF ReadRaw, Read, Goto, Reconciling
    <3>6. CASE ReadDocuments(q)
      BY <1>0, <3>0, <3>2, <3>6 DEF ReadDocuments, Read, Goto, Reconciling
    <3> QED
      BY <1>0, <1>3, <2>2, <3>3, <3>4, <3>5, <3>6, ReadersStep
  <2>3. CASE pc'[q] \notin {"storing"} \cup Reconciling
    BY <2>3 DEF Reconciling
  <2> QED
    BY <2>1, <2>2, <2>3
<1>4. CASE UNCHANGED vars
  BY <1>1, <1>4 DEF vars, rows, local
<1> QED
  BY <1>2, <1>3, <1>4 DEF Next

LEMMA InvStep == IInv /\ [Next]_vars => IInv'
BY RowsStep, ReadsStep DEF IInv

-----------------------------------------------------------------------------
(* The theorems *)

\* The rows of a batch, its lock and the process that runs it always belong together.
THEOREM BatchInvariant == Spec => []IInv
BY InvInit, InvStep, PTL DEF Spec

\* Every table column and every process variable stays within its domain.
THEOREM TypeCorrect == Spec => []TypeOK
<1>1. IInv => TypeOK
  BY DEF IInv, RowsInv
<1> QED
  BY <1>1, BatchInvariant, PTL

\* The advisory lock excludes concurrent runs of one batch (runner.py:139).
THEOREM LockExcludes == Spec => []RunsExclude
<1>1. IInv => RunsExclude
  BY OneRun DEF IInv, RowsInv, RunsExclude
<1> QED
  BY <1>1, BatchInvariant, PTL

\* A publication is stored once per batch (ADR 0007, "duplicate").
THEOREM StoredOnce == Spec => []OneDocumentPerPublication
<1>1. IInv => OneDocumentPerPublication
  BY DEF IInv, RowsInv
<1> QED
  BY <1>1, BatchInvariant, PTL

\* Rows and items that belong together add up.
LEMMA AddUp == ItemsMatchRows => RowsAddUp
<1> SUFFICES ASSUME ItemsMatchRows PROVE RowsAddUp
  OBVIOUS
<1>1. {k \in Key : raw[k] # NoRow} = {k \in Key : itemDocs[k] # NoRow}
  BY DEF ItemsMatchRows
<1>2. {k \in Key : document[k] # NoRow} = {k \in Key : itemDocs[k] = 1}
  BY DEF ItemsMatchRows
<1> QED
  BY <1>1, <1>2 DEF RowsAddUp, RawCount, FetchedItems, DocumentCount, ExpectedDocs

\* The cross-checks of _reconcile never fail, although it counts items, raw records and
\* documents in separate statements (runner.py:365-386, 421).
THEOREM ReconciliationHolds == Spec => []CrossChecksHold
<1>1. IInv => CrossChecksHold
  <2> SUFFICES ASSUME IInv, NEW r \in Runner, pc[r] = "documents_read"
               PROVE  ~Mismatch(seen[r])
    BY DEF CrossChecksHold
  <2>1. /\ seen[r].items = FetchedItems /\ seen[r].expected = ExpectedDocs
        /\ seen[r].raw = RawCount /\ seen[r].documents = DocumentCount
    BY DEF IInv, ReadsStand, Reconciling
  <2>2. RowsAddUp
    BY AddUp DEF IInv, RowsInv
  <2> QED
    BY <2>1, <2>2 DEF RowsAddUp, Mismatch
<1> QED
  BY <1>1, BatchInvariant, PTL

\* A complete batch has a final outcome for every key and a true document count.
THEOREM CompleteMeansSettled == Spec => []CompleteIsSettled
<1>1. IInv => CompleteIsSettled
  BY AddUp DEF IInv, RowsInv, CompleteRow, CompleteIsSettled
<1> QED
  BY <1>1, BatchInvariant, PTL

-----------------------------------------------------------------------------
(* What a step may do *)

\* The steps that touch neither outcomes nor documents nor the completion.
Quiet ==
  /\ UNCHANGED <<latest, raw, document, itemDocs>>
  /\ (status' = "complete") <=> (status = "complete")

LEMMA Steps ==
  ASSUME IInv, [Next]_vars
  PROVE  \/ Quiet /\ (status = "complete" => UNCHANGED rows)
         \/ \E r \in Runner : \/ \E k \in Key, o \in Misses : RecordMiss(r, k, o)
                              \/ RecordPage(r)
                              \/ Reconcile(r)
<1> USE DEF Quiet, rows
<1>1. ASSUME NEW r \in Runner, NEW v \in Version, Start(r, v)
      PROVE Quiet /\ (status = "complete" => UNCHANGED rows)
  BY <1>1 DEF Start, FirstSource
<1>2. ASSUME NEW r \in Runner, Prepare(r)
      PROVE Quiet /\ (status = "complete" => UNCHANGED rows)
  BY <1>2 DEF Prepare, IInv, RowsInv, RunSeesRunning
<1>3. ASSUME NEW r \in Runner, Abort(r)
      PROVE Quiet /\ (status = "complete" => UNCHANGED rows)
  BY <1>3 DEF Abort, IInv, RowsInv, RunSeesRunning
<1>4. ASSUME NEW r \in Runner, NEW v \in Version, Resume(r, v) PROVE UNCHANGED rows
  BY <1>4 DEF Resume
<1>5. ASSUME NEW r \in Runner,
             \/ LockStarted(r) \/ Busy(r) \/ Refuse(r) \/ Admit(r) \/ PrepareError(r)
             \/ InsertRaw(r) \/ UniqueViolation(r) \/ FetchError(r) \/ ReconcileError(r)
             \/ Unlock(r) \/ Crash(r)
      PROVE UNCHANGED rows
  BY <1>5 DEF LockStarted, Busy, Refuse, Admit, PrepareError, InsertRaw, UniqueViolation,
     FetchError, ReconcileError, Unlock, Crash
<1>6. ASSUME NEW r \in Runner,
             ReadOutcomes(r) \/ ReadItems(r) \/ ReadRaw(r) \/ ReadDocuments(r)
      PROVE UNCHANGED rows
  BY <1>6 DEF ReadOutcomes, ReadItems, ReadRaw, ReadDocuments, Read
<1>7. ASSUME NEW r \in Runner, NEW k \in Key, NEW p \in Content, PutPage(r, k, p)
      PROVE UNCHANGED rows
  BY <1>7 DEF PutPage
<1>8. CASE UNCHANGED vars
  BY <1>8 DEF vars
<1>9. UNCHANGED rows => Quiet /\ (status = "complete" => UNCHANGED rows)
  OBVIOUS
<1> HIDE DEF Quiet, rows
<1> QED
  BY <1>1, <1>2, <1>3, <1>4, <1>5, <1>6, <1>7, <1>8, <1>9 DEF Next, Run

LEMMA FrozenStep == IInv /\ [Next]_vars => (status = "complete" => UNCHANGED rows)
<1> SUFFICES ASSUME IInv, [Next]_vars, status = "complete" PROVE UNCHANGED rows
  OBVIOUS
<1>0. RunSeesRunning
  BY DEF IInv, RowsInv
<1>1. ASSUME NEW r \in Runner, NEW k \in Key, NEW o \in Misses, RecordMiss(r, k, o)
      PROVE FALSE
  BY <1>0, <1>1 DEF RecordMiss, RunSeesRunning
<1>2. ASSUME NEW r \in Runner, RecordPage(r) PROVE FALSE
  BY <1>0, <1>2 DEF RecordPage, RunSeesRunning
<1>3. ASSUME NEW r \in Runner, Reconcile(r) PROVE FALSE
  BY <1>0, <1>3 DEF Reconcile, RunSeesRunning, Reconciling
<1> QED
  BY <1>1, <1>2, <1>3, Steps

\* No step changes a complete batch (runner.py:203, and the lock for runs under way).
THEOREM CompleteNeverChanges == Spec => CompleteIsFrozen
BY BatchInvariant, FrozenStep, PTL DEF Spec, CompleteIsFrozen

LEMMA FinalStep ==
  IInv /\ [Next]_vars =>
    \A k \in Key : latest[k] \in FinalOutcomes =>
      UNCHANGED <<latest[k], raw[k], document[k], itemDocs[k]>>
<1> SUFFICES ASSUME IInv, [Next]_vars, NEW k \in Key, latest[k] \in FinalOutcomes
             PROVE UNCHANGED <<latest[k], raw[k], document[k], itemDocs[k]>>
  OBVIOUS
<1>0. TypeOK /\ LocalsOK /\ PendingIsUnsettled /\ PageIsStored /\ RowsMatchOutcome
  BY DEF IInv, RowsInv
<1>1. ASSUME NEW r \in Runner, NEW j \in Key, NEW o \in Misses, RecordMiss(r, j, o)
      PROVE UNCHANGED <<latest[k], raw[k], document[k], itemDocs[k]>>
  BY <1>0, <1>1, PendingKey DEF RecordMiss, TypeOK
<1>2. ASSUME NEW r \in Runner, RecordPage(r)
      PROVE UNCHANGED <<latest[k], raw[k], document[k], itemDocs[k]>>
  <2>1. page[r].key \in Key /\ page[r].key \in pending[r]
    BY <1>0, <1>2 DEF RecordPage, LocalsOK, PageIsStored, Page
  <2>2. page[r].key # k
    BY <1>0, <1>2, <2>1, PendingKey DEF RecordPage
  <2> QED
    BY <1>0, <1>2, <2>1, <2>2 DEF RecordPage, TypeOK
<1>3. ASSUME NEW r \in Runner, Reconcile(r)
      PROVE UNCHANGED <<latest[k], raw[k], document[k], itemDocs[k]>>
  BY <1>3 DEF Reconcile
<1> QED
  BY <1>1, <1>2, <1>3, Steps DEF Quiet

\* A final outcome and the rows behind it stand for good (runner.py:46, 212).
THEOREM OutcomesStand == Spec => FinalOutcomesStand
BY BatchInvariant, FinalStep, PTL DEF Spec, FinalOutcomesStand

-----------------------------------------------------------------------------
(* The batch implements its contract *)

Settled == [k \in Key |-> IF latest[k] \in FinalOutcomes THEN latest[k] ELSE "open"]
Holding == {p \in Pub : \E k \in Key : document[k] = p}
Closed  == status = "complete"

LEMMA ContractInit == Init => Contract!Init
BY NoRowIsNoRow DEF Init, Contract!Init, FinalOutcomes, FetchedOutcomes

LEMMA ContractStep == IInv /\ [Next]_vars => [Contract!Next]_Contract!vars
<1> SUFFICES ASSUME IInv, [Next]_vars PROVE [Contract!Next]_Contract!vars
  OBVIOUS
<1>0. /\ TypeOK /\ LocalsOK /\ RunSeesRunning /\ PendingIsUnsettled /\ PageIsStored
      /\ RowsMatchOutcome /\ DecisionStands /\ ReadsStand
  BY DEF IInv, RowsInv
<1>1. CASE Quiet
  BY <1>1 DEF Quiet, Contract!vars
<1>2. ASSUME NEW r \in Runner, NEW k \in Key, NEW o \in Misses, RecordMiss(r, k, o)
      PROVE [Contract!Next]_Contract!vars
  <2>1. latest[k] \notin FinalOutcomes /\ ~Closed
    BY <1>0, <1>2, PendingKey DEF RecordMiss, RunSeesRunning, Closed
  <2>2. latest' = [latest EXCEPT ![k] = o] /\ latest \in [Key -> Outcomes \cup {"none"}]
        /\ UNCHANGED <<document, status>>
    BY <1>0, <1>2 DEF RecordMiss, TypeOK
  <2>3. CASE o = "failed"
    <3>1. Settled' = Settled
      BY <2>1, <2>2, <2>3 DEF Settled, FinalOutcomes, FetchedOutcomes
    <3> QED
      BY <2>2, <3>1 DEF Settled, Contract!vars
  <2>4. CASE o # "failed"
    <3>1. Settled' = [Settled EXCEPT ![k] = o] /\ Settled[k] = "open"
      BY <2>1, <2>2, <2>4 DEF Settled, FinalOutcomes, FetchedOutcomes, Misses
    <3>2. Contract!SettleOther(k, o)
      BY <2>1, <2>2, <3>1, <1>2 DEF Contract!SettleOther, Settled, Closed, Misses
    <3> QED
      BY <2>4, <3>2 DEF Contract!Next, Misses
  <2> QED
    BY <2>3, <2>4
<1>3. ASSUME NEW r \in Runner, RecordPage(r) PROVE [Contract!Next]_Contract!vars
  <2> DEFINE k == page[r].key
             p == page[r].content
             o == page[r].outcome
  <2>1. k \in Key /\ p \in Content /\ k \in pending[r] /\ pc[r] = "storing"
    BY <1>0, <1>3 DEF RecordPage, LocalsOK, PageIsStored, Page
  <2>2. latest[k] \notin FinalOutcomes /\ document[k] = NoRow /\ ~Closed
    BY <1>0, <2>1, PendingKey DEF RunSeesRunning, Closed
  <2>3. /\ latest' = [latest EXCEPT ![k] = o] /\ latest \in [Key -> Outcomes \cup {"none"}]
        /\ document' = [document EXCEPT ![k] = IF o = "stored" THEN p ELSE NoRow]
        /\ document \in [Key -> Pub \cup {NoRow}]
        /\ status' = status
    BY <1>0, <1>3 DEF RecordPage, TypeOK
  <2>4. o = Outcome(k, p)
    BY <1>0, <2>1 DEF DecisionStands
  <2> HIDE DEF k, p, o
  <2>5. o \in FetchedOutcomes /\ (o = "stored" => p \in Pub /\ \A j \in Key : document[j] # p)
    BY <2>1, <2>4, OutcomeOf
  <2>6. o = "duplicate" => Holding # {}
    BY <2>1, <2>4, ConstantsAssumption DEF Outcome, Holding
  <2>7. Settled' = [Settled EXCEPT ![k] = o] /\ Settled[k] = "open"
    BY <2>1, <2>2, <2>3, <2>5 DEF Settled, FinalOutcomes
  <2>8. CASE o = "stored"
    <3>1. Holding' = Holding \cup {p} /\ p \notin Holding /\ p \in Pub
      BY <2>1, <2>2, <2>3, <2>5, <2>8, NoRowIsNoRow DEF Holding
    <3>2. Contract!SettleStored(k, p)
      BY <2>2, <2>3, <2>7, <2>8, <3>1 DEF Contract!SettleStored, Settled, Holding, Closed
    <3> QED
      BY <2>1, <3>1, <3>2 DEF Contract!Next, Contract!SettleStored
  <2>9. CASE o # "stored"
    <3>1. Holding' = Holding
      BY <2>1, <2>2, <2>3, <2>9, NoRowIsNoRow DEF Holding
    <3>2. Contract!SettleOther(k, o)
      BY <2>2, <2>3, <2>6, <2>7, <3>1 DEF Contract!SettleOther, Settled, Holding, Closed
    <3> QED
      BY <2>1, <2>5, <2>9, <3>2 DEF Contract!Next, Contract!SettleOther, FetchedOutcomes
  <2> QED
    BY <2>8, <2>9
<1>4. ASSUME NEW r \in Runner, Reconcile(r) PROVE [Contract!Next]_Contract!vars
  <2>1. ~Closed /\ UNCHANGED <<latest, document>>
    BY <1>0, <1>4 DEF Reconcile, RunSeesRunning, Reconciling, Closed
  <2>2. CASE status' # "complete"
    BY <2>1, <2>2 DEF Contract!vars, Closed
  <2>3. CASE status' = "complete"
    <3>1. Unsettled = {}
      BY <1>0, <1>4, <2>3 DEF Reconcile, ReadsStand, Reconciling
    <3>2. \A k \in Key : Settled[k] # "open"
      BY <3>1 DEF Unsettled, Settled, FinalOutcomes, FetchedOutcomes
    <3>3. Contract!Close
      BY <2>1, <2>3, <3>2 DEF Contract!Close, Closed, Settled
    <3> QED
      BY <3>3 DEF Contract!Next
  <2> QED
    BY <2>2, <2>3
<1> QED
  BY <1>1, <1>2, <1>3, <1>4, Steps

\* For any number of runners and whatever crashes, the rows of a batch only ever move
\* as its contract allows.
THEOREM Refinement == Spec => ImplementsContract
BY BatchInvariant, ContractInit, ContractStep, PTL DEF Spec, ImplementsContract, Contract!Spec

-----------------------------------------------------------------------------
(* What survives the loss of a lock                                        *)
(*                                                                         *)
(* When the database drops the connection that holds the lock, runs do     *)
(* interleave (SpecLockLoss), and most of IInv is lost: two transactions   *)
(* that ask at once what is stored may both store one publication, for two *)
(* keys, and a reconciliation may count rows of different moments.  What is*)
(* left rests on transactions, on the raw record's unique constraint and on*)
(* the check of the version in _prepare.                                   *)

\* An upload precedes the transaction that refers to it.
PageIsUploaded ==
  \A r \in Runner : pc[r] \in {"recording", "storing"} => page[r].content \in objects

\* Only processes of the batch's own version get past _prepare.
VersionIsBatchs ==
  \A r \in Runner : pc[r] \in {"admitted", "fetching", "recording", "storing"} =>
    version[r] = adapter

\* At most one open transaction has inserted a raw record of a key, and none when one
\* is committed.
InsertsAreFresh ==
  \A r \in Runner : pc[r] = "storing" =>
    /\ raw[page[r].key] = NoRow
    /\ \A q \in Runner : pc[q] = "storing" /\ page[q].key = page[r].key => q = r

\* Nothing happens before there is a batch row.
NothingYet ==
  status = "none" => /\ \A r \in Runner : pc[r] = "idle"
                     /\ \A k \in Key : raw[k] = NoRow

LInv ==
  /\ TypeOK /\ LocalsOK /\ PageIsUploaded /\ VersionIsBatchs /\ InsertsAreFresh /\ NothingYet
  /\ ItemsMatchRows /\ RawFirst /\ OneAdapterVersion

LEMMA LInvInit == Init => LInv
<1> SUFFICES ASSUME Init PROVE LInv
  OBVIOUS
<1>1. IInv
  BY InvInit
<1>2. PageIsUploaded /\ VersionIsBatchs /\ InsertsAreFresh /\ NothingYet /\ OneAdapterVersion
  BY DEF Init, PageIsUploaded, VersionIsBatchs, InsertsAreFresh, NothingYet, OneAdapterVersion
<1> QED
  BY <1>1, <1>2 DEF LInv, IInv, RowsInv

\* The transaction of a fetched page reads and decides, whoever else is inside.
LEMMA InsertRawStep ==
  ASSUME LInv, NEW r \in Runner, InsertRaw(r)
  PROVE  LInv'
<1> DEFINE k == page[r].key
           p == page[r].content
           o == Outcome(k, p)
<1> USE DEF LInv, TypeOK, LocalsOK, PC
<1>1. k \in Key /\ p \in Content /\ p \in objects
  BY DEF InsertRaw, PageIsUploaded, Page
<1>2. o \in FetchedOutcomes /\ (o = "stored" => p \in Pub)
  BY <1>1, OutcomeOf
<1>3. /\ raw[k] = NoRow /\ \A q \in Runner : ~(pc[q] = "storing" /\ page[q].key = k)
      /\ page' = [page EXCEPT ![r] = [key |-> k, content |-> p, outcome |-> o]]
      /\ pc' = [pc EXCEPT ![r] = "storing"] /\ pc[r] = "recording"
      /\ UNCHANGED <<rows, objects, lock, version, source, pending, seen>>
  BY DEF InsertRaw, Goto, InsertUnderWay
<1> HIDE DEF k, p, o
<1>4. TypeOK' /\ LocalsOK'
  BY <1>1, <1>2, <1>3 DEF rows, Page
<1>5. PageIsUploaded' /\ VersionIsBatchs' /\ NothingYet'
  BY <1>1, <1>3 DEF rows, PageIsUploaded, VersionIsBatchs, NothingYet
<1>6. InsertsAreFresh'
  BY <1>1, <1>3 DEF rows, InsertsAreFresh
<1>7. ItemsMatchRows' /\ RawFirst' /\ OneAdapterVersion'
  BY <1>3 DEF rows, ItemsMatchRows, RawFirst, OneAdapterVersion
<1> QED
  BY <1>4, <1>5, <1>6, <1>7

\* It commits.
LEMMA RecordPageStep ==
  ASSUME LInv, NEW r \in Runner, RecordPage(r)
  PROVE  LInv'
<1> DEFINE k == page[r].key
           p == page[r].content
           o == page[r].outcome
           row == [content |-> p, origin |-> source[r], by |-> version[r]]
<1> USE DEF LInv, TypeOK, LocalsOK, PC
<1>1. k \in Key /\ p \in Content /\ p \in objects /\ pc[r] = "storing"
  BY DEF RecordPage, PageIsUploaded, Page
<1>2. o \in FetchedOutcomes /\ (o = "stored" => p \in Pub)
  BY <1>1
<1>3. row \in RawRow /\ row.by = adapter
  BY <1>1 DEF RawRow, VersionIsBatchs
<1>4. /\ raw' = [raw EXCEPT ![k] = row]
      /\ document' = [document EXCEPT ![k] = IF o = "stored" THEN p ELSE NoRow]
      /\ itemDocs' = [itemDocs EXCEPT ![k] = IF o = "stored" THEN 1 ELSE 0]
      /\ latest' = [latest EXCEPT ![k] = o]
      /\ pending' = [pending EXCEPT ![r] = @ \ {k}]
      /\ page' = [page EXCEPT ![r] = NoRow]
      /\ pc' = [pc EXCEPT ![r] = "fetching"]
      /\ UNCHANGED <<status, adapter, storedCount, lastEvent, objects, lock, version, source, seen>>
  BY DEF RecordPage, Goto
<1>5. \A q \in Runner \ {r} : pc[q] = "storing" => page[q].key \in Key /\ page[q].key # k
  BY <1>1 DEF InsertsAreFresh, Page
<1> HIDE DEF k, p, o, row
<1>6. TypeOK' /\ LocalsOK'
  BY <1>1, <1>2, <1>3, <1>4 DEF FetchedOutcomes, Outcomes
<1>7. PageIsUploaded' /\ VersionIsBatchs'
  BY <1>1, <1>4 DEF PageIsUploaded, VersionIsBatchs
<1>8. InsertsAreFresh'
  BY <1>1, <1>4, <1>5 DEF InsertsAreFresh
<1>9. NothingYet' /\ OneAdapterVersion'
  BY <1>1, <1>3, <1>4 DEF NothingYet, OneAdapterVersion
<1>10. ItemsMatchRows'
  BY <1>1, <1>2, <1>3, <1>4, NoRowIsNoRow DEF ItemsMatchRows
<1>11. RawFirst'
  <2>1. row.content = p
    BY DEF row
  <2> QED
    BY <1>1, <1>4, <2>1 DEF RawFirst
<1> QED
  BY <1>6, <1>7, <1>8, <1>9, <1>10, <1>11

LEMMA LInvStep == LInv /\ [NextLockLoss]_vars => LInv'
<1> SUFFICES ASSUME LInv, [NextLockLoss]_vars PROVE LInv'
  OBVIOUS
<1>a. NothingSeen \in [open : SUBSET Key, items : Nat, expected : Nat, raw : Nat, documents : Nat]
  BY DEF NothingSeen
<1> USE NoRowIsNoRow DEF LInv, TypeOK, LocalsOK, PageIsUploaded, VersionIsBatchs, InsertsAreFresh,
        NothingYet, ItemsMatchRows, RawFirst, OneAdapterVersion,
        PC, Reconciling, Outcomes, FetchedOutcomes, FinalOutcomes, Misses, RawRow, Goto, local, rows
<1>1. ASSUME NEW r \in Runner, NEW v \in Version, Start(r, v) PROVE LInv'
  BY <1>1 DEF Start, FirstSource
<1>2. ASSUME NEW r \in Runner, LockStarted(r) PROVE LInv'
  BY <1>2 DEF LockStarted
<1>3. ASSUME NEW r \in Runner, Busy(r) PROVE LInv'
  BY <1>3, <1>a DEF Busy, Leave, Forget
<1>4. ASSUME NEW r \in Runner, NEW v \in Version, Resume(r, v) PROVE LInv'
  BY <1>4 DEF Resume
<1>5. ASSUME NEW r \in Runner, Refuse(r) \/ Admit(r) PROVE LInv'
  <2>1. CASE Refuse(r)
    BY <2>1 DEF Refuse
  <2>2. CASE Admit(r)
    BY <2>2 DEF Admit, Refused
  <2> QED
    BY <1>5, <2>1, <2>2
<1>6. ASSUME NEW r \in Runner, Prepare(r) PROVE LInv'
  BY <1>6 DEF Prepare, Unsettled
<1>7. ASSUME NEW r \in Runner, PrepareError(r) PROVE LInv'
  BY <1>7 DEF PrepareError
<1>8. ASSUME NEW r \in Runner, NEW k \in Key, NEW o \in Misses, RecordMiss(r, k, o) PROVE LInv'
  BY <1>8 DEF RecordMiss
<1>9. ASSUME NEW r \in Runner, NEW k \in Key, NEW p \in Content, PutPage(r, k, p) PROVE LInv'
  BY <1>9 DEF PutPage, Page
<1>10. ASSUME NEW r \in Runner, UniqueViolation(r) \/ FetchError(r) PROVE LInv'
  <2>1. /\ pc[r] \in {"fetching", "recording", "storing"}
        /\ pc' = [pc EXCEPT ![r] = "aborting"]
        /\ pending' = [pending EXCEPT ![r] = {}] /\ page' = [page EXCEPT ![r] = NoRow]
        /\ seen' = [seen EXCEPT ![r] = NothingSeen]
        /\ UNCHANGED <<rows, objects, lock, version, source>>
    BY <1>10 DEF UniqueViolation, FetchError, Forget
  <2> QED
    BY <2>1, <1>a
<1>11. ASSUME NEW r \in Runner, Abort(r) PROVE LInv'
  BY <1>11 DEF Abort
<1>12. ASSUME NEW r \in Runner,
              ReadOutcomes(r) \/ ReadItems(r) \/ ReadRaw(r) \/ ReadDocuments(r)
       PROVE  LInv'
  <2>1. /\ TypeOK'
        /\ pc'[r] \in Reconciling /\ pc[r] \in {"fetching"} \cup Reconciling
        /\ UNCHANGED <<rows, objects, lock, version, source, pending, page>>
        /\ \A q \in Runner \ {r} : pc'[q] = pc[q]
    BY <1>12, ReadIsTyped
  <2>2. LocalsOK' /\ PageIsUploaded' /\ VersionIsBatchs'
    BY <2>1
  <2>3. InsertsAreFresh' /\ NothingYet' /\ ItemsMatchRows' /\ RawFirst' /\ OneAdapterVersion'
    BY <2>1
  <2> QED
    BY <2>1, <2>2, <2>3
<1>13. ASSUME NEW r \in Runner, Reconcile(r) PROVE LInv'
  <2>1. /\ pc[r] = "documents_read" /\ pc' = [pc EXCEPT ![r] = "unlocking"]
        /\ pending' = [pending EXCEPT ![r] = {}] /\ page' = [page EXCEPT ![r] = NoRow]
        /\ seen' = [seen EXCEPT ![r] = NothingSeen]
        /\ status' \in {"failed", "complete"}
        /\ lastEvent' \in {"finished_complete", "finished_failed"}
        /\ storedCount' = seen[r].documents /\ seen[r].documents \in Nat
        /\ UNCHANGED <<adapter, latest, raw, document, itemDocs, objects, lock, version, source>>
    BY <1>13 DEF Reconcile, Forget
  <2> QED
    BY <2>1, <1>a
<1>14. ASSUME NEW r \in Runner, ReconcileError(r) PROVE LInv'
  BY <1>14, <1>a DEF ReconcileError, Forget
<1>15. ASSUME NEW r \in Runner, Unlock(r) \/ Crash(r) PROVE LInv'
  <2>1. TypeOK'
    BY <1>15, LeaveIsTyped DEF Unlock, Crash
  <2> USE <1>15, <1>a DEF Unlock, Crash, Leave, Forget, Release
  <2>2. LocalsOK' /\ PageIsUploaded' /\ VersionIsBatchs'
    BY SMTT(60)
  <2>3. NothingYet' /\ ItemsMatchRows' /\ RawFirst' /\ OneAdapterVersion'
    OBVIOUS
  <2>4. InsertsAreFresh'
    <3>1. /\ pc' = [pc EXCEPT ![r] = "idle"] /\ page' = [page EXCEPT ![r] = NoRow]
          /\ raw' = raw /\ DOMAIN pc = Runner /\ DOMAIN page = Runner
      OBVIOUS
    <3> QED
      BY ONLY <3>1, InsertsAreFresh DEF InsertsAreFresh
  <2> QED
    BY <2>1, <2>2, <2>3, <2>4
<1>16. ASSUME NEW r \in Runner, LoseLock(r) PROVE LInv'
  BY <1>16 DEF LoseLock
<1>17. CASE UNCHANGED vars
  BY <1>17 DEF vars
<1> HIDE DEF LInv, TypeOK, LocalsOK, PageIsUploaded, VersionIsBatchs, InsertsAreFresh,
        NothingYet, ItemsMatchRows, RawFirst, OneAdapterVersion,
        PC, Reconciling, Outcomes, FetchedOutcomes, FinalOutcomes, Misses, RawRow, Goto, local, rows
<1> QED
  BY <1>1, <1>2, <1>3, <1>4, <1>5, <1>6, <1>7, <1>8, <1>9, <1>10, <1>11, <1>12, <1>13,
     <1>14, <1>15, <1>16, <1>17, InsertRawStep, RecordPageStep DEF NextLockLoss, Next, Run

\* What the transactions, the constraint and _prepare's check guarantee by themselves.
\* It does not say that a publication is stored once: without the lock it may not be.
THEOREM LockLossInvariant == SpecLockLoss => []LInv
BY LInvInit, LInvStep, PTL DEF SpecLockLoss

\* Every raw record was made by the version on the batch row, whatever version of the
\* program has been run on the batch (runner.py:203) and even without the lock.
THEOREM OneVersion == SpecLockLoss => []OneAdapterVersion
<1>1. LInv => OneAdapterVersion
  BY DEF LInv
<1> QED
  BY <1>1, LockLossInvariant, PTL

\* Runs that interleave still commit no half item: the committed rows add up.  A run
\* that counts them in several statements may find otherwise (CrossChecksHold).
THEOREM AlwaysAddsUp == SpecLockLoss => []RowsAddUp
<1>1. LInv => RowsAddUp
  BY AddUp DEF LInv
<1> QED
  BY <1>1, LockLossInvariant, PTL

\* Nor do they commit a raw record whose payload is not stored (runner.py:250, raw first).
THEOREM AlwaysRawFirst == SpecLockLoss => []RawFirst
<1>1. LInv => RawFirst
  BY DEF LInv
<1> QED
  BY <1>1, LockLossInvariant, PTL

\* A key's raw record, its document and its count are written once: a run that has lost
\* its lock never replaces what another has recorded.
RecordedRowsStand ==
  [][\A k \in Key : raw[k] # NoRow => UNCHANGED <<raw[k], document[k], itemDocs[k]>>]_vars

\* What the unique constraint on (batch, key) keeps, without the lock.
LEMMA RowsStayStep ==
  LInv /\ [NextLockLoss]_vars =>
    \A k \in Key : raw[k] # NoRow => UNCHANGED <<raw[k], document[k], itemDocs[k]>>
<1> SUFFICES ASSUME LInv, [NextLockLoss]_vars, NEW k \in Key, raw[k] # NoRow
             PROVE UNCHANGED <<raw[k], document[k], itemDocs[k]>>
  OBVIOUS
<1>0. TypeOK /\ InsertsAreFresh
  BY DEF LInv
<1>1. ASSUME NEW r \in Runner, RecordPage(r) PROVE UNCHANGED <<raw[k], document[k], itemDocs[k]>>
  <2>1. page[r].key # k
    BY <1>0, <1>1 DEF RecordPage, InsertsAreFresh
  <2> QED
    BY <1>0, <1>1, <2>1 DEF RecordPage, TypeOK
<1>2. ASSUME NEW r \in Runner, ~RecordPage(r), Run(r) \/ Crash(r) \/ LoseLock(r)
      PROVE  UNCHANGED <<raw, document, itemDocs>>
  <2> USE DEF rows
  <2>1. ASSUME NEW v \in Version, Start(r, v) \/ Resume(r, v)
        PROVE  UNCHANGED <<raw, document, itemDocs>>
    BY <2>1 DEF Start, Resume
  <2>2. ASSUME NEW j \in Key, NEW o \in Misses, RecordMiss(r, j, o)
        PROVE  UNCHANGED <<raw, document, itemDocs>>
    BY <2>2 DEF RecordMiss
  <2>3. ASSUME NEW j \in Key, NEW p \in Content, PutPage(r, j, p)
        PROVE  UNCHANGED <<raw, document, itemDocs>>
    BY <2>3 DEF PutPage
  <2>4. CASE LockStarted(r) \/ Busy(r) \/ Refuse(r) \/ Admit(r) \/ Prepare(r) \/ PrepareError(r)
    BY <2>4 DEF LockStarted, Busy, Refuse, Admit, Prepare, PrepareError
  <2>5. CASE InsertRaw(r) \/ UniqueViolation(r) \/ FetchError(r) \/ Abort(r)
    BY <2>5 DEF InsertRaw, UniqueViolation, FetchError, Abort
  <2>6. CASE ReadOutcomes(r) \/ ReadItems(r) \/ ReadRaw(r) \/ ReadDocuments(r)
    BY <2>6 DEF ReadOutcomes, ReadItems, ReadRaw, ReadDocuments, Read
  <2>7. CASE Reconcile(r) \/ ReconcileError(r) \/ Unlock(r) \/ Crash(r) \/ LoseLock(r)
    BY <2>7 DEF Reconcile, ReconcileError, Unlock, Crash, LoseLock
  <2> HIDE DEF rows
  <2> QED
    BY <1>2, <2>1, <2>2, <2>3, <2>4, <2>5, <2>6, <2>7 DEF Run
<1>3. CASE UNCHANGED vars
  BY <1>3 DEF vars, rows
<1> QED
  BY <1>1, <1>2, <1>3 DEF NextLockLoss, Next

\* The unique constraint (models.py, raw_record) keeps recorded rows, lock or no lock.
THEOREM RowsStay == SpecLockLoss => RecordedRowsStand
BY LockLossInvariant, RowsStayStep, PTL DEF SpecLockLoss, RecordedRowsStand

=============================================================================
