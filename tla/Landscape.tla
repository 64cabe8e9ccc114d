------------------------------ MODULE Landscape ------------------------------
(***************************************************************************)
(* One landscape: taxonomy versions, approvals and query sets              *)
(* (src/patsquire_plr/landscape/store.py, search.py, cli_landscape.py).    *)
(*                                                                         *)
(* Everything is append-only and "current" is derived: the newest version, *)
(* and for any subject the newest decision.  Sessions are runs of the      *)
(* command line, by several people at once.  A transaction that holds a    *)
(* lock is two steps, its read under the lock and its commit; the check    *)
(* that a taxonomy is approved and the creation of its query set are two   *)
(* transactions.                                                           *)
(***************************************************************************)
EXTENDS Naturals, Sequences, FiniteSets

CONSTANTS
  Session,
  ApprovalMode,  \* settings.landscape.approval_mode
  None,
  MaxVersions,   \* bounds: taxonomy versions,
  MaxQuerySets,  \* query sets,
  MaxClock       \* and decisions

ASSUME LandscapeAssumption ==
  /\ ApprovalMode \in {"human", "automatic"}
  /\ None \notin Session
  /\ MaxVersions \in Nat /\ MaxQuerySets \in Nat /\ MaxClock \in Nat

VARIABLES
  versions,      \* taxonomy_version rows
  querySets,     \* query_set rows
  approvals,     \* approval rows, in the order they are committed
  clock,         \* clock_timestamp(): every reading is later than the one before
  landscapeLock, \* session holding the landscape's transaction lock
  subjectLock,   \* session holding each subject's transaction lock
  pc,            \* where each session is
  row,           \* the taxonomy version a session is about to add
  subject,       \* what it decides about or generates from
  decision       \* the approval row it is about to add

vars == <<versions, querySets, approvals, clock, landscapeLock, subjectLock,
          pc, row, subject, decision>>
tables == <<versions, querySets, approvals>>

Subject == [type : {"taxonomy_version"}, id : 1..MaxVersions]
           \cup [type : {"query_set"}, id : 1..MaxQuerySets]

Init ==
  /\ versions = {} /\ querySets = {} /\ approvals = <<>>
  /\ clock = 0
  /\ landscapeLock = None /\ subjectLock = [x \in Subject |-> None]
  /\ pc = [s \in Session |-> "idle"]
  /\ row = [s \in Session |-> None]
  /\ subject = [s \in Session |-> None]
  /\ decision = [s \in Session |-> None]

-----------------------------------------------------------------------------
(* Helpers *)

Goto(s, label) == pc' = [pc EXCEPT ![s] = label]

\* The number of the newest version, 0 without one.
Newest == IF versions = {} THEN 0
          ELSE CHOOSE n \in {v.version : v \in versions} : \A v \in versions : v.version <= n

TaxonomyVersion(n) == [type |-> "taxonomy_version", id |-> n]
QuerySet(n) == [type |-> "query_set", id |-> n]

Exists(x) == IF x.type = "taxonomy_version" THEN \E v \in versions : v.version = x.id
             ELSE \E q \in querySets : q.id = x.id

\* latest_decision: ORDER BY created_at DESC LIMIT 1.
Decisions(x) == {i \in DOMAIN approvals : approvals[i].subject = x}
LatestDecision(x) ==
  CHOOSE i \in Decisions(x) : \A j \in Decisions(x) : approvals[j].at <= approvals[i].at
Approved(x) == Decisions(x) # {} /\ approvals[LatestDecision(x)].decision = "approved"

\* The end of a session's current transaction and of what it has in hand.
Quit(s) ==
  /\ landscapeLock' = IF landscapeLock = s THEN None ELSE landscapeLock
  /\ subjectLock' = [x \in Subject |-> IF subjectLock[x] = s THEN None ELSE subjectLock[x]]
  /\ row' = [row EXCEPT ![s] = None]
  /\ subject' = [subject EXCEPT ![s] = None]
  /\ decision' = [decision EXCEPT ![s] = None]
  /\ Goto(s, "idle")

\* _auto_approve, when the mode is automatic; else the command is over.  Either way the
\* transaction that made the subject has ended.
AutoApprove(s, x) ==
  IF ApprovalMode = "automatic"
  THEN /\ Goto(s, "deciding")
       /\ subject' = [subject EXCEPT ![s] = x]
       /\ decision' = [decision EXCEPT ![s] = [decision |-> "approved", mode |-> "automatic"]]
       /\ landscapeLock' = IF landscapeLock = s THEN None ELSE landscapeLock
       /\ row' = [row EXCEPT ![s] = None]
       /\ UNCHANGED subjectLock
  ELSE Quit(s)

-----------------------------------------------------------------------------
(* Taxonomy versions *)

\* `plr taxonomy draft`, once the model has answered.
Draft(s) ==
  /\ pc[s] = "idle"
  /\ row' = [row EXCEPT ![s] = [parent |-> 0, origin |-> "llm_draft"]]
  /\ Goto(s, "adding")
  /\ UNCHANGED <<tables, clock, landscapeLock, subjectLock, subject, decision>>

\* `plr taxonomy show`: a person exports the newest version and edits the file.
Export(s) ==
  /\ pc[s] = "idle"
  /\ row' = [row EXCEPT ![s] = [parent |-> Newest, origin |-> "user_edit"]]
  /\ Goto(s, "editing")
  /\ UNCHANGED <<tables, clock, landscapeLock, subjectLock, subject, decision>>

\* `plr taxonomy import`: the file's base_version must be the newest version.
Import(s) ==
  /\ pc[s] = "editing" /\ row[s].parent = Newest
  /\ Goto(s, "adding")
  /\ UNCHANGED <<tables, clock, landscapeLock, subjectLock, row, subject, decision>>

RefuseImport(s) ==
  /\ pc[s] = "editing" /\ row[s].parent # Newest
  /\ Quit(s)
  /\ UNCHANGED <<tables, clock>>

\* Mutation: the edit's parent is not compared under the lock.
LockLandscape_NoCheck(s) ==
  /\ pc[s] = "adding" /\ landscapeLock = None
  /\ Newest < MaxVersions
  /\ landscapeLock' = s
  /\ row' = [row EXCEPT ![s] = [version |-> Newest + 1, parent |-> @.parent, origin |-> @.origin]]
  /\ Goto(s, "inserting")
  /\ UNCHANGED <<tables, clock, subjectLock, subject, decision>>

\* add_taxonomy_version: the newest version is read under the landscape's lock, and an
\* edit of an older one is stale.
LockLandscape(s) ==
  /\ pc[s] = "adding" /\ landscapeLock = None
  /\ row[s].origin = "user_edit" => row[s].parent = Newest
  /\ Newest < MaxVersions
  /\ landscapeLock' = s
  /\ row' = [row EXCEPT ![s] = [version |-> Newest + 1, parent |-> @.parent, origin |-> @.origin]]
  /\ Goto(s, "inserting")
  /\ UNCHANGED <<tables, clock, subjectLock, subject, decision>>

StaleEdit(s) ==
  /\ pc[s] = "adding" /\ landscapeLock = None
  /\ row[s].origin = "user_edit" /\ row[s].parent # Newest
  /\ Quit(s)
  /\ UNCHANGED <<tables, clock>>

\* The version is committed, unless the unique constraint on its number objects.
AddVersion(s) ==
  /\ pc[s] = "inserting" /\ \A v \in versions : v.version # row[s].version
  /\ versions' = versions \cup {row[s]}
  /\ IF row[s].origin = "llm_draft" THEN AutoApprove(s, TaxonomyVersion(row[s].version))
     ELSE Quit(s)
  /\ UNCHANGED <<querySets, approvals, clock>>

-----------------------------------------------------------------------------
(* Approvals *)

\* `plr taxonomy approve` and `plr queries approve`, with or without --reject.
Decide(s, x, d) ==
  /\ pc[s] = "idle" /\ Exists(x)
  /\ subject' = [subject EXCEPT ![s] = x]
  /\ decision' = [decision EXCEPT ![s] = [decision |-> d, mode |-> "human"]]
  /\ Goto(s, "deciding")
  /\ UNCHANGED <<tables, clock, landscapeLock, subjectLock, row>>

\* Mutation: decisions about one subject are stamped without its lock.
LockSubject_NoWait(s) ==
  /\ pc[s] = "deciding" /\ clock < MaxClock
  /\ subjectLock' = [subjectLock EXCEPT ![subject[s]] = s]
  /\ clock' = clock + 1
  /\ decision' = [decision EXCEPT ![s] =
       [subject |-> subject[s], decision |-> @.decision, mode |-> @.mode, at |-> clock']]
  /\ Goto(s, "stamped")
  /\ UNCHANGED <<tables, landscapeLock, row, subject>>

\* record_approval: the row is stamped once the subject's lock is held.
LockSubject(s) ==
  /\ pc[s] = "deciding" /\ subjectLock[subject[s]] = None /\ clock < MaxClock
  /\ subjectLock' = [subjectLock EXCEPT ![subject[s]] = s]
  /\ clock' = clock + 1
  /\ decision' = [decision EXCEPT ![s] =
       [subject |-> subject[s], decision |-> @.decision, mode |-> @.mode, at |-> clock']]
  /\ Goto(s, "stamped")
  /\ UNCHANGED <<tables, landscapeLock, row, subject>>

AddDecision(s) ==
  /\ pc[s] = "stamped"
  /\ approvals' = Append(approvals, decision[s])
  /\ Quit(s)
  /\ UNCHANGED <<versions, querySets, clock>>

-----------------------------------------------------------------------------
(* Query sets *)

\* Mutation: that somebody decided is enough.
Generate_AnyDecision(s, n) ==
  /\ pc[s] = "idle" /\ Decisions(TaxonomyVersion(n)) # {}
  /\ subject' = [subject EXCEPT ![s] = TaxonomyVersion(n)]
  /\ Goto(s, "generating")
  /\ UNCHANGED <<tables, clock, landscapeLock, subjectLock, row, decision>>

\* `plr queries generate`: require_approved, in a transaction of its own.
Generate(s, n) ==
  /\ pc[s] = "idle" /\ Approved(TaxonomyVersion(n))
  /\ subject' = [subject EXCEPT ![s] = TaxonomyVersion(n)]
  /\ Goto(s, "generating")
  /\ UNCHANGED <<tables, clock, landscapeLock, subjectLock, row, decision>>

\* create_query_set: the query set, its queries and its event.
AddQuerySet(s) ==
  LET id == Cardinality(querySets) + 1
  IN /\ pc[s] = "generating" /\ id <= MaxQuerySets
     /\ querySets' = querySets \cup {[id |-> id, version |-> subject[s].id]}
     /\ AutoApprove(s, QuerySet(id))
     /\ UNCHANGED <<versions, approvals, clock>>

\* The process dies, or its transaction fails (external).
Crash(s) ==
  /\ pc[s] # "idle"
  /\ Quit(s)
  /\ UNCHANGED <<tables, clock>>

Next == \E s \in Session :
  \/ Draft(s) \/ Export(s) \/ Import(s) \/ RefuseImport(s)
  \/ LockLandscape(s) \/ StaleEdit(s) \/ AddVersion(s)
  \/ \E x \in Subject, d \in {"approved", "rejected"} : Decide(s, x, d)
  \/ LockSubject(s) \/ AddDecision(s)
  \/ \E n \in 1..MaxVersions : Generate(s, n)
  \/ AddQuerySet(s)
  \/ Crash(s)

Spec == Init /\ [][Next]_vars

-----------------------------------------------------------------------------
(* Properties *)

\* "Two concurrent edits can never overwrite each other" (store.py:78-79): an edit is
\* always of the version right before it, so that nothing another person wrote is dropped.
NoEditLost == \A v \in versions : v.origin = "user_edit" => v.parent = v.version - 1

\* "The latest decision is well defined" (store.py:163-164): the decision with the latest
\* time is the one that was committed last, however many people decide at once.
LatestIsLast ==
  \A x \in Subject : Decisions(x) # {} =>
    \A j \in Decisions(x) : j <= LatestDecision(x)

\* No query set exists for a taxonomy that nobody, and no automatic mode, ever approved.
QuerySetWasApproved ==
  \A q \in querySets : \E i \in Decisions(TaxonomyVersion(q.version)) :
    approvals[i].decision = "approved"

=============================================================================
