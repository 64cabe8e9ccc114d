--------------------------- MODULE LandscapeProofs ---------------------------
(***************************************************************************)
(* Proofs about Landscape, for any number of sessions, versions, query     *)
(* sets and decisions, in either approval mode.  The argument: whoever is  *)
(* about to commit a version holds the landscape's lock, so that the       *)
(* newest version is still the one it read; whoever is about to commit a   *)
(* decision holds its subject's lock, so that nothing later was committed  *)
(* about it; and an approval that was seen stays in the log.               *)
(***************************************************************************)
EXTENDS Landscape, FiniteSetTheorems, SequenceTheorems, TLAPS

Labels == {"idle", "editing", "adding", "inserting", "deciding", "stamped", "generating"}
Origin == {"llm_draft", "user_edit"}
Begun == [parent : 0..MaxVersions, origin : Origin]
Version == [version : 1..MaxVersions, parent : 0..MaxVersions, origin : Origin]
Pending == [decision : {"approved", "rejected"}, mode : {"human", "automatic"}]
Approval == [subject : Subject, decision : {"approved", "rejected"},
             mode : {"human", "automatic"}, at : Nat]

TypeOK ==
  /\ versions \subseteq Version
  /\ querySets \subseteq [id : 1..MaxQuerySets, version : 1..MaxVersions]
  /\ IsFiniteSet(querySets)
  /\ approvals \in Seq(Approval)
  /\ clock \in Nat
  /\ landscapeLock \in Session \cup {None}
  /\ subjectLock \in [Subject -> Session \cup {None}]
  /\ pc \in [Session -> Labels]
  /\ row \in [Session -> Begun \cup Version \cup {None}]
  /\ subject \in [Session -> Subject \cup {None}]
  /\ decision \in [Session -> Pending \cup Approval \cup {None}]

\* Versions are numbered without a gap, each number once.
VersionsNumbered ==
  /\ \E n \in 0..MaxVersions : {v.version : v \in versions} = 1..n
  /\ \A v, w \in versions : v.version = w.version => v = w

\* Query sets too.
QuerySetsNumbered ==
  /\ \A q \in querySets : q.id <= Cardinality(querySets)
  /\ \A q, r \in querySets : q.id = r.id => q = r

WasApproved(n) ==
  \E i \in Decisions(TaxonomyVersion(n)) : approvals[i].decision = "approved"

\* The log of decisions: about what exists, and in the order of their times.
DecisionsInOrder ==
  /\ \A i \in DOMAIN approvals : approvals[i].at <= clock /\ Exists(approvals[i].subject)
  /\ \A i, j \in DOMAIN approvals :
       i < j /\ approvals[i].subject = approvals[j].subject => approvals[i].at < approvals[j].at
  /\ \A x \in Subject : Decisions(x) = {} \/ \E i \in Decisions(x) : \A j \in Decisions(x) : j <= i

\* What a session is about to commit is still right.
Inserting(s) ==
  pc[s] = "inserting" =>
    /\ landscapeLock = s /\ row[s] \in Version /\ row[s].version = Newest + 1
    /\ row[s].origin = "user_edit" => row[s].parent = Newest

Stamped(s) ==
  pc[s] = "stamped" =>
    /\ subjectLock[subject[s]] = s
    /\ decision[s] \in Approval /\ decision[s].subject = subject[s] /\ decision[s].at <= clock
    /\ \A i \in Decisions(subject[s]) : approvals[i].at < decision[s].at

InHand(s) ==
  /\ pc[s] \in {"editing", "adding"} => row[s] \in Begun
  /\ pc[s] \in {"deciding", "stamped"} => subject[s] \in Subject /\ Exists(subject[s])
  /\ pc[s] = "deciding" => decision[s] \in Pending
  /\ pc[s] = "generating" =>
       \E n \in 1..MaxVersions : subject[s] = TaxonomyVersion(n) /\ WasApproved(n)

Own(s) == Inserting(s) /\ Stamped(s) /\ InHand(s)

IInv == /\ TypeOK /\ VersionsNumbered /\ QuerySetsNumbered /\ NoEditLost
        /\ DecisionsInOrder /\ QuerySetWasApproved
        /\ \A s \in Session : Own(s)

\* Nothing is ever changed or removed: the tables only grow.
TablesGrow ==
  [][/\ versions \subseteq versions' /\ querySets \subseteq querySets'
     /\ approvals' = approvals \/ \E a \in Approval : approvals' = Append(approvals, a)]_vars

-----------------------------------------------------------------------------
(* The operators *)

\* The newest version is the last number.
LEMMA NewestIs ==
  ASSUME NEW n \in 0..MaxVersions, {v.version : v \in versions} = 1..n
  PROVE  Newest = n
<1>1. CASE n = 0
  <2>1. versions = {}
    BY <1>1
  <2> QED
    BY <1>1, <2>1 DEF Newest
<1>2. CASE n # 0
  <2>1. n \in Nat /\ n \in {v.version : v \in versions} /\ \A v \in versions : v.version \in 1..n
    BY <1>2, LandscapeAssumption
  <2>2. versions # {} /\ \A v \in versions : v.version <= n
    BY <2>1
  <2>3. \A k \in {v.version : v \in versions} : (\A v \in versions : v.version <= k) => k = n
    BY <2>1
  <2> QED
    BY <2>1, <2>2, <2>3 DEF Newest
<1> QED
  BY <1>1, <1>2

LEMMA NewestInRange ==
  ASSUME VersionsNumbered
  PROVE  /\ Newest \in 0..MaxVersions
         /\ {v.version : v \in versions} = 1..Newest
BY NewestIs DEF VersionsNumbered

\* The latest decision about a subject exists, is one of its decisions and comes last.
LEMMA LatestDecisionIs ==
  ASSUME TypeOK, DecisionsInOrder, NEW x \in Subject, Decisions(x) # {}
  PROVE  /\ LatestDecision(x) \in Decisions(x)
         /\ \A j \in Decisions(x) : j <= LatestDecision(x)
<1>1. PICK i \in Decisions(x) : \A j \in Decisions(x) : j <= i
  BY DEF DecisionsInOrder
<1>2. \A j \in Decisions(x) : j \in DOMAIN approvals /\ j \in Nat /\ approvals[j].at \in Nat
                              /\ approvals[j].subject = x
  <2>1. \A j \in DOMAIN approvals : j \in Nat /\ approvals[j] \in Approval
    BY ElementOfSeq DEF TypeOK
  <2> QED
    BY <2>1 DEF Decisions, Approval
<1>3. \A j \in Decisions(x) : approvals[j].at <= approvals[i].at
  BY <1>1, <1>2 DEF DecisionsInOrder
<1>4. \A k \in Decisions(x) : (\A j \in Decisions(x) : approvals[j].at <= approvals[k].at) => k = i
  BY <1>1, <1>2 DEF DecisionsInOrder
<1>5. LatestDecision(x) = i
  BY <1>3, <1>4 DEF LatestDecision
<1> QED
  BY <1>1, <1>5

\* A decision more.
LEMMA AppendDecision ==
  ASSUME approvals \in Seq(Approval), NEW a \in Approval, approvals' = Append(approvals, a)
  PROVE  /\ approvals' \in Seq(Approval)
         /\ DOMAIN approvals' = DOMAIN approvals \cup {Len(approvals) + 1}
         /\ \A i \in DOMAIN approvals : i < Len(approvals) + 1 /\ i \in Nat /\ approvals'[i] = approvals[i]
         /\ approvals'[Len(approvals) + 1] = a /\ Len(approvals) \in Nat
         /\ \A x : Decisions(x)' = Decisions(x) \cup (IF a.subject = x THEN {Len(approvals) + 1} ELSE {})
<1>1. /\ approvals' \in Seq(Approval) /\ Len(approvals) \in Nat
      /\ DOMAIN approvals' = 1..(Len(approvals) + 1) /\ DOMAIN approvals = 1..Len(approvals)
      /\ \A i \in 1..Len(approvals) : approvals'[i] = approvals[i]
      /\ approvals'[Len(approvals) + 1] = a
  OBVIOUS
<1> QED
  BY <1>1 DEF Decisions

-----------------------------------------------------------------------------
(* What a step of session s does to the others *)

Act(s) ==
  \/ Draft(s) \/ Export(s) \/ Import(s) \/ RefuseImport(s)
  \/ LockLandscape(s) \/ StaleEdit(s) \/ AddVersion(s)
  \/ \E x \in Subject, d \in {"approved", "rejected"} : Decide(s, x, d)
  \/ LockSubject(s) \/ AddDecision(s)
  \/ \E n \in 1..MaxVersions : Generate(s, n)
  \/ AddQuerySet(s)
  \/ Crash(s)

\* It has what it had in hand, and its locks.
Untouched(s) == \A d \in Session \ {s} :
  /\ pc'[d] = pc[d] /\ row'[d] = row[d] /\ subject'[d] = subject[d] /\ decision'[d] = decision[d]
  /\ landscapeLock = d => landscapeLock' = d
  /\ \A x \in Subject : subjectLock[x] = d => subjectLock'[x] = d

\* Quit and AutoApprove, whatever the transaction wrote.
LEMMA QuitUntouches ==
  ASSUME TypeOK, NEW s \in Session, Quit(s)
  PROVE  Untouched(s)
BY LandscapeAssumption DEF Quit, Goto, TypeOK, Untouched

LEMMA AutoApproveUntouches ==
  ASSUME TypeOK, NEW s \in Session, NEW x, AutoApprove(s, x)
  PROVE  Untouched(s)
BY QuitUntouches, LandscapeAssumption DEF AutoApprove, Goto, TypeOK, Untouched

\* Another session may write to the tables only what it has locked.
Writes(s) ==
  /\ versions' = versions \/ (pc[s] = "inserting" /\ versions' = versions \cup {row[s]})
  /\ querySets' = querySets \/ AddQuerySet(s)
  /\ \/ approvals' = approvals
     \/ pc[s] = "stamped" /\ approvals' = Append(approvals, decision[s])
  /\ clock' = clock \/ clock' = clock + 1

LEMMA Locality ==
  ASSUME TypeOK, NEW s \in Session, Act(s)
  PROVE  Untouched(s) /\ Writes(s)
<1> USE DEF Writes, tables
<1>1. CASE Draft(s) \/ Export(s) \/ Import(s)
  BY <1>1 DEF Draft, Export, Import, Goto, TypeOK, Untouched
<1>2. CASE RefuseImport(s) \/ StaleEdit(s) \/ Crash(s)
  BY <1>2, QuitUntouches DEF RefuseImport, StaleEdit, Crash
<1>3. CASE LockLandscape(s)
  BY <1>3, LandscapeAssumption DEF LockLandscape, Goto, TypeOK, Untouched
<1>4. CASE AddVersion(s)
  BY <1>4, QuitUntouches, AutoApproveUntouches DEF AddVersion
<1>5. ASSUME NEW x \in Subject, NEW d \in {"approved", "rejected"}, Decide(s, x, d)
      PROVE  Untouched(s) /\ Writes(s)
  BY <1>5 DEF Decide, Goto, TypeOK, Untouched
<1>6. CASE LockSubject(s)
  BY <1>6, LandscapeAssumption DEF LockSubject, Goto, TypeOK, Untouched
<1>7. CASE AddDecision(s)
  BY <1>7, QuitUntouches DEF AddDecision
<1>8. ASSUME NEW n \in 1..MaxVersions, Generate(s, n) PROVE Untouched(s) /\ Writes(s)
  BY <1>8 DEF Generate, Goto, TypeOK, Untouched
<1>9. CASE AddQuerySet(s)
  BY <1>9, AutoApproveUntouches DEF AddQuerySet
<1> QED
  BY <1>1, <1>2, <1>3, <1>4, <1>5, <1>6, <1>7, <1>8, <1>9 DEF Act

-----------------------------------------------------------------------------
(* Types *)

LEMMA QuitType ==
  ASSUME TypeOK, NEW s \in Session, Quit(s)
  PROVE  /\ landscapeLock' \in Session \cup {None}
         /\ subjectLock' \in [Subject -> Session \cup {None}]
         /\ pc' \in [Session -> Labels] /\ pc'[s] = "idle"
         /\ row' \in [Session -> Begun \cup Version \cup {None}]
         /\ subject' \in [Session -> Subject \cup {None}]
         /\ decision' \in [Session -> Pending \cup Approval \cup {None}]
BY DEF Quit, Goto, TypeOK, Labels

LEMMA AutoApproveType ==
  ASSUME TypeOK, NEW s \in Session, NEW x \in Subject, AutoApprove(s, x)
  PROVE  /\ landscapeLock' \in Session \cup {None}
         /\ subjectLock' \in [Subject -> Session \cup {None}]
         /\ pc' \in [Session -> Labels]
         /\ \/ pc'[s] = "idle"
            \/ pc'[s] = "deciding" /\ subject'[s] = x /\ decision'[s] \in Pending
         /\ row' \in [Session -> Begun \cup Version \cup {None}]
         /\ subject' \in [Session -> Subject \cup {None}]
         /\ decision' \in [Session -> Pending \cup Approval \cup {None}]
<1>1. CASE ApprovalMode = "automatic"
  BY <1>1 DEF AutoApprove, Goto, TypeOK, Labels, Pending
<1>2. CASE ApprovalMode # "automatic"
  BY <1>2, QuitType DEF AutoApprove
<1> QED
  BY <1>1, <1>2

\* What a session adds is a version.
LEMMA RowIsVersion ==
  ASSUME IInv, NEW s \in Session, pc[s] = "inserting"
  PROVE  row[s] \in Version /\ TaxonomyVersion(row[s].version) \in Subject
<1>1. row[s] \in Version
  BY DEF IInv, Own, Inserting
<1> QED
  BY <1>1 DEF Version, TaxonomyVersion, Subject

\* What it generates from is a version that was approved.
LEMMA GeneratesApproved ==
  ASSUME IInv, NEW s \in Session, pc[s] = "generating"
  PROVE  subject[s].id \in 1..MaxVersions /\ WasApproved(subject[s].id)
<1>1. PICK n \in 1..MaxVersions : subject[s] = TaxonomyVersion(n) /\ WasApproved(n)
  BY DEF IInv, Own, InHand
<1>2. subject[s].id = n
  BY <1>1 DEF TaxonomyVersion
<1> QED
  BY <1>1, <1>2

LEMMA NewQuerySet ==
  ASSUME IInv, NEW s \in Session, AddQuerySet(s)
  PROVE  LET id == Cardinality(querySets) + 1
         IN /\ id \in 1..MaxQuerySets /\ QuerySet(id) \in Subject
            /\ [id |-> id, version |-> subject[s].id] \in [id : 1..MaxQuerySets, version : 1..MaxVersions]
            /\ querySets' = querySets \cup {[id |-> id, version |-> subject[s].id]}
            /\ IsFiniteSet(querySets') /\ Cardinality(querySets') = id
<1> DEFINE id == Cardinality(querySets) + 1
           new == [id |-> id, version |-> subject[s].id]
<1>1. Cardinality(querySets) \in Nat /\ id <= MaxQuerySets
  BY FS_CardinalityType DEF AddQuerySet, IInv, TypeOK
<1>2. id \in 1..MaxQuerySets /\ QuerySet(id) \in Subject
  BY <1>1, LandscapeAssumption DEF QuerySet, Subject
<1>3. subject[s].id \in 1..MaxVersions
  BY GeneratesApproved DEF AddQuerySet
<1>4. querySets' = querySets \cup {new}
  BY DEF AddQuerySet
<1>5. new \notin querySets
  <2>1. new.id = id /\ \A q \in querySets : q.id <= Cardinality(querySets) /\ q.id \in Nat
    BY DEF IInv, TypeOK, QuerySetsNumbered
  <2> QED
    BY <1>1, <2>1
<1>6. IsFiniteSet(querySets') /\ Cardinality(querySets') = id
  BY <1>4, <1>5, FS_AddElement DEF IInv, TypeOK
<1> QED
  BY <1>2, <1>3, <1>4, <1>6

LEMMA TypeStep == IInv /\ [Next]_vars => TypeOK'
<1> SUFFICES ASSUME IInv, [Next]_vars PROVE TypeOK'
  OBVIOUS
<1>0. TypeOK /\ Newest \in 0..MaxVersions
  BY NewestInRange DEF IInv
<1>1. ASSUME NEW s \in Session, Draft(s) \/ Export(s) PROVE TypeOK'
  <2>1. \A o \in Origin : [parent |-> 0, origin |-> o] \in Begun /\ [parent |-> Newest, origin |-> o] \in Begun
    BY <1>0, LandscapeAssumption DEF Begun
  <2> QED
    BY <1>0, <1>1, <2>1, ZenonT(60) DEF Draft, Export, Origin, Goto, TypeOK, Labels, tables
<1>2. ASSUME NEW s \in Session, Import(s) PROVE TypeOK'
  BY <1>0, <1>2 DEF Import, Goto, TypeOK, Labels, tables
<1>3. ASSUME NEW s \in Session, RefuseImport(s) \/ StaleEdit(s) \/ Crash(s) PROVE TypeOK'
  BY <1>0, <1>3, QuitType DEF RefuseImport, StaleEdit, Crash, TypeOK, tables
<1>4. ASSUME NEW s \in Session, LockLandscape(s) PROVE TypeOK'
  <2>1. row[s] \in Begun
    BY <1>4 DEF IInv, Own, InHand, LockLandscape
  <2>2. [version |-> Newest + 1, parent |-> row[s].parent, origin |-> row[s].origin] \in Version
    BY <1>0, <1>4, <2>1, LandscapeAssumption DEF LockLandscape, Begun, Version
  <2> QED
    BY <1>0, <1>4, <2>2 DEF LockLandscape, Goto, TypeOK, Labels, tables
<1>5. ASSUME NEW s \in Session, AddVersion(s) PROVE TypeOK'
  <2>1. row[s] \in Version /\ TaxonomyVersion(row[s].version) \in Subject
    BY <1>5, RowIsVersion DEF AddVersion
  <2>2. CASE row[s].origin = "llm_draft"
    BY <1>0, <1>5, <2>1, <2>2, AutoApproveType DEF AddVersion, TypeOK
  <2>3. CASE row[s].origin # "llm_draft"
    BY <1>0, <1>5, <2>1, <2>3, QuitType DEF AddVersion, TypeOK
  <2> QED
    BY <2>2, <2>3
<1>6. ASSUME NEW s \in Session, NEW x \in Subject, NEW d \in {"approved", "rejected"}, Decide(s, x, d)
      PROVE  TypeOK'
  <2>1. [decision |-> d, mode |-> "human"] \in Pending
    BY DEF Pending
  <2> QED
    BY <1>0, <1>6, <2>1 DEF Decide, Goto, TypeOK, Labels, tables
<1>7. ASSUME NEW s \in Session, LockSubject(s) PROVE TypeOK'
  <2>1. decision[s] \in Pending /\ subject[s] \in Subject /\ clock + 1 \in Nat
    BY <1>0, <1>7 DEF IInv, Own, InHand, LockSubject, TypeOK
  <2>2. [subject |-> subject[s], decision |-> decision[s].decision, mode |-> decision[s].mode,
         at |-> clock + 1] \in Approval
    BY <2>1 DEF Pending, Approval
  <2> QED
    BY <1>0, <1>7, <2>1, <2>2 DEF LockSubject, Goto, TypeOK, Labels, tables
<1>8. ASSUME NEW s \in Session, AddDecision(s) PROVE TypeOK'
  <2>1. decision[s] \in Approval
    BY <1>8 DEF IInv, Own, Stamped, AddDecision
  <2>2. approvals' \in Seq(Approval)
    BY <1>0, <1>8, <2>1, AppendDecision DEF AddDecision, TypeOK
  <2> QED
    BY <1>0, <1>8, <2>2, QuitType DEF AddDecision, TypeOK
<1>9. ASSUME NEW s \in Session, NEW n \in 1..MaxVersions, Generate(s, n) PROVE TypeOK'
  <2>1. TaxonomyVersion(n) \in Subject
    BY DEF TaxonomyVersion, Subject
  <2> QED
    BY <1>0, <1>9, <2>1 DEF Generate, Goto, TypeOK, Labels, tables
<1>10. ASSUME NEW s \in Session, AddQuerySet(s) PROVE TypeOK'
  BY <1>0, <1>10, NewQuerySet, AutoApproveType DEF AddQuerySet, TypeOK
<1>11. CASE UNCHANGED vars
  BY <1>0, <1>11 DEF vars, TypeOK
<1> QED
  BY <1>1, <1>2, <1>3, <1>4, <1>5, <1>6, <1>7, <1>8, <1>9, <1>10, <1>11 DEF Next

-----------------------------------------------------------------------------
(* The tables *)

LEMMA VersionsStep ==
  ASSUME IInv, NEW s \in Session, Act(s)
  PROVE  VersionsNumbered' /\ NoEditLost'
<1>1. Newest \in 0..MaxVersions /\ {v.version : v \in versions} = 1..Newest
  BY NewestInRange DEF IInv
<1>2. CASE versions' = versions
  BY <1>2 DEF IInv, VersionsNumbered, NoEditLost
<1>3. CASE pc[s] = "inserting" /\ versions' = versions \cup {row[s]}
  <2>1. /\ row[s] \in Version /\ row[s].version = Newest + 1
        /\ row[s].origin = "user_edit" => row[s].parent = Newest
    BY <1>3 DEF IInv, Own, Inserting
  <2>2. Newest + 1 \in 0..MaxVersions /\ Newest \in Nat
    BY <1>1, <2>1, LandscapeAssumption DEF Version
  <2>3. {v.version : v \in versions'} = 1..(Newest + 1)
    <3>1. \A k : k \in {v.version : v \in versions'} <=> k \in {v.version : v \in versions} \/ k = Newest + 1
      BY <1>3, <2>1
    <3> QED
      BY <1>1, <2>2, <3>1
  <2>4. \A v \in versions : v.version # Newest + 1
    BY <1>1, <2>2
  <2>5. \A v, w \in versions' : v.version = w.version => v = w
    BY <1>3, <2>1, <2>4 DEF IInv, VersionsNumbered
  <2>6. NoEditLost'
    BY <1>3, <2>1, <2>2 DEF IInv, NoEditLost
  <2> QED
    BY <2>2, <2>3, <2>5, <2>6 DEF VersionsNumbered
<1> QED
  BY <1>2, <1>3, Locality DEF IInv, Writes

\* What exists goes on existing, and what was approved stays in the log.
LEMMA ExistsStays ==
  ASSUME IInv, NEW s \in Session, Act(s), NEW x \in Subject, Exists(x)
  PROVE  Exists(x)'
<1>1. versions \subseteq versions' /\ querySets \subseteq querySets'
  BY Locality DEF IInv, Writes, AddQuerySet
<1> QED
  BY <1>1 DEF Exists

LEMMA ApprovedStays ==
  ASSUME IInv, NEW s \in Session, Act(s), NEW n, WasApproved(n)
  PROVE  WasApproved(n)'
<1>1. CASE approvals' = approvals
  BY <1>1 DEF WasApproved, Decisions
<1>2. CASE pc[s] = "stamped" /\ approvals' = Append(approvals, decision[s])
  <2>1. decision[s] \in Approval /\ approvals \in Seq(Approval)
    BY <1>2 DEF IInv, TypeOK, Own, Stamped
  <2> QED
    BY <1>2, <2>1, AppendDecision DEF WasApproved, Decisions
<1> QED
  BY <1>1, <1>2, Locality DEF IInv, Writes

LEMMA QuerySetsStep ==
  ASSUME IInv, NEW s \in Session, Act(s)
  PROVE  QuerySetsNumbered' /\ QuerySetWasApproved'
<1>1. \A q \in querySets : q.id \in Nat /\ q.id <= Cardinality(querySets) /\ WasApproved(q.version)
  BY DEF IInv, TypeOK, QuerySetsNumbered, QuerySetWasApproved, WasApproved
<1>2. CASE querySets' = querySets
  <2>1. QuerySetsNumbered'
    BY <1>2 DEF IInv, QuerySetsNumbered
  <2>2. \A q \in querySets' : WasApproved(q.version)'
    BY <1>1, <1>2, ApprovedStays
  <2> QED
    BY <2>1, <2>2 DEF QuerySetWasApproved, WasApproved
<1>3. CASE AddQuerySet(s)
  <2> DEFINE id == Cardinality(querySets) + 1
             new == [id |-> id, version |-> subject[s].id]
  <2>1. querySets' = querySets \cup {new} /\ Cardinality(querySets') = id
    BY <1>3, NewQuerySet
  <2>2. Cardinality(querySets) \in Nat
    BY FS_CardinalityType DEF IInv, TypeOK
  <2>3. new.id = id /\ WasApproved(new.version)
    BY <1>3, GeneratesApproved DEF AddQuerySet
  <2>4. \A q \in querySets' : WasApproved(q.version)'
    BY <1>1, <2>1, <2>3, ApprovedStays
  <2>5. \A q \in querySets' : q.id <= Cardinality(querySets')
    BY <1>1, <2>1, <2>2, <2>3
  <2>6. \A q, r \in querySets' : q.id = r.id => q = r
    BY <1>1, <2>1, <2>2, <2>3 DEF IInv, QuerySetsNumbered
  <2> QED
    BY <2>4, <2>5, <2>6 DEF QuerySetsNumbered, QuerySetWasApproved, WasApproved
<1> QED
  BY <1>2, <1>3, Locality DEF IInv, Writes

LEMMA DecisionsStep ==
  ASSUME IInv, NEW s \in Session, Act(s)
  PROVE  DecisionsInOrder'
<1>1. \A i \in DOMAIN approvals : approvals[i] \in Approval /\ approvals[i].at \in Nat
                                  /\ approvals[i].subject \in Subject /\ i \in Nat
  <2>1. \A i \in DOMAIN approvals : approvals[i] \in Approval /\ i \in Nat
    BY ElementOfSeq DEF IInv, TypeOK
  <2> QED
    BY <2>1 DEF Approval
<1>2. clock \in Nat /\ clock' \in Nat /\ clock <= clock'
  BY Locality DEF IInv, TypeOK, Writes
<1>3. CASE approvals' = approvals
  <2>1. \A i \in DOMAIN approvals' : Exists(approvals[i].subject)'
    BY <1>1, <1>3, ExistsStays DEF IInv, DecisionsInOrder, Exists
  <2>2. \A i \in DOMAIN approvals : approvals[i].at <= clock'
    BY <1>1, <1>2 DEF IInv, DecisionsInOrder
  <2> QED
    BY <1>3, <2>1, <2>2 DEF IInv, DecisionsInOrder, Decisions, Exists
<1>4. CASE pc[s] = "stamped" /\ approvals' = Append(approvals, decision[s])
  <2> DEFINE a == decision[s]
             last == Len(approvals) + 1
  <2>1. /\ a \in Approval /\ a.subject = subject[s] /\ a.at <= clock /\ a.at \in Nat
        /\ subject[s] \in Subject /\ Exists(subject[s])
        /\ \A i \in Decisions(subject[s]) : approvals[i].at < a.at
    BY <1>4 DEF IInv, Own, Stamped, InHand, Approval
  <2>2. /\ DOMAIN approvals' = DOMAIN approvals \cup {last}
        /\ \A i \in DOMAIN approvals : i < last /\ i \in Nat /\ approvals'[i] = approvals[i]
        /\ approvals'[last] = a /\ last \in Nat
        /\ \A x : Decisions(x)' = Decisions(x) \cup (IF a.subject = x THEN {last} ELSE {})
    BY <1>4, <2>1, AppendDecision DEF IInv, TypeOK
  <2> HIDE DEF a, last
  <2>3. ASSUME NEW i \in DOMAIN approvals', NEW x \in Subject, x = approvals'[i].subject
        PROVE  approvals'[i].at <= clock' /\ Exists(x)'
    <3>1. CASE i \in DOMAIN approvals
      <4>1. Exists(x)
        BY <2>2, <2>3, <3>1 DEF IInv, DecisionsInOrder
      <4>2. approvals'[i].at <= clock'
        BY <1>1, <1>2, <2>2, <3>1 DEF IInv, DecisionsInOrder
      <4> QED
        BY <4>1, <4>2, ExistsStays
    <3>2. CASE i = last
      <4>1. x = subject[s] /\ approvals'[i].at = a.at
        BY <2>1, <2>2, <2>3, <3>2
      <4> QED
        BY <1>2, <2>1, <4>1, ExistsStays
    <3> QED
      BY <2>2, <3>1, <3>2
  <2>4. \A i \in DOMAIN approvals' : approvals'[i].subject \in Subject
    BY <1>1, <2>1, <2>2
  <2>5. \A i \in DOMAIN approvals' : approvals'[i].at <= clock' /\ Exists(approvals[i].subject)'
    BY <2>3, <2>4 DEF Exists
  <2>6. \A i, j \in DOMAIN approvals' :
          i < j /\ approvals'[i].subject = approvals'[j].subject => approvals'[i].at < approvals'[j].at
    <3> SUFFICES ASSUME NEW i \in DOMAIN approvals', NEW j \in DOMAIN approvals', i < j,
                        approvals'[i].subject = approvals'[j].subject
                 PROVE  approvals'[i].at < approvals'[j].at
      OBVIOUS
    <3>1. i \in DOMAIN approvals
      BY <2>2
    <3>2. CASE j \in DOMAIN approvals
      BY <2>2, <3>1, <3>2 DEF IInv, DecisionsInOrder
    <3>3. CASE j = last
      BY <2>1, <2>2, <3>1, <3>3 DEF Decisions
    <3> QED
      BY <2>2, <3>2, <3>3
  <2>7. ASSUME NEW x \in Subject
        PROVE  Decisions(x)' = {} \/ \E i \in Decisions(x)' : \A j \in Decisions(x)' : j <= i
    <3>1. Decisions(x) \subseteq DOMAIN approvals
      BY DEF Decisions
    <3>2. CASE a.subject = x
      BY <2>2, <3>1, <3>2
    <3>3. CASE a.subject # x
      BY <2>2, <3>3 DEF IInv, DecisionsInOrder
    <3> QED
      BY <3>2, <3>3
  <2> QED
    BY <2>5, <2>6, <2>7 DEF DecisionsInOrder
<1> QED
  BY <1>3, <1>4, Locality DEF IInv, Writes


-----------------------------------------------------------------------------
(* The sessions *)

LEMMA IdleOwnsNothing ==
  ASSUME NEW s \in Session, pc'[s] = "idle"
  PROVE  Own(s)'
BY DEF Own, Inserting, Stamped, InHand

LEMMA DecidingOwns ==
  ASSUME NEW s \in Session, NEW x \in Subject, pc'[s] = "deciding", subject'[s] = x, Exists(x)',
         decision'[s] \in Pending
  PROVE  Own(s)'
BY DEF Own, Inserting, Stamped, InHand, Exists

LEMMA OwnStep ==
  ASSUME IInv, NEW s \in Session, Act(s)
  PROVE  Own(s)'
<1>0. TypeOK /\ Newest \in 0..MaxVersions
  BY NewestInRange DEF IInv
<1>1. CASE Draft(s) \/ Export(s)
  <2>1. \A o \in Origin : [parent |-> 0, origin |-> o] \in Begun /\ [parent |-> Newest, origin |-> o] \in Begun
    BY <1>0, LandscapeAssumption DEF Begun
  <2>2. row'[s] \in Begun /\ pc'[s] \in {"adding", "editing"}
    BY <1>0, <1>1, <2>1 DEF Draft, Export, Origin, Goto, TypeOK
  <2> QED
    BY <2>2 DEF Own, Inserting, Stamped, InHand
<1>2. CASE Import(s)
  <2>1. row'[s] \in Begun /\ pc'[s] = "adding"
    BY <1>0, <1>2 DEF Import, Goto, TypeOK, IInv, Own, InHand
  <2> QED
    BY <2>1 DEF Own, Inserting, Stamped, InHand
<1>3. CASE RefuseImport(s) \/ StaleEdit(s) \/ Crash(s) \/ AddDecision(s)
  BY <1>0, <1>3, QuitType, IdleOwnsNothing DEF RefuseImport, StaleEdit, Crash, AddDecision
<1>4. CASE LockLandscape(s)
  <2>1. row[s] \in Begun /\ (row[s].origin = "user_edit" => row[s].parent = Newest)
    BY <1>4 DEF IInv, Own, InHand, LockLandscape
  <2>2. /\ pc'[s] = "inserting" /\ landscapeLock' = s /\ versions' = versions
        /\ row'[s] = [version |-> Newest + 1, parent |-> row[s].parent, origin |-> row[s].origin]
    BY <1>0, <1>4 DEF LockLandscape, Goto, TypeOK, tables
  <2>3. /\ row'[s] \in Version /\ row'[s].version = Newest + 1
        /\ row'[s].origin = "user_edit" => row'[s].parent = Newest
    BY <1>0, <1>4, <2>1, <2>2, LandscapeAssumption DEF LockLandscape, Begun, Version
  <2>4. Newest' = Newest
    BY <2>2 DEF Newest
  <2> QED
    BY <2>2, <2>3, <2>4 DEF Own, Inserting, Stamped, InHand
<1>5. CASE AddVersion(s)
  <2>1. row[s] \in versions'
    BY <1>5 DEF AddVersion
  <2>2. PICK x \in Subject : x = TaxonomyVersion(row[s].version)
    BY <1>5, RowIsVersion DEF AddVersion
  <2>3. x.type = "taxonomy_version" /\ x.id = row[s].version
    BY <2>2 DEF TaxonomyVersion
  <2>4. Exists(x)'
    BY <2>1, <2>3 DEF Exists
  <2>5. CASE row[s].origin = "llm_draft"
    <3>1. AutoApprove(s, x)
      BY <1>5, <2>2, <2>5 DEF AddVersion
    <3> QED
      BY <1>0, <2>4, <3>1, AutoApproveType, IdleOwnsNothing, DecidingOwns
  <2>6. CASE row[s].origin # "llm_draft"
    <3>1. Quit(s)
      BY <1>5, <2>6 DEF AddVersion
    <3> QED
      BY <1>0, <3>1, QuitType, IdleOwnsNothing
  <2> QED
    BY <2>5, <2>6
<1>6. ASSUME NEW x \in Subject, NEW d \in {"approved", "rejected"}, Decide(s, x, d)
      PROVE  Own(s)'
  <2>1. pc'[s] = "deciding" /\ subject'[s] = x /\ decision'[s] \in Pending
    BY <1>0, <1>6 DEF Decide, Goto, TypeOK, Pending
  <2>2. Exists(x)'
    BY <1>6, ExistsStays DEF Decide
  <2> QED
    BY <2>1, <2>2, DecidingOwns
<1>7. CASE LockSubject(s)
  <2>1. decision[s] \in Pending /\ subject[s] \in Subject /\ Exists(subject[s]) /\ clock \in Nat
    BY <1>0, <1>7 DEF IInv, Own, InHand, LockSubject, TypeOK
  <2>2. /\ pc'[s] = "stamped" /\ clock' = clock + 1 /\ subject' = subject /\ UNCHANGED tables
        /\ subjectLock'[subject[s]] = s
        /\ decision'[s] = [subject |-> subject[s], decision |-> decision[s].decision,
                           mode |-> decision[s].mode, at |-> clock + 1]
    BY <1>0, <1>7, <2>1 DEF LockSubject, Goto, TypeOK
  <2>3. decision'[s] \in Approval /\ decision'[s].subject = subject[s] /\ decision'[s].at = clock'
    BY <2>1, <2>2 DEF Pending, Approval
  <2>4. \A i \in DOMAIN approvals : approvals[i].at < clock'
    <3>1. \A i \in DOMAIN approvals : approvals[i].at \in Nat /\ approvals[i].at <= clock
      <4>1. \A i \in DOMAIN approvals : approvals[i] \in Approval
        BY <1>0, ElementOfSeq DEF TypeOK
      <4> QED
        BY <4>1 DEF IInv, DecisionsInOrder, Approval
    <3> QED
      BY <2>1, <2>2, <3>1
  <2>5. Exists(subject[s])'
    BY <2>1, <2>2 DEF Exists, tables
  <2>6. Stamped(s)'
    <3>1. approvals' = approvals /\ subject'[s] = subject[s] /\ decision'[s].at <= clock'
      BY <2>1, <2>2, <2>3 DEF tables
    <3>2. \A i \in Decisions(subject[s])' : approvals'[i].at < decision'[s].at
      BY <2>3, <2>4, <3>1 DEF Decisions
    <3> QED
      BY <2>2, <2>3, <3>1, <3>2 DEF Stamped, Decisions
  <2> QED
    BY <2>1, <2>2, <2>5, <2>6 DEF Own, Inserting, InHand
<1>8. ASSUME NEW n \in 1..MaxVersions, Generate(s, n) PROVE Own(s)'
  <2>1. TaxonomyVersion(n) \in Subject
    BY DEF TaxonomyVersion, Subject
  <2>2. WasApproved(n)
    BY <1>0, <1>8, <2>1, LatestDecisionIs DEF IInv, Generate, Approved, WasApproved
  <2>3. WasApproved(n)'
    BY <2>2, ApprovedStays
  <2>4. pc'[s] = "generating" /\ subject'[s] = TaxonomyVersion(n)
    BY <1>0, <1>8 DEF Generate, Goto, TypeOK
  <2> QED
    BY <2>3, <2>4 DEF Own, Inserting, Stamped, InHand
<1>9. CASE AddQuerySet(s)
  <2>1. PICK id : id = Cardinality(querySets) + 1
    OBVIOUS
  <2>2. QuerySet(id) \in Subject /\ AutoApprove(s, QuerySet(id))
    BY <1>9, <2>1, NewQuerySet DEF AddQuerySet
  <2>3. \E q \in querySets' : q.id = id
    <3>1. [id |-> id, version |-> subject[s].id] \in querySets'
      BY <1>9, <2>1, NewQuerySet
    <3> QED
      BY <3>1
  <2>4. QuerySet(id).type = "query_set" /\ QuerySet(id).id = id
    BY DEF QuerySet
  <2>5. Exists(QuerySet(id))'
    BY <2>3, <2>4 DEF Exists
  <2> QED
    BY <1>0, <2>2, <2>5, AutoApproveType, IdleOwnsNothing, DecidingOwns
<1> QED
  BY <1>1, <1>2, <1>3, <1>4, <1>5, <1>6, <1>7, <1>8, <1>9 DEF Act

\* The others: what they are about to commit is locked.
LEMMA OthersStep ==
  ASSUME IInv, NEW s \in Session, Act(s), NEW d \in Session, d # s
  PROVE  Own(d)'
<1>1. /\ pc'[d] = pc[d] /\ row'[d] = row[d] /\ subject'[d] = subject[d] /\ decision'[d] = decision[d]
      /\ landscapeLock = d => landscapeLock' = d
      /\ \A x \in Subject : subjectLock[x] = d => subjectLock'[x] = d
  BY Locality DEF IInv, Untouched
<1>2. Writes(s)
  BY Locality DEF IInv
<1>3. Own(d) /\ Own(s)
  BY DEF IInv
<1>4. Inserting(d)'
  <2> SUFFICES ASSUME pc[d] = "inserting" PROVE Inserting(d)'
    BY <1>1 DEF Inserting
  <2>1. landscapeLock = d
    BY <1>3 DEF Own, Inserting
  <2>2. versions' = versions
    BY <1>2, <1>3, <2>1 DEF Writes, Own, Inserting
  <2>3. Newest' = Newest
    BY <2>2 DEF Newest
  <2> QED
    BY <1>1, <1>3, <2>1, <2>3 DEF Own, Inserting
<1>5. Stamped(d)'
  <2> SUFFICES ASSUME pc[d] = "stamped" PROVE Stamped(d)'
    BY <1>1 DEF Stamped
  <2>1. /\ subject[d] \in Subject /\ subjectLock[subject[d]] = d /\ decision[d] \in Approval
        /\ decision[d].subject = subject[d] /\ decision[d].at <= clock /\ decision[d].at \in Nat
        /\ \A i \in Decisions(subject[d]) : approvals[i].at < decision[d].at
    BY <1>3 DEF Own, Stamped, InHand, Approval
  <2>2. decision[d].at <= clock'
    BY <1>2, <2>1 DEF Writes, IInv, TypeOK
  <2>3. \A i \in DOMAIN approvals' : approvals'[i].subject = subject[d] =>
          approvals'[i].at < decision[d].at
    <3>1. CASE approvals' = approvals
      BY <2>1, <3>1 DEF Decisions
    <3>2. CASE pc[s] = "stamped" /\ approvals' = Append(approvals, decision[s])
      <4>1. decision[s] \in Approval /\ decision[s].subject # subject[d]
        BY <1>3, <2>1, <3>2 DEF Own, Stamped
      <4>2. /\ DOMAIN approvals' = DOMAIN approvals \cup {Len(approvals) + 1}
            /\ \A i \in DOMAIN approvals : approvals'[i] = approvals[i]
            /\ approvals'[Len(approvals) + 1] = decision[s]
        BY <3>2, <4>1, AppendDecision DEF IInv, TypeOK
      <4> QED
        BY <2>1, <4>1, <4>2 DEF Decisions
    <3> QED
      BY <1>2, <3>1, <3>2 DEF Writes
  <2> QED
    BY <1>1, <2>1, <2>2, <2>3 DEF Stamped, Decisions
<1>6. InHand(d)'
  <2>1. pc[d] \in {"deciding", "stamped"} => subject[d] \in Subject /\ Exists(subject[d])'
    <3> SUFFICES ASSUME pc[d] \in {"deciding", "stamped"}, NEW x \in Subject, x = subject[d]
                 PROVE  Exists(x)'
      BY <1>1, <1>3 DEF Own, InHand, Exists
    <3> QED
      BY <1>3, ExistsStays DEF Own, InHand
  <2>2. ASSUME pc[d] = "generating"
        PROVE  \E n \in 1..MaxVersions : subject[d] = TaxonomyVersion(n) /\ WasApproved(n)'
    BY <1>3, <2>2, ApprovedStays DEF Own, InHand
  <2> QED
    BY <1>1, <1>3, <2>1, <2>2 DEF Own, InHand
<1> QED
  BY <1>4, <1>5, <1>6 DEF Own

-----------------------------------------------------------------------------
(* The invariant *)

LEMMA InitInvariant == Init => IInv
<1> SUFFICES ASSUME Init PROVE IInv
  OBVIOUS
<1>1. TypeOK
  BY FS_EmptySet, LandscapeAssumption DEF Init, TypeOK, Labels
<1>2. VersionsNumbered
  <2>1. 0 \in 0..MaxVersions /\ {v.version : v \in versions} = 1..0
    BY LandscapeAssumption DEF Init
  <2> QED
    BY <2>1 DEF Init, VersionsNumbered
<1>3. QuerySetsNumbered /\ NoEditLost /\ QuerySetWasApproved
  BY DEF Init, QuerySetsNumbered, NoEditLost, QuerySetWasApproved
<1>4. DecisionsInOrder
  BY DEF Init, DecisionsInOrder, Decisions
<1>5. \A s \in Session : Own(s)
  BY DEF Init, Own, Inserting, Stamped, InHand
<1> QED
  BY <1>1, <1>2, <1>3, <1>4, <1>5 DEF IInv

LEMMA StepInvariant == IInv /\ [Next]_vars => IInv'
<1> SUFFICES ASSUME IInv, [Next]_vars PROVE IInv'
  OBVIOUS
<1>1. TypeOK'
  BY TypeStep
<1>2. ASSUME NEW s \in Session, Act(s) PROVE IInv'
  <2>1. \A d \in Session : Own(d)'
    BY <1>2, OwnStep, OthersStep
  <2> QED
    BY <1>1, <1>2, <2>1, VersionsStep, QuerySetsStep, DecisionsStep DEF IInv
<1>3. CASE UNCHANGED vars
  <2>1. VersionsNumbered' /\ QuerySetsNumbered' /\ NoEditLost'
    BY <1>3 DEF vars, IInv, VersionsNumbered, QuerySetsNumbered, NoEditLost
  <2>2. DecisionsInOrder' /\ QuerySetWasApproved'
    BY <1>3 DEF vars, IInv, DecisionsInOrder, Decisions, Exists, QuerySetWasApproved
  <2>3. ASSUME NEW s \in Session PROVE Own(s)'
    <3>1. Inserting(s)'
      BY <1>3 DEF vars, IInv, Own, Inserting, Newest
    <3>2. Stamped(s)'
      BY <1>3 DEF vars, IInv, Own, Stamped, Decisions
    <3>3. InHand(s)'
      BY <1>3 DEF vars, IInv, Own, InHand, Exists, WasApproved, Decisions
    <3> QED
      BY <3>1, <3>2, <3>3 DEF Own
  <2> QED
    BY <1>1, <2>1, <2>2, <2>3 DEF IInv
<1> QED
  BY <1>2, <1>3 DEF Next, Act

\* Locks, reads and what is about to be committed belong together, whichever sessions meet.
THEOREM LandscapeInvariant == Spec => []IInv
BY InitInvariant, StepInvariant, PTL DEF Spec

\* Every table and every session's state has the shape the code's rows have.
THEOREM TypeCorrect == Spec => []TypeOK
<1>1. IInv => TypeOK
  BY DEF IInv
<1> QED
  BY <1>1, LandscapeInvariant, PTL

\* add_taxonomy_version: an edit is of the version right before it, whoever edits at once.
THEOREM NoEditIsLost == Spec => []NoEditLost
<1>1. IInv => NoEditLost
  BY DEF IInv
<1> QED
  BY <1>1, LandscapeInvariant, PTL

\* add_taxonomy_version: the versions of a landscape are 1, 2, 3 and so on, each once, so
\* that its unique constraint never objects.
THEOREM VersionsAreNumbered == Spec => []VersionsNumbered
<1>1. IInv => VersionsNumbered
  BY DEF IInv
<1> QED
  BY <1>1, LandscapeInvariant, PTL

\* record_approval and latest_decision: the decision with the latest time is the last one
\* committed about its subject.
THEOREM LatestDecisionIsLast == Spec => []LatestIsLast
<1>1. IInv => LatestIsLast
  BY LatestDecisionIs DEF IInv, LatestIsLast
<1> QED
  BY <1>1, LandscapeInvariant, PTL

\* require_approved and create_query_set: two transactions, and still no query set of a
\* taxonomy that was never approved.
THEOREM QuerySetsWereApproved == Spec => []QuerySetWasApproved
<1>1. IInv => QuerySetWasApproved
  BY DEF IInv
<1> QED
  BY <1>1, LandscapeInvariant, PTL

\* The append-only tables of db/models.py: no step changes or removes a row.
THEOREM TablesOnlyGrow == Spec => TablesGrow
<1> DEFINE Grow == /\ versions \subseteq versions' /\ querySets \subseteq querySets'
                   /\ approvals' = approvals \/ \E a \in Approval : approvals' = Append(approvals, a)
<1>1. IInv /\ [Next]_vars => [Grow]_vars
  <2>1. ASSUME IInv, NEW s \in Session, Act(s) PROVE Grow
    <3>1. versions \subseteq versions' /\ querySets \subseteq querySets'
      BY <2>1, Locality DEF IInv, Writes, AddQuerySet
    <3>2. pc[s] = "stamped" => decision[s] \in Approval
      BY <2>1 DEF IInv, Own, Stamped
    <3> QED
      BY <2>1, <3>1, <3>2, Locality DEF IInv, Writes
  <2> QED
    BY <2>1 DEF Next, Act
<1> QED
  BY <1>1, LandscapeInvariant, PTL DEF Spec, TablesGrow

=============================================================================
