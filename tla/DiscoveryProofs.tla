--------------------------- MODULE DiscoveryProofs ---------------------------
(***************************************************************************)
(* Proofs about Discovery, for any graph of citations, any settings and    *)
(* any number of expansions, batches and hops.  The argument: a complete   *)
(* batch is never touched again, and the keys of no batch ever change; so  *)
(* what a hop asks for, computed from complete batches, stays what it was  *)
(* when the hop was prepared, whoever stops, resumes or shares its batch.  *)
(***************************************************************************)
EXTENDS Discovery, Integers, FiniteSetTheorems, FunctionTheorems, SequenceTheorems, TLAPS

Labels == {"idle", "dead", "looking", "creating", "starting", "fetching", "advancing"}
Batch == [hop : Nat, keys : SUBSET Pub, settled : SUBSET Pub, stored : SUBSET Pub,
          status : {"running", "complete", "failed"}, holder : Process \cup {Nobody}]
Run == [config : Settings, batches : Seq(Nat)]

TypeOK ==
  /\ batches \in Seq(Batch)
  /\ runs \subseteq Run
  /\ pc \in [Process -> Labels]
  /\ config \in [Process -> Settings \cup {Nobody}]
  /\ numbers \in [Process -> SUBSET Pub]
  /\ mine \in [Process -> Seq(Nat)]

\* A batch stores what it settled, of what it was asked for; complete, it settled all.
BatchOK(b) ==
  /\ batches[b].stored \subseteq batches[b].settled
  /\ batches[b].settled \subseteq batches[b].keys
  /\ batches[b].status = "complete" => batches[b].settled = batches[b].keys

\* What the hop after the batches "ids" asks for, the first one too.
Due(ids, s) == IF ids = <<>> THEN Seeds ELSE NextHop(ids, s)

\* The batches of an expansion, hop by hop, each asking for what the ones before lead to.
Chain(ids, s) ==
  \A i \in 1..Len(ids) :
    /\ ids[i] \in DOMAIN batches
    /\ batches[ids[i]].hop = i - 1
    /\ batches[ids[i]].keys = Due(SubSeq(ids, 1, i - 1), s)

CompleteTo(ids, n) == \A i \in 1..n : batches[ids[i]].status = "complete"

\* An expansion in its steps.
Expanding(p) == pc[p] \notin {"idle", "dead"} => config[p] \in Settings /\ Chain(mine[p], config[p])
Starting(p) == pc[p] \in {"idle", "dead"} => mine[p] = <<>>
Preparing(p) ==
  pc[p] \in {"looking", "creating"} =>
    /\ CompleteTo(mine[p], Len(mine[p])) /\ Len(mine[p]) <= config[p].maxHops
    /\ numbers[p] = Due(mine[p], config[p])
Running(p) ==
  pc[p] \in {"starting", "fetching", "advancing"} =>
    /\ mine[p] # <<>> /\ Len(mine[p]) <= config[p].maxHops + 1
    /\ CompleteTo(mine[p], IF pc[p] = "advancing" THEN Len(mine[p]) ELSE Len(mine[p]) - 1)
Holding(p) ==
  pc[p] = "fetching" => batches[Current(p)].holder = p /\ batches[Current(p)].status = "running"

Own(p) == Expanding(p) /\ Starting(p) /\ Preparing(p) /\ Running(p) /\ Holding(p)

Recorded(r) ==
  /\ Chain(r.batches, r.config) /\ CompleteTo(r.batches, Len(r.batches))
  /\ r.batches # <<>> /\ Len(r.batches) <= r.config.maxHops + 1
  /\ Len(r.batches) <= r.config.maxHops => NextHop(r.batches, r.config) = {}

IInv == /\ TypeOK
        /\ \A b \in DOMAIN batches : BatchOK(b)
        /\ \A p \in Process : Own(p)
        /\ \A r \in runs : Recorded(r)

\* What an expansion builds on is never changed: no batch is removed or asked anything
\* else, a complete one is never touched again, and no recorded run is ever dropped.
HistoryStays ==
  [][/\ runs \subseteq runs'
     /\ \A b \in DOMAIN batches :
          /\ b \in DOMAIN batches'
          /\ batches'[b].hop = batches[b].hop /\ batches'[b].keys = batches[b].keys
          /\ batches[b].status = "complete" => batches'[b] = batches[b]]_vars

-----------------------------------------------------------------------------
(* What a hop chooses *)

Ahead(E, count, q) == {r \in E : Before(count, r, q)}

\* The order of the candidates is total, and an earlier one has fewer ahead of it.
LEMMA RankIsOrder ==
  ASSUME NEW E \in SUBSET Pub, NEW count \in [Pub -> Nat]
  PROVE  /\ \A q \in E : /\ IsFiniteSet(Ahead(E, count, q))
                         /\ Cardinality(Ahead(E, count, q)) \in 0..(Cardinality(E) - 1)
         /\ \A q, r \in E : \/ q = r \/ Before(count, q, r) \/ Before(count, r, q)
         /\ \A q, r \in E : Before(count, r, q) =>
              Cardinality(Ahead(E, count, r)) < Cardinality(Ahead(E, count, q))
<1>1. IsFiniteSet(E) /\ Cardinality(E) \in Nat
  BY FS_Subset, FS_CardinalityType, DiscoveryAssumption
<1>2. \A q \in E : q \in Nat /\ count[q] \in Nat
  BY DiscoveryAssumption
<1>3. ASSUME NEW q \in E
      PROVE  /\ IsFiniteSet(Ahead(E, count, q))
             /\ Cardinality(Ahead(E, count, q)) \in 0..(Cardinality(E) - 1)
  <2>1. Ahead(E, count, q) \in SUBSET E /\ q \notin Ahead(E, count, q)
    BY <1>2 DEF Ahead, Before
  <2>2. /\ IsFiniteSet(Ahead(E, count, q))
        /\ Cardinality(Ahead(E, count, q)) <= Cardinality(E)
        /\ Cardinality(Ahead(E, count, q)) # Cardinality(E)
    BY <1>1, <2>1, FS_Subset
  <2> QED
    BY <1>1, <2>2, FS_CardinalityType
<1>4. \A q, r \in E : \/ q = r \/ Before(count, q, r) \/ Before(count, r, q)
  BY <1>2 DEF Before
<1>5. ASSUME NEW q \in E, NEW r \in E, Before(count, r, q)
      PROVE  Cardinality(Ahead(E, count, r)) < Cardinality(Ahead(E, count, q))
  <2>1. Ahead(E, count, r) \in SUBSET Ahead(E, count, q)
    BY <1>2, <1>5 DEF Ahead, Before
  <2>2. r \in Ahead(E, count, q) /\ r \notin Ahead(E, count, r)
    BY <1>2, <1>5 DEF Ahead, Before
  <2>3. /\ Cardinality(Ahead(E, count, r)) <= Cardinality(Ahead(E, count, q))
        /\ Cardinality(Ahead(E, count, r)) # Cardinality(Ahead(E, count, q))
    BY <1>3, <2>1, <2>2, FS_Subset
  <2> QED
    BY <1>1, <1>3, <2>3
<1> QED
  BY <1>3, <1>4, <1>5

\* A candidate left out found the hop full, and every chosen one before it.
LEMMA ChoiceIsBest ==
  ASSUME NEW E \in SUBSET Pub, NEW count \in [Pub -> Nat], NEW cap \in Nat,
         NEW q \in E, q \notin Choose(E, count, cap)
  PROVE  /\ Cardinality(Choose(E, count, cap)) = cap
         /\ \A c \in Choose(E, count, cap) : c \in E /\ Before(count, c, q)
<1> DEFINE rank(r) == Cardinality(Ahead(E, count, r))
           chosen == Choose(E, count, cap)
           f == [r \in E |-> rank(r)]
           g == [r \in chosen |-> rank(r)]
<1>1. IsFiniteSet(E) /\ Cardinality(E) \in Nat
  BY FS_Subset, FS_CardinalityType, DiscoveryAssumption
<1>2. chosen = {r \in E : rank(r) < cap} /\ q \notin chosen
  BY DEF Choose, Ahead
<1>3. /\ \A r \in E : rank(r) \in 0..(Cardinality(E) - 1)
      /\ \A r, t \in E : r = t \/ Before(count, r, t) \/ Before(count, t, r)
      /\ \A r, t \in E : Before(count, t, r) => rank(t) < rank(r)
  BY RankIsOrder
<1> HIDE DEF rank, chosen
<1>4. rank(q) >= cap /\ cap <= Cardinality(E) - 1
  BY <1>1, <1>2, <1>3
<1>5. f \in Surjection(E, 0..(Cardinality(E) - 1))
  <2>1. f \in Injection(E, 0..(Cardinality(E) - 1))
    BY <1>1, <1>3 DEF Injection, IsInjective
  <2>2. IsFiniteSet(0..(Cardinality(E) - 1)) /\ Cardinality(0..(Cardinality(E) - 1)) = Cardinality(E)
    <3>1. PICK n \in Nat : n = Cardinality(E)
      BY <1>1
    <3>2. IsFiniteSet(0..(n - 1)) /\ Cardinality(0..(n - 1)) = IF 0 > n - 1 THEN 0 ELSE n - 1 - 0 + 1
      BY ONLY 0 \in Int, n - 1 \in Int, FS_Interval
    <3>3. Cardinality(0..(n - 1)) = n
      BY <3>2
    <3> QED
      BY <3>1, <3>2, <3>3
  <2> QED
    BY <1>1, <2>1, <2>2, FS_Injection
<1>6. g \in Surjection(chosen, 0..(cap - 1)) /\ g \in Injection(chosen, 0..(cap - 1))
  <2>1. g \in [chosen -> 0..(cap - 1)]
    BY <1>1, <1>2, <1>3
  <2>2. \A k \in 0..(cap - 1) : \E r \in chosen : g[r] = k
    <3> SUFFICES ASSUME NEW k \in 0..(cap - 1) PROVE \E r \in chosen : g[r] = k
      OBVIOUS
    <3>1. k \in 0..(Cardinality(E) - 1) /\ k < cap
      BY <1>1, <1>4
    <3>2. PICK r \in E : f[r] = k
      BY <1>5, <3>1 DEF Surjection
    <3> QED
      BY <1>2, <3>1, <3>2
  <2>3. \A r, t \in chosen : g[r] = g[t] => r = t
    BY <1>1, <1>2, <1>3
  <2> QED
    BY <2>1, <2>2, <2>3 DEF Surjection, Injection, IsInjective
<1>7. Cardinality(chosen) = cap
  <2>1. IsFiniteSet(chosen)
    BY <1>1, <1>2, FS_Subset
  <2>2. Cardinality(0..(cap - 1)) = cap
    BY FS_Interval
  <2> QED
    BY <1>6, <2>1, <2>2, FS_Surjection
<1>8. ASSUME NEW c \in chosen PROVE c \in E /\ Before(count, c, q)
  <2>1. c \in E /\ rank(c) < cap
    BY <1>2, <1>8
  <2>2. c # q /\ ~Before(count, q, c)
    BY <1>1, <1>3, <1>4, <2>1
  <2> QED
    BY <1>3, <2>1, <2>2
<1> QED
  BY <1>7, <1>8 DEF chosen

LEMMA ChosenIsEligible ==
  ASSUME NEW E, NEW count, NEW cap
  PROVE  Choose(E, count, cap) \subseteq E
BY DEF Choose

\* A hop asks for publications that were neither asked for nor found before.
LEMMA NextHopIsNew ==
  ASSUME NEW ids, NEW s
  PROVE  NextHop(ids, s) \in SUBSET (Pub \ Seen(ids))
BY ChosenIsEligible DEF NextHop


-----------------------------------------------------------------------------
(* What stays *)

\* A hop computed from batches that are not touched stays what it was.
LEMMA NextHopStays ==
  ASSUME NEW ids \in Seq(Nat), ids # <<>>, NEW s,
         \A i \in 1..Len(ids) : batches'[ids[i]] = batches[ids[i]]
  PROVE  NextHop(ids, s)' = NextHop(ids, s)
<1>1. Len(ids) \in 1..Len(ids) /\ DOMAIN ids = 1..Len(ids)
  BY EmptySeq, LenProperties
<1>2. Frontier(ids[Len(ids)])' = Frontier(ids[Len(ids)])
  BY <1>1 DEF Frontier
<1>3. Seen(ids)' = Seen(ids)
  <2>1. \A x : (\E i \in DOMAIN ids : x = batches'[ids[i]].keys) <=> \E i \in DOMAIN ids : x = batches[ids[i]].keys
    BY <1>1
  <2>2. \A x : (\E i \in DOMAIN ids : x = batches'[ids[i]].stored) <=> \E i \in DOMAIN ids : x = batches[ids[i]].stored
    BY <1>1
  <2>3. /\ {batches'[ids[i]].keys : i \in DOMAIN ids} = {batches[ids[i]].keys : i \in DOMAIN ids}
        /\ {batches'[ids[i]].stored : i \in DOMAIN ids} = {batches[ids[i]].stored : i \in DOMAIN ids}
    BY <2>1, <2>2
  <2> QED
    BY <2>3 DEF Seen
<1> QED
  BY <1>2, <1>3 DEF NextHop

LEMMA DueStays ==
  ASSUME NEW ids \in Seq(Nat), NEW s, \A i \in 1..Len(ids) : batches'[ids[i]] = batches[ids[i]]
  PROVE  Due(ids, s)' = Due(ids, s)
BY NextHopStays DEF Due

\* The first n elements of a sequence.
LEMMA Prefix ==
  ASSUME NEW ids \in Seq(Nat), NEW n \in 0..Len(ids)
  PROVE  /\ SubSeq(ids, 1, n) \in Seq(Nat) /\ Len(SubSeq(ids, 1, n)) = n
         /\ \A i \in 1..n : SubSeq(ids, 1, n)[i] = ids[i]
         /\ SubSeq(ids, 1, n) = <<>> <=> n = 0
<1>1. \A i \in 1..n : ids[i] \in Nat
  BY LenProperties, ElementOfSeq
<1>2. /\ SubSeq(ids, 1, n) \in Seq(Nat)
      /\ Len(SubSeq(ids, 1, n)) = IF 1 <= n THEN n - 1 + 1 ELSE 0
      /\ \A i \in 1..(n - 1 + 1) : SubSeq(ids, 1, n)[i] = ids[1 + i - 1]
  BY <1>1, SubSeqProperties, LenProperties
<1>3. n \in Nat /\ Len(SubSeq(ids, 1, n)) = n
  BY <1>2, LenProperties
<1> QED
  BY <1>2, <1>3, EmptySeq

\* What a step leaves of the batches.
Frozen == \A b \in DOMAIN batches :
  /\ b \in DOMAIN batches'
  /\ batches'[b].hop = batches[b].hop /\ batches'[b].keys = batches[b].keys
  /\ batches[b].status = "complete" => batches'[b] = batches[b]

LEMMA ChainStays ==
  ASSUME Frozen, NEW ids \in Seq(Nat), NEW s, Chain(ids, s), CompleteTo(ids, Len(ids) - 1)
  PROVE  Chain(ids, s)' /\ \A n \in 0..Len(ids) : CompleteTo(ids, n) => CompleteTo(ids, n)'
<1>1. Len(ids) \in Nat
  BY LenProperties
<1>2. \A i \in 1..(Len(ids) - 1) : batches'[ids[i]] = batches[ids[i]]
  BY <1>1 DEF Frozen, Chain, CompleteTo
<1>3. ASSUME NEW i \in 1..Len(ids)
      PROVE  Due(SubSeq(ids, 1, i - 1), s)' = Due(SubSeq(ids, 1, i - 1), s)
  <2>1. /\ SubSeq(ids, 1, i - 1) \in Seq(Nat) /\ Len(SubSeq(ids, 1, i - 1)) = i - 1
        /\ \A j \in 1..(i - 1) : SubSeq(ids, 1, i - 1)[j] = ids[j]
    BY <1>1, Prefix, SMTT(60)
  <2>2. \A j \in 1..Len(SubSeq(ids, 1, i - 1)) :
          batches'[SubSeq(ids, 1, i - 1)[j]] = batches[SubSeq(ids, 1, i - 1)[j]]
    BY <1>1, <1>2, <2>1, SMTT(60)
  <2> QED
    BY <2>1, <2>2, DueStays
<1>4. Chain(ids, s)'
  BY <1>3 DEF Frozen, Chain
<1>5. ASSUME NEW n \in 0..Len(ids), CompleteTo(ids, n) PROVE CompleteTo(ids, n)'
  BY <1>1, <1>5 DEF Frozen, Chain, CompleteTo
<1> QED
  BY <1>4, <1>5


-----------------------------------------------------------------------------
(* What a step of expansion p does to the batches *)

Act(p) == (\E s \in Settings : Begin(p, s)) \/ Step(p) \/ Crash(p)

LEMMA CurrentIs ==
  ASSUME IInv, NEW p \in Process, pc[p] \in {"starting", "fetching", "advancing"}
  PROVE  /\ Current(p) \in DOMAIN batches /\ batches[Current(p)] \in Batch
         /\ Len(mine[p]) \in Nat \ {0} /\ Current(p) = mine[p][Len(mine[p])]
<1>1. mine[p] \in Seq(Nat) /\ mine[p] # <<>> /\ Chain(mine[p], config[p])
  BY DEF IInv, TypeOK, Own, Expanding, Running
<1>2. Len(mine[p]) \in Nat \ {0} /\ Len(mine[p]) \in 1..Len(mine[p])
  BY <1>1, EmptySeq
<1>3. Current(p) \in DOMAIN batches
  BY <1>1, <1>2 DEF Current, Chain
<1>4. batches \in Seq(Batch) /\ DOMAIN batches = 1..Len(batches)
  BY LenProperties DEF IInv, TypeOK
<1>5. batches[Current(p)] \in Batch
  BY <1>3, <1>4, ElementOfSeq
<1> QED
  BY <1>2, <1>3, <1>5 DEF Current

\* Of the batches, p changes only the one it holds, keeps what that was asked, and settles
\* no more than that.
Changes(p) ==
  /\ batches' \in Seq(Batch)
  /\ Frozen
  /\ \A b \in DOMAIN batches' : BatchOK(b)'
  /\ \A q \in Process \ {p} : \A b \in DOMAIN batches : batches[b].holder = q => batches'[b] = batches[b]

LEMMA UnchangedChanges ==
  ASSUME IInv, NEW p \in Process, batches' = batches
  PROVE  Changes(p)
BY DEF IInv, TypeOK, Changes, Frozen, BatchOK

LEMMA CreateChanges ==
  ASSUME IInv, NEW p \in Process, Create(p)
  PROVE  /\ Changes(p) /\ DOMAIN batches' = DOMAIN batches \cup {Len(batches) + 1}
         /\ batches'[Len(batches) + 1].hop = Len(mine[p])
         /\ batches'[Len(batches) + 1].keys = numbers[p] /\ Len(batches) \in Nat
<1> DEFINE new == [hop |-> Hop(p), keys |-> numbers[p], settled |-> {}, stored |-> {},
                   status |-> "running", holder |-> Nobody]
<1>1. new \in Batch /\ batches \in Seq(Batch) /\ batches' = Append(batches, new)
  <2>1. Hop(p) \in Nat /\ numbers[p] \in SUBSET Pub
    BY LenProperties DEF IInv, TypeOK, Hop
  <2> QED
    BY <2>1 DEF Create, IInv, TypeOK, Batch
<1>2. /\ new.hop = Len(mine[p]) /\ new.keys = numbers[p] /\ new.settled = {} /\ new.stored = {}
      /\ new.status = "running"
  BY DEF Hop
<1> HIDE DEF new
<1>3. /\ batches' \in Seq(Batch) /\ Len(batches) \in Nat
      /\ DOMAIN batches' = DOMAIN batches \cup {Len(batches) + 1}
      /\ \A b \in DOMAIN batches : batches'[b] = batches[b]
      /\ batches'[Len(batches) + 1] = new
  BY <1>1
<1>4. Frozen
  BY <1>3 DEF Frozen
<1>5. \A b \in DOMAIN batches' : BatchOK(b)'
  BY <1>2, <1>3 DEF IInv, BatchOK
<1> QED
  BY <1>2, <1>3, <1>4, <1>5 DEF Changes

\* A batch b that is not complete is replaced.
LEMMA ReplaceChanges ==
  ASSUME IInv, NEW p \in Process, NEW b \in DOMAIN batches, NEW new \in Batch,
         batches' = [batches EXCEPT ![b] = new],
         batches[b].status # "complete", batches[b].holder \in {p, Nobody},
         new.hop = batches[b].hop, new.keys = batches[b].keys,
         new.stored \subseteq new.settled, new.settled \subseteq new.keys,
         new.status = "complete" => new.settled = new.keys
  PROVE  Changes(p) /\ batches'[b] = new
<1>1. batches \in Seq(Batch) /\ b \in 1..Len(batches) /\ DOMAIN batches = 1..Len(batches)
  BY LenProperties DEF IInv, TypeOK
<1>2. batches' \in Seq(Batch) /\ DOMAIN batches' = DOMAIN batches
  BY <1>1, ExceptSeq
<1>3. batches'[b] = new /\ \A c \in DOMAIN batches : c # b => batches'[c] = batches[c]
  BY <1>1
<1>4. Frozen
  BY <1>2, <1>3 DEF Frozen
<1>5. \A c \in DOMAIN batches' : BatchOK(c)'
  BY <1>2, <1>3 DEF IInv, BatchOK
<1>6. \A q \in Process \ {p} : \A c \in DOMAIN batches : batches[c].holder = q => batches'[c] = batches[c]
  BY <1>3, DiscoveryAssumption
<1> QED
  BY <1>2, <1>3, <1>4, <1>5, <1>6 DEF Changes

LEMMA StartChanges ==
  ASSUME IInv, NEW p \in Process, Start(p)
  PROVE  Changes(p) /\ batches'[Current(p)].holder = p /\ batches'[Current(p)].status = "running"
<1> DEFINE b == Current(p)
           old == batches[b]
           new == [old EXCEPT !.holder = p, !.status = "running"]
<1>1. b \in DOMAIN batches /\ old \in Batch /\ BatchOK(b)
  BY CurrentIs DEF Start, IInv
<1>2. old.status # "complete" /\ old.holder = Nobody
  BY DEF Start, Runnable
<1>3. batches' = [batches EXCEPT ![b] = new]
  BY <1>1 DEF Start
<1>4. /\ new \in Batch /\ new.hop = old.hop /\ new.keys = old.keys /\ new.stored = old.stored
      /\ new.settled = old.settled /\ new.status = "running" /\ new.holder = p
  BY <1>1 DEF Batch
<1> HIDE DEF new
<1> QED
  BY <1>1, <1>2, <1>3, <1>4, ReplaceChanges DEF BatchOK

LEMMA SettleChanges ==
  ASSUME IInv, NEW p \in Process, pc[p] = "fetching",
         NEW done \in SUBSET Open(Current(p)), NEW found \in SUBSET done,
         NEW status \in {"running", "complete", "failed"},
         status = "complete" => done = Open(Current(p)),
         Settle(Current(p), done, found, status)
  PROVE  Changes(p) /\ batches'[Current(p)].status = status
<1> DEFINE b == Current(p)
           old == batches[b]
           new == [old EXCEPT !.settled = @ \cup done, !.stored = @ \cup found, !.status = status,
                              !.holder = Nobody]
<1>1. b \in DOMAIN batches /\ old \in Batch /\ BatchOK(b)
  BY CurrentIs DEF IInv
<1>2. old.status = "running" /\ old.holder = p
  BY DEF IInv, Own, Holding
<1>3. batches' = [batches EXCEPT ![b] = new]
  BY <1>1 DEF Settle
<1>4. done \subseteq old.keys /\ done \cup old.settled \subseteq old.keys /\ old.keys \subseteq Pub
  BY <1>1 DEF Open, BatchOK, Batch
<1>5. /\ new.hop = old.hop /\ new.keys = old.keys /\ new.stored = old.stored \cup found
      /\ new.settled = old.settled \cup done /\ new.status = status /\ new.holder = Nobody
      /\ new \in Batch
  BY <1>1, <1>4 DEF Batch
<1>6. new.stored \subseteq new.settled /\ (status = "complete" => new.settled = new.keys)
  BY <1>1, <1>4, <1>5 DEF BatchOK, Open
<1> HIDE DEF new
<1> QED
  BY <1>1, <1>2, <1>3, <1>4, <1>5, <1>6, ReplaceChanges

LEMMA BatchesStep ==
  ASSUME IInv, NEW p \in Process, Act(p)
  PROVE  Changes(p)
<1>1. CASE \/ \E s \in Settings : Begin(p, s)
           \/ Refuse(p) \/ Look(p) \/ Continue(p) \/ RefuseStart(p) \/ Advance(p) \/ Record(p)
  <2>1. batches' = batches
    BY <1>1 DEF Begin, Refuse, Look, Continue, RefuseStart, Advance, Record, tables
  <2> QED
    BY <2>1, UnchangedChanges
<1>2. CASE Create(p) \/ Start(p)
  BY <1>2, CreateChanges, StartChanges
<1>3. CASE Complete(p)
  BY <1>3, SettleChanges DEF Complete
<1>4. CASE Incomplete(p)
  BY <1>4, SettleChanges DEF Incomplete
<1>5. CASE Crash(p)
  BY <1>5, SettleChanges, UnchangedChanges DEF Crash
<1> QED
  BY <1>1, <1>2, <1>3, <1>4, <1>5 DEF Act, Step


-----------------------------------------------------------------------------
(* The expansions *)

\* What has to be shown of an expansion after a step, said of its batches by name.
LEMMA OwnNext ==
  ASSUME NEW p \in Process, NEW label \in Labels, NEW ids \in Seq(Nat), NEW s,
         pc'[p] = label, mine'[p] = ids, config'[p] = s,
         label \in {"idle", "dead"} => ids = <<>>,
         label \notin {"idle", "dead"} => s \in Settings /\ Chain(ids, s)',
         label \in {"looking", "creating"} =>
           CompleteTo(ids, Len(ids))' /\ Len(ids) <= s.maxHops /\ numbers'[p] = Due(ids, s)',
         label \in {"starting", "fetching", "advancing"} =>
           /\ ids # <<>> /\ Len(ids) <= s.maxHops + 1
           /\ \A i \in 1..(IF label = "advancing" THEN Len(ids) ELSE Len(ids) - 1) :
                batches'[ids[i]].status = "complete",
         label = "fetching" =>
           batches'[ids[Len(ids)]].holder = p /\ batches'[ids[Len(ids)]].status = "running"
  PROVE  Own(p)'
<1>1. /\ Chain(mine[p], config[p])' <=> Chain(ids, s)'
      /\ Due(mine[p], config[p])' = Due(ids, s)'
  BY DEF Chain, Due, NextHop, Frontier, Seen
<1>2. Expanding(p)' /\ Starting(p)' /\ Holding(p)'
  BY <1>1 DEF Expanding, Starting, Holding, Current
<1>3. Preparing(p)' /\ Running(p)'
  BY <1>1 DEF Preparing, Running, CompleteTo
<1> QED
  BY <1>2, <1>3, SMTT(60) DEF Own

\* A hop more.
LEMMA ChainGrows ==
  ASSUME Frozen, NEW ids \in Seq(Nat), NEW s, Chain(ids, s), CompleteTo(ids, Len(ids)),
         NEW b \in DOMAIN batches', b \in Nat,
         batches'[b].hop = Len(ids), batches'[b].keys = Due(ids, s)
  PROVE  /\ Append(ids, b) \in Seq(Nat) /\ Append(ids, b) # <<>>
         /\ Len(Append(ids, b)) = Len(ids) + 1 /\ Append(ids, b)[Len(ids) + 1] = b
         /\ Chain(Append(ids, b), s)' /\ CompleteTo(Append(ids, b), Len(ids))'
<1> DEFINE new == Append(ids, b)
<1>1. /\ new \in Seq(Nat) /\ Len(new) = Len(ids) + 1 /\ new[Len(ids) + 1] = b /\ Len(ids) \in Nat
      /\ \A i \in 1..Len(ids) : new[i] = ids[i]
  OBVIOUS
<1> HIDE DEF new
<1>2. new # <<>>
  BY <1>1, EmptySeq
<1>3. /\ \A i \in 1..Len(ids) : batches'[ids[i]] = batches[ids[i]]
      /\ CompleteTo(ids, Len(ids) - 1) /\ CompleteTo(ids, Len(ids))'
  <2>1. \A i \in 1..Len(ids) : ids[i] \in DOMAIN batches /\ batches[ids[i]].status = "complete"
    BY DEF Chain, CompleteTo
  <2>2. \A i \in 1..Len(ids) : batches'[ids[i]] = batches[ids[i]]
    BY <2>1 DEF Frozen
  <2> QED
    BY <1>1, <2>1, <2>2, SMTT(60) DEF CompleteTo
<1>4. Chain(ids, s)'
  BY <1>3, ChainStays
<1>5. Due(ids, s)' = Due(ids, s)
  BY <1>3, DueStays
<1>6. \A n \in 0..Len(ids) : SubSeq(new, 1, n) = SubSeq(ids, 1, n)
  <2> SUFFICES ASSUME NEW n \in 0..Len(ids) PROVE SubSeq(new, 1, n) = SubSeq(ids, 1, n)
    OBVIOUS
  <2>1. n \in 0..Len(new) /\ \A i \in 1..n : i \in 1..Len(ids)
    BY <1>1
  <2>2. /\ SubSeq(new, 1, n) \in Seq(Nat) /\ Len(SubSeq(new, 1, n)) = n
        /\ \A i \in 1..n : SubSeq(new, 1, n)[i] = new[i]
    BY <1>1, <2>1, Prefix
  <2>3. /\ SubSeq(ids, 1, n) \in Seq(Nat) /\ Len(SubSeq(ids, 1, n)) = n
        /\ \A i \in 1..n : SubSeq(ids, 1, n)[i] = ids[i]
    BY Prefix
  <2> QED
    BY <1>1, <2>1, <2>2, <2>3, SeqEqual
<1>7. SubSeq(new, 1, Len(ids)) = ids
  BY <1>1, <1>6, SubSeqFull
<1>8. Chain(new, s)'
  <2> SUFFICES ASSUME NEW i \in 1..Len(new)
               PROVE  /\ new[i] \in DOMAIN batches' /\ batches'[new[i]].hop = i - 1
                      /\ batches'[new[i]].keys = Due(SubSeq(new, 1, i - 1), s)'
    BY DEF Chain
  <2>1. CASE i \in 1..Len(ids)
    <3>1. SubSeq(new, 1, i - 1) = SubSeq(ids, 1, i - 1)
      BY <1>1, <1>6, <2>1
    <3> QED
      BY <1>1, <1>4, <2>1, <3>1 DEF Chain
  <2>2. CASE i = Len(ids) + 1
    <3>1. PICK before : before = SubSeq(new, 1, i - 1)
      OBVIOUS
    <3>2. before = ids /\ new[i] = b /\ Len(ids) = i - 1
      BY <1>1, <1>7, <2>2, <3>1
    <3>3. batches'[b].keys = Due(before, s)'
      BY <1>5, <3>2
    <3> QED
      BY <1>5, <3>1, <3>2, <3>3
  <2> QED
    BY <1>1, <2>1, <2>2
<1>9. CompleteTo(new, Len(ids))'
  BY <1>1, <1>3 DEF CompleteTo
<1> QED
  BY <1>1, <1>2, <1>8, <1>9 DEF new

\* The expansions that do not act.
Untouched(p) == \A q \in Process \ {p} :
  pc'[q] = pc[q] /\ config'[q] = config[q] /\ numbers'[q] = numbers[q] /\ mine'[q] = mine[q]

LEMMA TypeStep ==
  ASSUME IInv, NEW p \in Process, Act(p)
  PROVE  /\ TypeOK' /\ Untouched(p)
         /\ runs' = runs \/ (Record(p) /\ runs' = runs \cup {[config |-> config[p], batches |-> mine[p]]})
<1>0. TypeOK /\ batches' \in Seq(Batch)
  BY BatchesStep DEF IInv, Changes
<1> DEFINE Goal == /\ TypeOK' /\ Untouched(p)
                   /\ \/ runs' = runs
                      \/ Record(p) /\ runs' = runs \cup {[config |-> config[p], batches |-> mine[p]]}
<1> USE DEF Untouched, TypeOK, Labels, Goto, tables
<1>1. ASSUME NEW s \in Settings, Begin(p, s) PROVE Goal
  <2>1. Seeds \in SUBSET Pub
    BY DiscoveryAssumption
  <2> QED
    BY <1>0, <1>1, <2>1 DEF Begin
<1>2. ASSUME Quit(p), runs' = runs PROVE Goal
  BY <1>0, <1>2, EmptySeq DEF Quit, Drop
<1>3. CASE Refuse(p) \/ RefuseStart(p) \/ Incomplete(p)
  BY <1>2, <1>3 DEF Refuse, RefuseStart, Incomplete
<1>4. CASE Look(p) \/ Start(p) \/ Complete(p)
  BY <1>0, <1>4 DEF Look, Start, Complete
<1>5. CASE Continue(p)
  <2>1. PICK b \in Existing(p) : /\ mine' = [mine EXCEPT ![p] = Append(@, b)]
                                 /\ pc' \in [Process -> Labels] /\ \A q \in Process \ {p} : pc'[q] = pc[q]
    BY <1>0, <1>5 DEF Continue
  <2>2. b \in Nat
    BY <1>0, LenProperties DEF Existing
  <2> QED
    BY <1>0, <1>5, <2>1, <2>2 DEF Continue
<1>6. CASE Create(p)
  <2>1. Len(batches) + 1 \in Nat
    BY <1>0, LenProperties
  <2> QED
    BY <1>0, <1>6, <2>1 DEF Create
<1>7. CASE Advance(p)
  <2>1. NextHop(mine[p], config[p]) \in SUBSET Pub
    BY NextHopIsNew
  <2> QED
    BY <1>0, <1>7, <2>1 DEF Advance
<1>8. CASE Record(p)
  <2>1. config[p] \in Settings /\ mine[p] \in Seq(Nat)
    BY <1>0, <1>8 DEF Record, IInv, Own, Expanding
  <2>2. [config |-> config[p], batches |-> mine[p]] \in Run
    BY <2>1 DEF Run
  <2> QED
    BY <1>0, <1>8, <2>2, EmptySeq DEF Record, Quit, Drop
<1>9. CASE Crash(p)
  BY <1>0, <1>9, EmptySeq DEF Crash, Drop
<1> QED
  BY <1>1, <1>3, <1>4, <1>5, <1>6, <1>7, <1>8, <1>9 DEF Act, Step


LEMMA OwnStep ==
  ASSUME IInv, NEW p \in Process, Act(p)
  PROVE  Own(p)'
<1>1. PICK ids, s : ids = mine[p] /\ s = config[p]
  OBVIOUS
<1>0. TypeOK /\ Frozen /\ ids \in Seq(Nat) /\ Len(ids) \in Nat /\ \A b \in DOMAIN batches : b \in Nat
  BY <1>1, BatchesStep, LenProperties DEF IInv, TypeOK, Changes
<1>2. /\ pc[p] \in {"idle", "dead"} => ids = <<>>
      /\ pc[p] \notin {"idle", "dead"} => s \in Settings /\ Chain(ids, s)
      /\ pc[p] \in {"looking", "creating"} =>
           CompleteTo(ids, Len(ids)) /\ Len(ids) <= s.maxHops /\ numbers[p] = Due(ids, s)
      /\ pc[p] \in {"starting", "fetching", "advancing"} =>
           /\ ids # <<>> /\ Len(ids) <= s.maxHops + 1
           /\ CompleteTo(ids, IF pc[p] = "advancing" THEN Len(ids) ELSE Len(ids) - 1)
  BY <1>1 DEF IInv, Own, Expanding, Starting, Preparing, Running
\* What its batches keep.
<1>3. ASSUME Chain(ids, s), CompleteTo(ids, Len(ids) - 1)
      PROVE  Chain(ids, s)' /\ \A i \in 1..(Len(ids) - 1) : batches'[ids[i]].status = "complete"
  <2>1. Chain(ids, s)'
    BY <1>0, <1>3, ChainStays
  <2>2. \A i \in 1..(Len(ids) - 1) : i \in 1..Len(ids) /\ batches[ids[i]].status = "complete"
    BY <1>0, <1>3 DEF CompleteTo
  <2>3. \A i \in 1..(Len(ids) - 1) : batches'[ids[i]] = batches[ids[i]]
    BY <1>0, <1>3, <2>2 DEF Frozen, Chain
  <2> QED
    BY <2>1, <2>2, <2>3
<1>4. ASSUME Chain(ids, s), CompleteTo(ids, Len(ids))
      PROVE  /\ Chain(ids, s)' /\ CompleteTo(ids, Len(ids))' /\ Due(ids, s)' = Due(ids, s)
  <2>1. CompleteTo(ids, Len(ids) - 1)
    BY <1>0, <1>4 DEF CompleteTo
  <2>2. \A i \in 1..Len(ids) : ids[i] \in DOMAIN batches /\ batches[ids[i]].status = "complete"
    BY <1>4 DEF Chain, CompleteTo
  <2>3. \A i \in 1..Len(ids) : batches'[ids[i]] = batches[ids[i]]
    BY <1>0, <2>2 DEF Frozen
  <2>4. CompleteTo(ids, Len(ids))'
    BY <2>2, <2>3 DEF CompleteTo
  <2> QED
    BY <1>0, <1>3, <1>4, <2>1, <2>3, <2>4, DueStays
<1>5. ASSUME pc'[p] \in {"idle", "dead"}, mine'[p] = <<>> PROVE Own(p)'
  BY <1>5 DEF Own, Expanding, Starting, Preparing, Running, Holding
<1>6. ASSUME Quit(p) PROVE Own(p)'
  BY <1>0, <1>5, <1>6 DEF Quit, Drop, Goto, TypeOK
<1>7. CASE Refuse(p) \/ RefuseStart(p) \/ Incomplete(p) \/ Record(p)
  BY <1>6, <1>7 DEF Refuse, RefuseStart, Incomplete, Record
<1>8. CASE Crash(p)
  BY <1>0, <1>5, <1>8 DEF Crash, Drop, Goto, TypeOK
<1>9. ASSUME NEW t \in Settings, Begin(p, t) PROVE Own(p)'
  <2>1. PICK none : none = <<>>
    OBVIOUS
  <2>2. /\ pc'[p] = "looking" /\ mine'[p] = none /\ config'[p] = t /\ numbers'[p] = Seeds
    BY <1>0, <1>1, <1>2, <1>9, <2>1 DEF Begin, Goto, TypeOK
  <2>3. /\ none \in Seq(Nat) /\ Len(none) = 0 /\ t.maxHops \in Nat /\ "looking" \in Labels
    BY <2>1, DiscoveryAssumption DEF Labels
  <2>4. Chain(none, t)' /\ CompleteTo(none, Len(none))' /\ Due(none, t)' = Seeds
    BY <2>1, <2>3 DEF Chain, CompleteTo, Due
  <2>5. Len(none) <= t.maxHops
    BY <2>3
  <2> QED
    BY ONLY <2>2, <2>3, <2>4, <2>5, OwnNext
<1>10. CASE Look(p)
  <2>1. /\ pc[p] = "looking" /\ pc'[p] = "creating" /\ mine'[p] = ids /\ config'[p] = s
        /\ numbers'[p] = numbers[p] /\ "creating" \in Labels
    BY <1>0, <1>1, <1>10 DEF Look, Goto, TypeOK, Labels
  <2> QED
    BY <1>0, <1>2, <1>4, <2>1, OwnNext
\* A hop's batch is found or made.
<1>11. ASSUME pc[p] \in {"looking", "creating"}, NEW b \in DOMAIN batches', b \in Nat,
              batches'[b].hop = Len(ids), batches'[b].keys = Due(ids, s),
              mine'[p] = Append(ids, b), config'[p] = s,
              NEW label \in {"starting", "advancing"}, pc'[p] = label,
              label = "advancing" => batches'[b].status = "complete"
       PROVE  Own(p)'
  <2>1. PICK new : new = Append(ids, b)
    OBVIOUS
  <2>2. s \in Settings /\ Chain(ids, s) /\ CompleteTo(ids, Len(ids)) /\ Len(ids) <= s.maxHops
    BY <1>2, <1>11
  <2>3. /\ new \in Seq(Nat) /\ new # <<>> /\ Len(new) = Len(ids) + 1 /\ new[Len(ids) + 1] = b
        /\ Chain(new, s)' /\ CompleteTo(new, Len(ids))'
    BY <1>0, <1>11, <2>1, <2>2, ChainGrows
  <2>4. label \in Labels /\ s.maxHops \in Nat /\ Len(new) <= s.maxHops + 1
    BY <1>0, <1>11, <2>2, <2>3, DiscoveryAssumption DEF Labels
  <2>5. \A i \in 1..(IF label = "advancing" THEN Len(new) ELSE Len(new) - 1) :
          batches'[new[i]].status = "complete"
    <3>1. \A i \in 1..Len(ids) : batches'[new[i]].status = "complete"
      BY <2>3 DEF CompleteTo
    <3> QED
      BY <1>0, <1>11, <2>3, <3>1
  <2>6. mine'[p] = new /\ pc'[p] = label /\ config'[p] = s /\ label \in {"starting", "advancing"}
    BY <1>11, <2>1
  <2> QED
    BY ONLY <2>2, <2>3, <2>4, <2>5, <2>6, OwnNext
<1>12. CASE Continue(p)
  <2>1. PICK b \in Existing(p) :
          /\ batches[b].keys = numbers[p] /\ mine' = [mine EXCEPT ![p] = Append(@, b)]
          /\ Goto(p, IF batches[b].status = "complete" THEN "advancing" ELSE "starting")
    BY <1>12 DEF Continue, SameRequest
  <2>2. b \in DOMAIN batches /\ batches[b].hop = Len(ids) /\ b \in Nat
    BY <1>0, <1>1, <2>1 DEF Existing, Hop
  <2>3. batches' = batches /\ config' = config /\ pc[p] = "looking"
    BY <1>12 DEF Continue, tables
  <2>4. PICK label : label = IF batches[b].status = "complete" THEN "advancing" ELSE "starting"
    OBVIOUS
  <2>5. mine'[p] = Append(ids, b) /\ pc'[p] = label
    BY <1>0, <1>1, <2>1, <2>4 DEF Goto, TypeOK
  <2>6. batches[b].keys = Due(ids, s)
    BY <1>2, <2>1, <2>3
  <2> QED
    BY <1>1, <1>11, <2>2, <2>3, <2>4, <2>5, <2>6
<1>13. CASE Create(p)
  <2>1. PICK b : b = Len(batches) + 1
    OBVIOUS
  <2>2. b \in DOMAIN batches' /\ b \in Nat /\ batches'[b].hop = Len(ids) /\ batches'[b].keys = numbers[p]
    BY <1>1, <1>13, <2>1, CreateChanges
  <2>3. pc[p] = "creating" /\ pc'[p] = "starting" /\ mine'[p] = Append(ids, b) /\ config'[p] = s
    BY <1>0, <1>1, <1>13, <2>1 DEF Create, Goto, TypeOK
  <2>4. numbers[p] = Due(ids, s)
    BY <1>2, <2>3
  <2> QED
    BY <1>11, <2>2, <2>3, <2>4
\* And run.
<1>14. CASE Start(p)
  <2>1. /\ pc[p] = "starting" /\ pc'[p] = "fetching" /\ mine'[p] = ids /\ config'[p] = s
        /\ "fetching" \in Labels
    BY <1>0, <1>1, <1>14 DEF Start, Goto, TypeOK, Labels
  <2>2. batches'[ids[Len(ids)]].holder = p /\ batches'[ids[Len(ids)]].status = "running"
    BY <1>1, <1>14, StartChanges DEF Current
  <2>3. /\ s \in Settings /\ Chain(ids, s) /\ CompleteTo(ids, Len(ids) - 1)
        /\ ids # <<>> /\ Len(ids) <= s.maxHops + 1
    BY <1>2, <2>1
  <2>4. Chain(ids, s)' /\ \A i \in 1..(Len(ids) - 1) : batches'[ids[i]].status = "complete"
    BY <1>3, <2>3
  <2> QED
    BY ONLY <1>0, <2>1, <2>2, <2>3, <2>4, OwnNext
<1>15. CASE Complete(p)
  <2>1. /\ pc[p] = "fetching" /\ pc'[p] = "advancing" /\ mine'[p] = ids /\ config'[p] = s
        /\ "advancing" \in Labels
    BY <1>0, <1>1, <1>15 DEF Complete, Goto, TypeOK, Labels
  <2>2. batches'[ids[Len(ids)]].status = "complete"
    BY <1>1, <1>15, SettleChanges DEF Complete, Current
  <2>3. /\ s \in Settings /\ Chain(ids, s) /\ CompleteTo(ids, Len(ids) - 1)
        /\ ids # <<>> /\ Len(ids) <= s.maxHops + 1
    BY <1>2, <2>1
  <2>4. Chain(ids, s)' /\ \A i \in 1..(Len(ids) - 1) : batches'[ids[i]].status = "complete"
    BY <1>3, <2>3
  <2>5. \A i \in 1..Len(ids) : batches'[ids[i]].status = "complete"
    BY <1>0, <2>2, <2>4
  <2> QED
    BY ONLY <1>0, <2>1, <2>3, <2>4, <2>5, OwnNext
<1>16. CASE Advance(p)
  <2>1. /\ pc[p] = "advancing" /\ pc'[p] = "looking" /\ mine'[p] = ids /\ config'[p] = s
        /\ numbers'[p] = NextHop(ids, s) /\ ~(Len(ids) > s.maxHops) /\ "looking" \in Labels
    BY <1>0, <1>1, <1>16 DEF Advance, Over, Hop, Goto, TypeOK, Labels
  <2>2. s \in Settings /\ Chain(ids, s) /\ CompleteTo(ids, Len(ids)) /\ ids # <<>>
    BY <1>2, <2>1
  <2>3. Chain(ids, s)' /\ CompleteTo(ids, Len(ids))' /\ Due(ids, s)' = NextHop(ids, s)
    BY <1>4, <2>2 DEF Due
  <2>4. Len(ids) <= s.maxHops
    BY <1>0, <2>1, <2>2, DiscoveryAssumption
  <2> QED
    BY ONLY <1>0, <2>1, <2>2, <2>3, <2>4, OwnNext
<1> QED
  BY <1>7, <1>8, <1>9, <1>10, <1>12, <1>13, <1>14, <1>15, <1>16 DEF Act, Step

\* The expansions that do not act keep what they have, and the batch they hold.
LEMMA OthersStep ==
  ASSUME IInv, NEW p \in Process, Act(p), NEW q \in Process, q # p
  PROVE  Own(q)'
<1>1. PICK ids, s, label : ids = mine[q] /\ s = config[q] /\ label = pc[q]
  OBVIOUS
<1>2. /\ Frozen /\ ids \in Seq(Nat) /\ Len(ids) \in Nat /\ label \in Labels
      /\ pc'[q] = label /\ mine'[q] = ids /\ config'[q] = s /\ numbers'[q] = numbers[q]
  BY <1>1, BatchesStep, TypeStep, LenProperties DEF IInv, TypeOK, Changes, Untouched
<1>3. /\ label \in {"idle", "dead"} => ids = <<>>
      /\ label \notin {"idle", "dead"} => s \in Settings /\ Chain(ids, s)
      /\ label \in {"looking", "creating"} =>
           CompleteTo(ids, Len(ids)) /\ Len(ids) <= s.maxHops /\ numbers[q] = Due(ids, s)
      /\ label \in {"starting", "fetching", "advancing"} =>
           /\ ids # <<>> /\ Len(ids) <= s.maxHops + 1
           /\ CompleteTo(ids, IF label = "advancing" THEN Len(ids) ELSE Len(ids) - 1)
      /\ label = "fetching" => batches[ids[Len(ids)]].holder = q /\ batches[ids[Len(ids)]].status = "running"
  BY <1>1 DEF IInv, Own, Expanding, Starting, Preparing, Running, Holding, Current
<1>4. ASSUME label \notin {"idle", "dead"}
      PROVE  /\ \A i \in 1..(Len(ids) - 1) : batches[ids[i]].status = "complete"
             /\ label \notin {"starting", "fetching"} => \A i \in 1..Len(ids) : batches[ids[i]].status = "complete"
  <2>1. CASE label \in {"starting", "fetching"}
    <3>1. CompleteTo(ids, Len(ids) - 1)
      BY <1>3, <2>1
    <3> QED
      BY <2>1, <3>1 DEF CompleteTo
  <2>2. CASE label \in {"looking", "creating", "advancing"}
    <3>1. CompleteTo(ids, Len(ids))
      BY <1>3, <2>2
    <3> QED
      BY <1>2, <2>2, <3>1 DEF CompleteTo
  <2> QED
    BY <1>2, <1>4, <2>1, <2>2 DEF Labels
<1>5. ASSUME label \notin {"idle", "dead"}
      PROVE  /\ Chain(ids, s)'
             /\ \A i \in 1..Len(ids) : batches[ids[i]].status = "complete" => batches'[ids[i]] = batches[ids[i]]
  <2>1. Chain(ids, s) /\ CompleteTo(ids, Len(ids) - 1)
    BY <1>3, <1>4, <1>5 DEF CompleteTo
  <2> QED
    BY <1>2, <2>1, ChainStays DEF Frozen, Chain
<1>6. label \in {"looking", "creating"} =>
        CompleteTo(ids, Len(ids))' /\ Len(ids) <= s.maxHops /\ numbers'[q] = Due(ids, s)'
  <2> SUFFICES ASSUME label \in {"looking", "creating"}
               PROVE  CompleteTo(ids, Len(ids))' /\ Due(ids, s)' = Due(ids, s)
    BY <1>2, <1>3
  <2>1. \A i \in 1..Len(ids) : batches[ids[i]].status = "complete" /\ batches'[ids[i]] = batches[ids[i]]
    BY <1>4, <1>5
  <2> QED
    BY <1>2, <2>1, DueStays DEF CompleteTo
<1>7. label \in {"starting", "fetching", "advancing"} =>
        /\ ids # <<>> /\ Len(ids) <= s.maxHops + 1
        /\ \A i \in 1..(IF label = "advancing" THEN Len(ids) ELSE Len(ids) - 1) :
             batches'[ids[i]].status = "complete"
  BY <1>2, <1>3, <1>4, <1>5
<1>8. label = "fetching" =>
        batches'[ids[Len(ids)]].holder = q /\ batches'[ids[Len(ids)]].status = "running"
  <2> SUFFICES ASSUME label = "fetching"
               PROVE  batches'[ids[Len(ids)]] = batches[ids[Len(ids)]]
    BY <1>3
  <2>1. ids[Len(ids)] \in DOMAIN batches /\ batches[ids[Len(ids)]].holder = q
    BY <1>1, <1>3, CurrentIs DEF Current
  <2> QED
    BY <2>1, BatchesStep DEF Changes
<1> QED
  BY ONLY <1>2, <1>3, <1>5, <1>6, <1>7, <1>8, OwnNext


\* A recorded expansion stays what it was, and one that is recorded is over.
LEMMA RunsStep ==
  ASSUME IInv, NEW p \in Process, Act(p), NEW r \in runs'
  PROVE  Recorded(r)'
<1>1. Frozen
  BY BatchesStep DEF Changes
<1>2. ASSUME Recorded(r), r.batches \in Seq(Nat) PROVE Recorded(r)'
  <2>1. PICK ids, s : ids = r.batches /\ s = r.config
    OBVIOUS
  <2>2. /\ ids \in Seq(Nat) /\ Len(ids) \in Nat /\ ids # <<>>
        /\ Chain(ids, s) /\ CompleteTo(ids, Len(ids))
        /\ Len(ids) <= s.maxHops + 1 /\ (Len(ids) <= s.maxHops => NextHop(ids, s) = {})
    BY <1>2, <2>1, LenProperties DEF Recorded
  <2>3. \A i \in 1..Len(ids) : ids[i] \in DOMAIN batches /\ batches[ids[i]].status = "complete"
    BY <2>2 DEF Chain, CompleteTo
  <2>4. \A i \in 1..Len(ids) : batches'[ids[i]] = batches[ids[i]]
    BY <1>1, <2>3 DEF Frozen
  <2>5. CompleteTo(ids, Len(ids) - 1) /\ CompleteTo(ids, Len(ids))'
    BY <2>2, <2>3, <2>4 DEF CompleteTo
  <2>6. Chain(ids, s)' /\ NextHop(ids, s)' = NextHop(ids, s)
    BY <1>1, <2>2, <2>4, <2>5, ChainStays, NextHopStays
  <2> QED
    BY <2>1, <2>2, <2>5, <2>6 DEF Recorded
<1>3. CASE r \in runs
  BY <1>2, <1>3 DEF IInv, TypeOK, Run
<1>4. CASE Record(p) /\ r = [config |-> config[p], batches |-> mine[p]]
  <2>1. r.config = config[p] /\ r.batches = mine[p] /\ pc[p] = "advancing" /\ Over(p)
    BY <1>4 DEF Record
  <2>2. /\ config[p] \in Settings /\ Chain(mine[p], config[p]) /\ mine[p] \in Seq(Nat) /\ mine[p] # <<>>
        /\ Len(mine[p]) <= config[p].maxHops + 1 /\ CompleteTo(mine[p], Len(mine[p]))
    BY <2>1 DEF IInv, TypeOK, Own, Expanding, Running
  <2>3. Len(mine[p]) <= config[p].maxHops => NextHop(mine[p], config[p]) = {}
    <3>1. Len(mine[p]) \in Nat /\ config[p].maxHops \in Nat
      BY <2>2, LenProperties, DiscoveryAssumption
    <3> QED
      BY <2>1, <3>1 DEF Over, Hop
  <2> QED
    BY <1>2, <2>1, <2>2, <2>3 DEF Recorded
<1> QED
  BY <1>3, <1>4, TypeStep

-----------------------------------------------------------------------------
(* The invariant *)

LEMMA InitInvariant == Init => IInv
<1> SUFFICES ASSUME Init PROVE IInv
  OBVIOUS
<1>1. TypeOK
  BY EmptySeq DEF Init, TypeOK, Labels
<1>2. \A b \in DOMAIN batches : BatchOK(b)
  BY DEF Init
<1>3. \A p \in Process : Own(p)
  BY DEF Init, Own, Expanding, Starting, Preparing, Running, Holding
<1> QED
  BY <1>1, <1>2, <1>3 DEF Init, IInv

LEMMA Stuttering ==
  ASSUME IInv, UNCHANGED vars
  PROVE  IInv'
<1>1. batches' = batches /\ runs' = runs /\ UNCHANGED <<pc, config, numbers, mine>>
  BY DEF vars
<1>2. ASSUME NEW ids, NEW s
      PROVE  /\ NextHop(ids, s)' = NextHop(ids, s) /\ Due(ids, s)' = Due(ids, s)
             /\ Chain(ids, s)' <=> Chain(ids, s)
             /\ \A n : CompleteTo(ids, n)' <=> CompleteTo(ids, n)
  <2>1. NextHop(ids, s)' = NextHop(ids, s) /\ Due(ids, s)' = Due(ids, s)
    BY <1>1 DEF Due, NextHop, Frontier, Seen
  <2>2. Chain(ids, s)' <=> Chain(ids, s)
    BY <1>1 DEF Chain, Due, NextHop, Frontier, Seen
  <2> QED
    BY <1>1, <2>1, <2>2 DEF CompleteTo
<1>3. TypeOK' /\ \A b \in DOMAIN batches' : BatchOK(b)'
  BY <1>1 DEF IInv, TypeOK, BatchOK
<1>4. ASSUME NEW q \in Process PROVE Own(q)'
  <2>1. PICK ids, s, label : ids = mine[q] /\ s = config[q] /\ label = pc[q]
    OBVIOUS
  <2>2. ids \in Seq(Nat) /\ label \in Labels
    BY <2>1 DEF IInv, TypeOK
  <2>3. /\ label \in {"idle", "dead"} => ids = <<>>
        /\ label \notin {"idle", "dead"} => s \in Settings /\ Chain(ids, s)
        /\ label \in {"looking", "creating"} =>
             CompleteTo(ids, Len(ids)) /\ Len(ids) <= s.maxHops /\ numbers[q] = Due(ids, s)
        /\ label \in {"starting", "fetching", "advancing"} =>
             /\ ids # <<>> /\ Len(ids) <= s.maxHops + 1
             /\ \A i \in 1..(IF label = "advancing" THEN Len(ids) ELSE Len(ids) - 1) :
                  batches[ids[i]].status = "complete"
        /\ label = "fetching" =>
             batches[ids[Len(ids)]].holder = q /\ batches[ids[Len(ids)]].status = "running"
    BY <2>1 DEF IInv, Own, Expanding, Starting, Preparing, Running, Holding, Current, CompleteTo
  <2>4. /\ Chain(ids, s)' <=> Chain(ids, s)
        /\ Due(ids, s)' = Due(ids, s)
        /\ CompleteTo(ids, Len(ids))' <=> CompleteTo(ids, Len(ids))
    BY <1>2
  <2> QED
    BY <1>1, <2>1, <2>2, <2>3, <2>4, OwnNext
<1>5. ASSUME NEW r \in runs PROVE Recorded(r)'
  BY <1>2, <1>5 DEF IInv, Recorded
<1> QED
  BY <1>1, <1>3, <1>4, <1>5 DEF IInv

LEMMA StepInvariant == IInv /\ [Next]_vars => IInv'
<1> SUFFICES ASSUME IInv, [Next]_vars PROVE IInv'
  OBVIOUS
<1>1. ASSUME NEW p \in Process, Act(p) PROVE IInv'
  <2>1. TypeOK' /\ \A b \in DOMAIN batches' : BatchOK(b)'
    BY <1>1, TypeStep, BatchesStep DEF Changes
  <2>2. \A q \in Process : Own(q)'
    BY <1>1, OwnStep, OthersStep
  <2>3. \A r \in runs' : Recorded(r)'
    BY <1>1, RunsStep
  <2> QED
    BY <2>1, <2>2, <2>3 DEF IInv
<1> QED
  BY <1>1, Stuttering DEF Next, Act

\* However expansions die and overlap, each is a chain of hops of the query set (_run_hop).
THEOREM DiscoveryInvariant == Spec => []IInv
BY InitInvariant, StepInvariant, PTL DEF Spec

\* Every batch, run and expansion has the shape the code's rows and variables have.
THEOREM TypeCorrect == Spec => []TypeOK
<1>1. IInv => TypeOK
  BY DEF IInv
<1> QED
  BY <1>1, DiscoveryInvariant, PTL

-----------------------------------------------------------------------------
(* Recorded expansions *)

\* The batches of a recorded expansion, one by one.
LEMMA RecordedIs ==
  ASSUME IInv, NEW r \in runs
  PROVE  /\ r.batches \in Seq(Nat) /\ Len(r.batches) \in Nat /\ DOMAIN r.batches = 1..Len(r.batches)
         /\ r.config \in Settings
         /\ \A i \in 1..Len(r.batches) :
              LET b == r.batches[i]
              IN /\ b \in DOMAIN batches /\ batches[b].hop = i - 1 /\ batches[b].status = "complete"
                 /\ batches[b].stored \subseteq batches[b].keys
                 /\ batches[b].keys = IF i = 1 THEN Seeds
                                      ELSE NextHop(SubSeq(r.batches, 1, i - 1), r.config)
<1>1. /\ r.batches \in Seq(Nat) /\ r.config \in Settings
      /\ Chain(r.batches, r.config) /\ CompleteTo(r.batches, Len(r.batches))
  BY DEF IInv, TypeOK, Run, Recorded
<1>2. Len(r.batches) \in Nat /\ DOMAIN r.batches = 1..Len(r.batches)
  BY <1>1, LenProperties
<1>3. ASSUME NEW i \in 1..Len(r.batches)
      PROVE  SubSeq(r.batches, 1, i - 1) = <<>> <=> i = 1
  <2>1. i - 1 \in 0..Len(r.batches) /\ (i - 1 = 0 <=> i = 1)
    BY <1>2
  <2> QED
    BY <1>1, <2>1, Prefix
<1>4. ASSUME NEW i \in 1..Len(r.batches)
      PROVE  batches[r.batches[i]].stored \subseteq batches[r.batches[i]].keys
  BY <1>1 DEF IInv, BatchOK, Chain
<1> QED
  BY <1>1, <1>2, <1>3, <1>4 DEF Chain, CompleteTo, Due

\* expand_citations: a recorded run is what an undisturbed one would have made of its
\* batches, however often it was stopped, resumed or run twice at once.
THEOREM RunsReproducible == Spec => []RunsAreReproducible
<1>1. ASSUME IInv, NEW r \in runs
      PROVE  /\ Len(r.batches) <= r.config.maxHops + 1
             /\ Len(r.batches) <= r.config.maxHops => NextHop(r.batches, r.config) = {}
  BY <1>1 DEF IInv, Recorded
<1>2. IInv => RunsAreReproducible
  BY <1>1, RecordedIs DEF RunsAreReproducible
<1> QED
  BY <1>2, DiscoveryInvariant, PTL

\* seen in expand_citations: no publication is asked for in two hops of a recorded run.
THEOREM AskedOnce == Spec => []NothingAskedTwice
<1>1. ASSUME IInv, NEW r \in runs, NEW j \in 1..Len(r.batches), NEW i \in 1..(j - 1)
      PROVE  batches[r.batches[i]].keys \cap batches[r.batches[j]].keys = {}
  <2> DEFINE before == SubSeq(r.batches, 1, j - 1)
  <2>1. /\ r.batches \in Seq(Nat) /\ Len(r.batches) \in Nat /\ j # 1
        /\ batches[r.batches[j]].keys = NextHop(before, r.config)
    BY <1>1, RecordedIs
  <2>2. Len(before) = j - 1 /\ before \in Seq(Nat) /\ before[i] = r.batches[i]
    BY <2>1, Prefix
  <2> HIDE DEF before
  <2>3. i \in DOMAIN before
    BY <2>1, <2>2, LenProperties
  <2>4. batches[r.batches[i]].keys \subseteq Seen(before)
    BY <2>2, <2>3 DEF Seen
  <2> QED
    BY <2>1, <2>4, NextHopIsNew
<1>2. ASSUME IInv, NEW r \in runs, NEW i \in DOMAIN r.batches, NEW j \in DOMAIN r.batches, i # j
      PROVE  batches[r.batches[i]].keys \cap batches[r.batches[j]].keys = {}
  <2>1. DOMAIN r.batches = 1..Len(r.batches) /\ Len(r.batches) \in Nat
    BY <1>2, RecordedIs
  <2>2. CASE i < j
    <3>1. j \in 1..Len(r.batches) /\ i \in 1..(j - 1)
      BY <2>1, <2>2
    <3> QED
      BY <1>1, <1>2, <3>1
  <2>3. CASE j < i
    <3>1. i \in 1..Len(r.batches) /\ j \in 1..(i - 1)
      BY <2>1, <2>3
    <3> QED
      BY <1>1, <1>2, <3>1
  <2> QED
    BY <1>2, <2>1, <2>2, <2>3
<1>3. IInv => NothingAskedTwice
  BY <1>2 DEF NothingAskedTwice
<1> QED
  BY <1>3, DiscoveryInvariant, PTL

\* How many documents of the frontier of batch b link to a publication.
LinkCount(b, s, q) == Cardinality({d \in Frontier(b) : q \in Links(d, s.directions)})

\* _choose: what a recorded hop left out, in scope and not asked for, found the hop full of
\* candidates that come before it.
THEOREM NothingBetterIsLeftOut == Spec => []NothingBetterLeftOut
<1>1. ASSUME IInv, NEW r \in runs, NEW i \in DOMAIN r.batches \ {1},
             NEW q \in Pub, \A j \in 1..(i - 1) : q \notin batches[r.batches[j]].keys,
             q \notin batches[r.batches[i]].keys,
             LinkCount(r.batches[i - 1], r.config, q) > 0, InScope(q)
      PROVE  /\ Cardinality(batches[r.batches[i]].keys) = r.config.cap
             /\ \A c \in batches[r.batches[i]].keys :
                  \/ LinkCount(r.batches[i - 1], r.config, c) > LinkCount(r.batches[i - 1], r.config, q)
                  \/ /\ LinkCount(r.batches[i - 1], r.config, c) = LinkCount(r.batches[i - 1], r.config, q)
                     /\ c < q
  <2>0. PICK links : links = [c \in Pub |-> LinkCount(r.batches[i - 1], r.config, c)]
    OBVIOUS
  <2>1. PICK before : before = SubSeq(r.batches, 1, i - 1)
    OBVIOUS
  <2>2. /\ i \in Nat /\ i > 1 /\ i \in 1..Len(r.batches) /\ i - 1 \in 1..Len(r.batches)
        /\ r.batches \in Seq(Nat) /\ Len(r.batches) \in Nat /\ r.config \in Settings
        /\ batches[r.batches[i]].keys = NextHop(before, r.config)
        /\ \A j \in 1..(i - 1) : batches[r.batches[j]].stored \subseteq batches[r.batches[j]].keys
        /\ batches[r.batches[1]].keys = Seeds /\ 1 \in 1..(i - 1)
    <3>1. DOMAIN r.batches = 1..Len(r.batches) /\ Len(r.batches) \in Nat /\ r.batches \in Seq(Nat)
          /\ r.config \in Settings
      BY <1>1, RecordedIs
    <3>2. /\ i \in Nat /\ i > 1 /\ i \in 1..Len(r.batches) /\ i - 1 \in 1..Len(r.batches)
          /\ 1 \in 1..Len(r.batches) /\ 1 \in 1..(i - 1)
          /\ \A j \in 1..(i - 1) : j \in 1..Len(r.batches)
      BY <1>1, <3>1
    <3>3. \A j \in 1..Len(r.batches) :
            /\ batches[r.batches[j]].stored \subseteq batches[r.batches[j]].keys
            /\ batches[r.batches[j]].keys = IF j = 1 THEN Seeds
                                            ELSE NextHop(SubSeq(r.batches, 1, j - 1), r.config)
      BY <1>1, RecordedIs
    <3>4. batches[r.batches[i]].keys = NextHop(before, r.config) /\ batches[r.batches[1]].keys = Seeds
      BY <2>1, <3>2, <3>3
    <3> QED
      BY <3>1, <3>2, <3>3, <3>4
  <2>3. /\ before \in Seq(Nat) /\ Len(before) = i - 1 /\ DOMAIN before = 1..(i - 1)
        /\ \A j \in 1..(i - 1) : before[j] = r.batches[j]
    <3>1. i - 1 \in 0..Len(r.batches)
      BY <2>2
    <3>2. before \in Seq(Nat) /\ Len(before) = i - 1 /\ \A j \in 1..(i - 1) : before[j] = r.batches[j]
      BY <2>1, <2>2, <3>1, Prefix
    <3> QED
      BY <3>2, LenProperties
  <2>4. q \notin Seen(before)
    <3>1. q \notin Seeds
      BY <1>1, <2>2
    <3>2. \A j \in DOMAIN before : q \notin batches[before[j]].keys /\ q \notin batches[before[j]].stored
      BY <1>1, <2>2, <2>3
    <3> QED
      BY <3>1, <3>2 DEF Seen
  <2>5. before[Len(before)] = r.batches[i - 1]
    BY <2>2, <2>3
  <2>6. links = [c \in Pub |->
          Cardinality(Linking(Frontier(before[Len(before)]), r.config.directions, c))]
    BY <2>0, <2>5 DEF Linking, LinkCount
  <2>7. links \in [Pub -> Nat]
    <3>1. IsFiniteSet(Frontier(before[Len(before)]))
      <4>1. batches[r.batches[i - 1]].stored \subseteq Pub
        <5>1. r.batches[i - 1] \in DOMAIN batches
          BY <1>1, <2>2, RecordedIs
        <5>2. batches \in Seq(Batch) /\ DOMAIN batches = 1..Len(batches)
          BY <1>1, LenProperties DEF IInv, TypeOK
        <5>3. batches[r.batches[i - 1]] \in Batch
          BY <5>1, <5>2, ElementOfSeq
        <5> QED
          BY <5>3 DEF Batch
      <4>2. Frontier(before[Len(before)]) \in SUBSET Pub
        BY <2>5, <4>1 DEF Frontier
      <4> QED
        BY <4>2, FS_Subset, DiscoveryAssumption
    <3>2. ASSUME NEW c \in Pub
          PROVE  Cardinality(Linking(Frontier(before[Len(before)]), r.config.directions, c)) \in Nat
      <4>1. Linking(Frontier(before[Len(before)]), r.config.directions, c)
              \in SUBSET Frontier(before[Len(before)])
        BY DEF Linking
      <4> QED
        BY <3>1, <4>1, FS_Subset, FS_CardinalityType
    <3> QED
      BY <2>6, <3>2
  <2>8. PICK E \in SUBSET Pub : E = {c \in Pub \ Seen(before) : links[c] > 0 /\ InScope(c)}
    OBVIOUS
  <2>9. NextHop(before, r.config) = Choose(E, links, r.config.cap)
    BY <2>6, <2>8 DEF NextHop
  <2>10. q \in E /\ q \notin Choose(E, links, r.config.cap) /\ r.config.cap \in Nat
    <3>1. links[q] > 0
      BY <1>1, <2>0
    <3> QED
      BY <1>1, <2>2, <2>4, <2>8, <2>9, <3>1, DiscoveryAssumption
  <2>11. /\ Cardinality(Choose(E, links, r.config.cap)) = r.config.cap
         /\ \A c \in Choose(E, links, r.config.cap) : c \in E /\ Before(links, c, q)
    BY <2>7, <2>10, ChoiceIsBest
  <2> QED
    <3>1. \A c \in Pub : links[c] = LinkCount(r.batches[i - 1], r.config, c)
      BY <2>0
    <3> QED
      BY <2>2, <2>9, <2>11, <3>1 DEF Before
<1>2. IInv => NothingBetterLeftOut
  <2> SUFFICES ASSUME IInv, NEW r \in runs, NEW i \in DOMAIN r.batches \ {1},
                      NEW q \in Pub \ ((UNION {batches[r.batches[j]].keys : j \in 1..(i - 1)})
                                       \cup batches[r.batches[i]].keys),
                      LinkCount(r.batches[i - 1], r.config, q) > 0, InScope(q)
               PROVE  /\ Cardinality(batches[r.batches[i]].keys) = r.config.cap
                      /\ \A c \in batches[r.batches[i]].keys :
                           \/ LinkCount(r.batches[i - 1], r.config, c) > LinkCount(r.batches[i - 1], r.config, q)
                           \/ /\ LinkCount(r.batches[i - 1], r.config, c) = LinkCount(r.batches[i - 1], r.config, q)
                              /\ c < q
    BY DEF NothingBetterLeftOut, LinkCount
  <2>1. /\ \A j \in 1..(i - 1) : q \notin batches[r.batches[j]].keys
        /\ q \in Pub /\ q \notin batches[r.batches[i]].keys
    OBVIOUS
  <2> QED
    BY <1>1, <2>1
<1> QED
  BY <1>2, DiscoveryInvariant, PTL

\* _run_hop and run_lookup_batch: what an expansion builds on is never changed under it.
THEOREM HistoryIsKept == Spec => HistoryStays
<1> DEFINE Kept == /\ runs \subseteq runs'
                   /\ \A b \in DOMAIN batches :
                        /\ b \in DOMAIN batches'
                        /\ batches'[b].hop = batches[b].hop /\ batches'[b].keys = batches[b].keys
                        /\ batches[b].status = "complete" => batches'[b] = batches[b]
<1>1. IInv /\ [Next]_vars => [Kept]_vars
  <2>1. ASSUME IInv, NEW p \in Process, Act(p) PROVE Kept
    BY <2>1, BatchesStep, TypeStep DEF Changes, Frozen
  <2> QED
    BY <2>1 DEF Next, Act
<1> QED
  BY <1>1, DiscoveryInvariant, PTL DEF Spec, HistoryStays

=============================================================================
