----------------------------- MODULE FactProofs -----------------------------
(***************************************************************************)
(* Proofs about FactStore, for any number of calls, computations,          *)
(* implementations, values and input sets.  The argument: what a call has  *)
(* recorded depends only on where it is, and a call that may insert the    *)
(* fact has recorded computations that are distinct and agree.             *)
(***************************************************************************)
EXTENDS FactStore, FiniteSetTheorems, FunctionTheorems, SequenceTheorems, TLAPS

Labels == {"new", "refused", "recording", "mismatch", "agreed", "accepted", "failed"}

TypeOK ==
  /\ pc \in [Call -> Labels]
  /\ given \in [Call -> Seq(Computation)]
  /\ computations \subseteq [call : Call, of : Computation]
  /\ fact \in Fact \cup {None}
  /\ events \subseteq [type : {"fact_mismatch", "fact_accepted"}, call : Call]

\* The rows of a call are what it was given, once its first transaction has committed.
Rows(c) ==
  /\ pc[c] \in {"new", "refused", "recording"} => Evidence(c) = {}
  /\ pc[c] \in {"agreed", "accepted", "mismatch"} => Evidence(c) = {given[c][i] : i \in DOMAIN given[c]}

\* A call records only what is distinct, and goes on only when that agrees.
Checked(c) ==
  /\ pc[c] \in {"recording", "agreed", "accepted"} => Distinct(given[c])
  /\ pc[c] \in {"agreed", "accepted"} => ~Problem(given[c])

\* The events of a call tell where it ended.
Events(c) ==
  /\ [type |-> "fact_mismatch", call |-> c] \in events => pc[c] = "mismatch"
  /\ [type |-> "fact_accepted", call |-> c] \in events <=> pc[c] = "accepted"
  /\ pc[c] = "accepted" <=> fact # None /\ fact.call = c

\* The fact is what its call was given.
FactOf(c) ==
  pc[c] = "accepted" =>
    fact = [call |-> c, value |-> given[c][1].value, input |-> given[c][1].input,
            implementations |-> Names(given[c])]

IInv == TypeOK /\ \A c \in Call : Rows(c) /\ Checked(c) /\ Events(c) /\ FactOf(c)

\* An accepted fact is never replaced or removed.
FactStays == [][fact # None => fact' = fact]_vars

\* Nor is a recorded computation.
ComputationsStay == [][computations \subseteq computations']_vars

-----------------------------------------------------------------------------
(* Sequences of computations *)

LEMMA BoundedIsSeq ==
  ASSUME NEW s \in BoundedSeq(Computation, MaxComputations)
  PROVE  s \in Seq(Computation)
<1>1. PICK m \in 0..MaxComputations : s \in [1..m -> Computation]
  BY DEF BoundedSeq, SeqOf
<1> QED
  BY <1>1, FactAssumption

\* The values that one attribute takes in a sequence are finitely many.
LEMMA FiniteImages ==
  ASSUME NEW s \in Seq(Computation)
  PROVE  IsFiniteSet(Names(s)) /\ IsFiniteSet(Values(s)) /\ IsFiniteSet(InputSets(s))
<1>1. Len(s) \in Nat /\ DOMAIN s = 1..Len(s) /\ IsFiniteSet(1..Len(s))
  BY FS_Interval
<1>2. ASSUME NEW T, NEW f, f \in [1..Len(s) -> T], \A t \in T : \E i \in 1..Len(s) : f[i] = t
      PROVE  IsFiniteSet(T)
  BY <1>1, <1>2, FS_Surjection, f \in Surjection(1..Len(s), T) DEF Surjection
<1>3. IsFiniteSet(Names(s))
  <2> DEFINE f == [i \in 1..Len(s) |-> s[i].implementation]
  <2>1. f \in [1..Len(s) -> Names(s)] /\ \A t \in Names(s) : \E i \in 1..Len(s) : f[i] = t
    BY <1>1 DEF Names
  <2> QED
    BY <1>2, <2>1
<1>4. IsFiniteSet(Values(s))
  <2> DEFINE f == [i \in 1..Len(s) |-> s[i].value]
  <2>1. f \in [1..Len(s) -> Values(s)] /\ \A t \in Values(s) : \E i \in 1..Len(s) : f[i] = t
    BY <1>1 DEF Values
  <2> QED
    BY <1>2, <2>1
<1>5. IsFiniteSet(InputSets(s))
  <2> DEFINE f == [i \in 1..Len(s) |-> s[i].input]
  <2>1. f \in [1..Len(s) -> InputSets(s)] /\ \A t \in InputSets(s) : \E i \in 1..Len(s) : f[i] = t
    BY <1>1 DEF InputSets
  <2> QED
    BY <1>2, <2>1
<1> QED
  BY <1>3, <1>4, <1>5

\* Distinct computations are at least two, and without a problem all of one value and input.
LEMMA AgreedComputations ==
  ASSUME NEW s \in Seq(Computation), Distinct(s), ~Problem(s)
  PROVE  /\ 1 \in DOMAIN s
         /\ \A i \in DOMAIN s : s[i].value = s[1].value /\ s[i].input = s[1].input
<1>1. Len(s) \in Nat /\ DOMAIN s = 1..Len(s) /\ 1 \in DOMAIN s
  BY DEF Distinct, MIN_IMPLEMENTATIONS
<1>2. (\E x : Values(s) = {x}) /\ (\E x : InputSets(s) = {x})
  BY FiniteImages, FS_Singleton DEF Problem
<1> QED
  BY <1>1, <1>2 DEF Values, InputSets

-----------------------------------------------------------------------------
(* The inductive invariant *)

LEMMA InitInvariant == Init => IInv
BY FactAssumption
   DEF Init, IInv, TypeOK, Labels, Rows, Evidence, Checked, Events, FactOf, Computation, Fact

LEMMA AcceptedIsFact ==
  ASSUME IInv, NEW c \in Call, Accept(c)
  PROVE  fact' \in Fact
<1>1. 1 \in DOMAIN given[c] /\ \A i \in DOMAIN given[c] : given[c][i] \in Computation
  BY AgreedComputations, ElementOfSeq DEF Accept, IInv, TypeOK, Checked
<1>2. given[c][1].value \in Value /\ given[c][1].input \in Inputs /\ Names(given[c]) \subseteq Impl
  BY <1>1 DEF Computation, Names
<1> QED
  BY <1>2 DEF Accept, Fact

LEMMA TypeStep == IInv /\ [Next]_vars => TypeOK'
<1> SUFFICES ASSUME IInv, [Next]_vars PROVE TypeOK'
  OBVIOUS
<1> USE DEF IInv, TypeOK, Labels, Goto
<1>1. ASSUME NEW c \in Call, NEW s \in BoundedSeq(Computation, MaxComputations), Begin(c, s)
      PROVE  TypeOK'
  BY <1>1, BoundedIsSeq DEF Begin
<1>2. ASSUME NEW c \in Call, Record(c) PROVE TypeOK'
  <2>1. \A i \in DOMAIN given[c] : given[c][i] \in Computation
    BY ElementOfSeq
  <2> QED
    BY <1>2, <2>1 DEF Record
<1>3. ASSUME NEW c \in Call, Accept(c) PROVE TypeOK'
  <2>1. fact' \in Fact
    BY <1>3, AcceptedIsFact
  <2> QED
    BY <1>3, <2>1 DEF Accept
<1>4. ASSUME NEW c \in Call, AlreadyAccepted(c) \/ Fail(c) PROVE TypeOK'
  BY <1>4 DEF AlreadyAccepted, Fail
<1>5. CASE UNCHANGED vars
  BY <1>5 DEF vars
<1> QED
  BY <1>1, <1>2, <1>3, <1>4, <1>5 DEF Next

Own(c) == Rows(c) /\ Checked(c) /\ Events(c) /\ FactOf(c)

\* No step, of whichever call, breaks what is known of a call d.
LEMMA OwnStep ==
  ASSUME IInv, [Next]_vars, NEW d \in Call
  PROVE  Own(d)'
<1>0. TypeOK /\ Own(d) /\ TypeOK'
  BY TypeStep DEF IInv, Own
<1> USE DEF Own
<1>1. ASSUME NEW c \in Call, NEW s \in BoundedSeq(Computation, MaxComputations), Begin(c, s)
      PROVE  Own(d)'
  <2>1. /\ pc[c] = "new" /\ UNCHANGED <<computations, fact, events>>
        /\ pc' = [pc EXCEPT ![c] = IF Distinct(s) THEN "recording" ELSE "refused"]
        /\ given' = [given EXCEPT ![c] = s]
    BY <1>1 DEF Begin, Goto
  <2>2. CASE d = c
    <3>1. pc'[d] \in {"recording", "refused"} /\ given'[d] = s /\ (pc'[d] = "recording" => Distinct(s))
      BY <1>0, <2>1, <2>2 DEF TypeOK
    <3> QED
      BY <1>0, <2>1, <2>2, <3>1 DEF Rows, Evidence, Checked, Events, FactOf
  <2>3. CASE d # c
    <3>1. pc'[d] = pc[d] /\ given'[d] = given[d]
      BY <1>0, <2>1, <2>3 DEF TypeOK
    <3> QED
      BY <1>0, <2>1, <3>1 DEF Rows, Evidence, Checked, Events, FactOf
  <2> QED
    BY <2>2, <2>3
<1>2. ASSUME NEW c \in Call, Record(c) PROVE Own(d)'
  <2>1. /\ pc[c] = "recording" /\ UNCHANGED <<given, fact>>
        /\ pc' = [pc EXCEPT ![c] = IF Problem(given[c]) THEN "mismatch" ELSE "agreed"]
        /\ computations' = computations \cup {[call |-> c, of |-> given[c][i]] : i \in DOMAIN given[c]}
        /\ events' = IF Problem(given[c]) THEN events \cup {[type |-> "fact_mismatch", call |-> c]}
                     ELSE events
    BY <1>2 DEF Record, Goto
  <2>2. CASE d = c
    <3>1. /\ pc'[d] \in {"mismatch", "agreed"} /\ pc[d] = "recording"
          /\ pc'[d] = "mismatch" <=> Problem(given[d])
      BY <1>0, <2>1, <2>2 DEF TypeOK
    <3>2. Evidence(d) = {} /\ Distinct(given[d])
      BY <1>0, <3>1 DEF Rows, Checked
    <3>3. Evidence(d)' = {given[d][i] : i \in DOMAIN given[d]}
      <4>1. \A row \in computations : row.call # d
        BY <3>2 DEF Evidence
      <4>2. \A i \in DOMAIN given[d] : [call |-> d, of |-> given[d][i]] \in computations'
        BY <2>1, <2>2
      <4>3. \A row \in computations' : row.call = d =>
              \E i \in DOMAIN given[d] : row = [call |-> d, of |-> given[d][i]]
        BY <2>1, <2>2, <4>1
      <4>4. ASSUME NEW i \in DOMAIN given[d] PROVE given[d][i] \in Evidence(d)'
        <5> DEFINE row == [call |-> d, of |-> given[d][i]]
        <5>1. row \in computations' /\ row.call = d /\ row.of = given[d][i]
          BY <4>2
        <5> HIDE DEF row
        <5> QED
          BY <5>1 DEF Evidence
      <4>5. ASSUME NEW x \in Evidence(d)' PROVE \E i \in DOMAIN given[d] : x = given[d][i]
        <5>1. PICK row \in computations' : row.call = d /\ x = row.of
          BY DEF Evidence
        <5> QED
          BY <4>3, <5>1
      <4> QED
        BY <4>4, <4>5
    <3>4. Events(d)'
      BY <1>0, <2>1, <2>2, <3>1 DEF Events
    <3> QED
      BY <2>1, <3>1, <3>2, <3>3, <3>4 DEF Rows, Checked, FactOf
  <2>3. CASE d # c
    <3>1. pc'[d] = pc[d] /\ Evidence(d)' = Evidence(d)
      BY <1>0, <2>1, <2>3 DEF TypeOK, Evidence
    <3>2. \A t : [type |-> t, call |-> d] \in events' <=> [type |-> t, call |-> d] \in events
      BY <2>1, <2>3
    <3> QED
      BY <1>0, <2>1, <3>1, <3>2 DEF Rows, Checked, Events, FactOf
  <2> QED
    BY <2>2, <2>3
<1>3. ASSUME NEW c \in Call, Accept(c) PROVE Own(d)'
  <2>1. /\ pc[c] = "agreed" /\ fact = None /\ UNCHANGED <<given, computations>>
        /\ pc' = [pc EXCEPT ![c] = "accepted"]
        /\ fact' = [call |-> c, value |-> given[c][1].value, input |-> given[c][1].input,
                    implementations |-> Names(given[c])]
        /\ events' = events \cup {[type |-> "fact_accepted", call |-> c]}
    BY <1>3 DEF Accept, Goto
  <2>2. fact' # None /\ fact'.call = c
    BY <1>3, <2>1, AcceptedIsFact, FactAssumption
  <2>3. CASE d = c
    <3>1. pc'[d] = "accepted" /\ pc[d] = "agreed"
      BY <1>0, <2>1, <2>3 DEF TypeOK
    <3>2. Events(d)'
      BY <1>0, <2>1, <2>2, <2>3, <3>1 DEF Events
    <3> QED
      BY <1>0, <2>1, <2>3, <3>1, <3>2 DEF Rows, Evidence, Checked, FactOf
  <2>4. CASE d # c
    <3>1. pc'[d] = pc[d]
      BY <1>0, <2>1, <2>4 DEF TypeOK
    <3>2. \A t : [type |-> t, call |-> d] \in events' <=> [type |-> t, call |-> d] \in events
      BY <2>1, <2>4
    <3>3. pc[d] # "accepted"
      BY <1>0, <2>1 DEF Events
    <3> QED
      BY <1>0, <2>1, <2>2, <2>4, <3>1, <3>2, <3>3 DEF Rows, Evidence, Checked, Events, FactOf
  <2> QED
    BY <2>3, <2>4
<1>4. ASSUME NEW c \in Call, AlreadyAccepted(c) \/ Fail(c) PROVE Own(d)'
  <2>1. /\ pc[c] \in {"recording", "agreed"} /\ UNCHANGED <<given, computations, fact, events>>
        /\ pc' = [pc EXCEPT ![c] = "failed"]
    BY <1>4 DEF AlreadyAccepted, Fail, Goto
  <2>2. pc'[d] = pc[d] \/ (pc[d] \in {"recording", "agreed"} /\ pc'[d] = "failed")
    BY <1>0, <2>1 DEF TypeOK
  <2> QED
    BY <1>0, <2>1, <2>2 DEF Rows, Evidence, Checked, Events, FactOf
<1>5. CASE UNCHANGED vars
  BY <1>0, <1>5 DEF vars, Rows, Evidence, Checked, Events, FactOf
<1> QED
  BY <1>1, <1>2, <1>3, <1>4, <1>5 DEF Next

LEMMA StepInvariant == IInv /\ [Next]_vars => IInv'
BY TypeStep, OwnStep DEF IInv, Own

\* The inductive invariant holds in every reachable state.
THEOREM FactInvariant == Spec => []IInv
BY InitInvariant, StepInvariant, PTL DEF Spec

-----------------------------------------------------------------------------
(* What follows *)

\* Every variable of the calls and the tables stays within its domain.
THEOREM TypeCorrect == Spec => []TypeOK
<1>1. IInv => TypeOK
  BY DEF IInv
<1> QED
  BY <1>1, FactInvariant, PTL

\* A fact is backed by recorded computations of at least two implementations, all of its
\* value and of its input set, whatever failed or ran beside it (accept_fact).
THEOREM FactsAreBacked == Spec => []FactHasEvidence
<1>1. IInv => FactHasEvidence
  <2> SUFFICES ASSUME IInv, fact # None PROVE FactHasEvidence
    BY DEF FactHasEvidence
  <2> DEFINE c == fact.call
             s == given[c]
  <2>1. c \in Call /\ fact \in Fact
    BY DEF IInv, TypeOK, Fact
  <2>2. pc[c] = "accepted" /\ Rows(c) /\ Checked(c) /\ FactOf(c)
    BY <2>1 DEF IInv, Events
  <2>3. /\ s \in Seq(Computation) /\ Distinct(s) /\ ~Problem(s)
        /\ Evidence(c) = {s[i] : i \in DOMAIN s}
        /\ fact.value = s[1].value /\ fact.input = s[1].input /\ fact.implementations = Names(s)
    BY <2>1, <2>2 DEF IInv, TypeOK, Rows, Checked, FactOf
  <2>4. \A i \in DOMAIN s : s[i].value = s[1].value /\ s[i].input = s[1].input
    BY <2>3, AgreedComputations
  <2>5. {m.implementation : m \in Evidence(c)} = fact.implementations
    BY <2>3 DEF Names
  <2>6. Cardinality(fact.implementations) >= MIN_IMPLEMENTATIONS
    BY <2>3 DEF Distinct
  <2>7. \A m \in Evidence(c) : m.value = fact.value /\ m.input = fact.input
    BY <2>3, <2>4
  <2> QED
    BY <2>5, <2>6, <2>7 DEF FactHasEvidence
<1> QED
  BY <1>1, FactInvariant, PTL

\* The log accepts the fact of the table, once, and no call has two events: none is both
\* accepted and reported as a mismatch (the event in each transaction of accept_fact).
THEOREM AuditIsTrue == Spec => []AuditMatchesFact
<1>1. IInv => AuditMatchesFact
  <2> SUFFICES ASSUME IInv PROVE AuditMatchesFact
    OBVIOUS
  <2>1. \A e \in events : /\ e.call \in Call /\ e = [type |-> e.type, call |-> e.call]
                          /\ e.type \in {"fact_mismatch", "fact_accepted"}
    BY DEF IInv, TypeOK
  <2>2. \A c \in Call : [type |-> "fact_accepted", call |-> c] \in events
                          <=> fact # None /\ fact.call = c
    BY DEF IInv, Events
  <2>3. fact # None => fact.call \in Call
    BY DEF IInv, TypeOK, Fact
  <2>4. {e.call : e \in {f \in events : f.type = "fact_accepted"}}
          = IF fact = None THEN {} ELSE {fact.call}
    <3>1. \A c : c \in {e.call : e \in {f \in events : f.type = "fact_accepted"}}
                   <=> c \in Call /\ [type |-> "fact_accepted", call |-> c] \in events
      BY <2>1
    <3> QED
      BY <2>2, <2>3, <3>1
  <2>5. \A d, e \in events : d.call = e.call => d = e
    <3> SUFFICES ASSUME NEW d \in events, NEW e \in events, d.call = e.call PROVE d.type = e.type
      BY <2>1
    <3> QED
      BY <2>1 DEF IInv, Events
  <2> QED
    BY <2>4, <2>5 DEF AuditMatchesFact
<1> QED
  BY <1>1, FactInvariant, PTL

\* No step changes an accepted fact (the unique constraint and the second transaction).
THEOREM FactIsFinal == Spec => FactStays
<1>1. [Next]_vars => [fact # None => fact' = fact]_vars
  BY DEF Next, Begin, Record, Accept, AlreadyAccepted, Fail, vars
<1> QED
  BY <1>1, PTL DEF Spec, FactStays

\* No step removes a computation (fact_computation is append-only).
THEOREM EvidenceIsKept == Spec => ComputationsStay
<1>1. [Next]_vars => [computations \subseteq computations']_vars
  BY DEF Next, Begin, Record, Accept, AlreadyAccepted, Fail, vars
<1> QED
  BY <1>1, PTL DEF Spec, ComputationsStay

=============================================================================
