------------------------------ MODULE FactStore ------------------------------
(***************************************************************************)
(* Accepting one fact by dual computation                                  *)
(* (src/patsquire_plr/db/facts.py).                                        *)
(*                                                                         *)
(* accept_fact records the computations it is given, and the mismatch if   *)
(* there is one, in a first transaction; a second one inserts the fact with*)
(* its audit event.  Calls for the same fact (run, metric, dimensions) may *)
(* overlap, repeat, fail at either transaction or die between them.  An    *)
(* event is committed with the rows of its transaction (module AuditChain).*)
(***************************************************************************)
EXTENDS Naturals, Sequences, FiniteSets, SequencesExt

CONSTANTS
  Call,   \* calls of accept_fact for this fact, each made once
  Impl,   \* implementations
  Value,  \* canonical values
  Inputs, \* fingerprints of input sets
  None,
  MaxComputations \* bound: computations given to one call

\* The row of a fact: the call that made it, its value, input and implementations.
Fact == [call : Call, value : Value, input : Inputs, implementations : SUBSET Impl]

ASSUME FactAssumption == MaxComputations \in Nat /\ None \notin Fact

MIN_IMPLEMENTATIONS == 2

Computation == [implementation : Impl, value : Value, input : Inputs]

VARIABLES
  pc,           \* where each call is
  given,        \* the computations passed to each call
  computations, \* fact_computation rows, with the call that made them
  fact,         \* the fact row, with the call that made it
  events        \* audit events of the two transactions

vars == <<pc, given, computations, fact, events>>

Init ==
  /\ pc = [c \in Call |-> "new"]
  /\ given = [c \in Call |-> <<>>]
  /\ computations = {}
  /\ fact = None
  /\ events = {}

-----------------------------------------------------------------------------
Goto(c, label) == pc' = [pc EXCEPT ![c] = label]

Names(s) == {s[i].implementation : i \in DOMAIN s}
Values(s) == {s[i].value : i \in DOMAIN s}
InputSets(s) == {s[i].input : i \in DOMAIN s}

\* Mutation: two computations of one implementation will do.
Distinct_CountOnly(s) == Len(s) >= MIN_IMPLEMENTATIONS

\* At least two computations, all of different implementations.
Distinct(s) ==
  Cardinality(Names(s)) >= MIN_IMPLEMENTATIONS /\ Cardinality(Names(s)) = Len(s)

\* The implementations used different inputs, or disagree.
Problem(s) == Cardinality(InputSets(s)) # 1 \/ Cardinality(Values(s)) # 1

Begin(c, s) ==
  /\ pc[c] = "new"
  /\ given' = [given EXCEPT ![c] = s]
  /\ Goto(c, IF Distinct(s) THEN "recording" ELSE "refused")
  /\ UNCHANGED <<computations, fact, events>>

\* The first transaction.
Record(c) ==
  /\ pc[c] = "recording"
  /\ computations' = computations \cup {[call |-> c, of |-> given[c][i]] : i \in DOMAIN given[c]}
  /\ events' = IF Problem(given[c]) THEN events \cup {[type |-> "fact_mismatch", call |-> c]}
               ELSE events
  /\ Goto(c, IF Problem(given[c]) THEN "mismatch" ELSE "agreed")
  /\ UNCHANGED <<given, fact>>

\* Mutation: the fact is replaced.
Accept_Replace(c) ==
  /\ pc[c] = "agreed"
  /\ fact' = [call |-> c, value |-> given[c][1].value, input |-> given[c][1].input,
              implementations |-> Names(given[c])]
  /\ events' = events \cup {[type |-> "fact_accepted", call |-> c]}
  /\ Goto(c, "accepted")
  /\ UNCHANGED <<given, computations>>

\* The second transaction; the fact is unique per run, metric and dimensions.
Accept(c) ==
  /\ pc[c] = "agreed" /\ fact = None
  /\ fact' = [call |-> c, value |-> given[c][1].value, input |-> given[c][1].input,
              implementations |-> Names(given[c])]
  /\ events' = events \cup {[type |-> "fact_accepted", call |-> c]}
  /\ Goto(c, "accepted")
  /\ UNCHANGED <<given, computations>>

AlreadyAccepted(c) ==
  /\ pc[c] = "agreed" /\ fact # None
  /\ Goto(c, "failed")
  /\ UNCHANGED <<given, computations, fact, events>>

\* A transaction fails, or the process dies before it (external).
Fail(c) ==
  /\ pc[c] \in {"recording", "agreed"}
  /\ Goto(c, "failed")
  /\ UNCHANGED <<given, computations, fact, events>>

Next == \E c \in Call :
  \/ \E s \in BoundedSeq(Computation, MaxComputations) : Begin(c, s)
  \/ Record(c) \/ Accept(c) \/ AlreadyAccepted(c) \/ Fail(c)

Spec == Init /\ [][Next]_vars

-----------------------------------------------------------------------------
(* Properties *)

Evidence(c) == {row.of : row \in {r \in computations : r.call = c}}

\* "A fact is accepted only when at least two differently-named implementations produced
\* the exactly equal value from the same input set" (facts.py:3-4), and the rows that show
\* it are in the database, whatever happened between the two transactions.
FactHasEvidence ==
  fact # None =>
    /\ {m.implementation : m \in Evidence(fact.call)} = fact.implementations
    /\ Cardinality(fact.implementations) >= MIN_IMPLEMENTATIONS
    /\ \A m \in Evidence(fact.call) : m.value = fact.value /\ m.input = fact.input

\* The audit log accepts exactly the fact that is in the table, once, and never one whose
\* mismatch it reports.
AuditMatchesFact ==
  /\ {e.call : e \in {f \in events : f.type = "fact_accepted"}}
       = IF fact = None THEN {} ELSE {fact.call}
  /\ \A d, e \in events : d.call = e.call => d = e

=============================================================================
