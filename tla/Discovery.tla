------------------------------ MODULE Discovery ------------------------------
(***************************************************************************)
(* Citation expansion from a landscape's seeds                             *)
(* (src/patsquire_plr/landscape/discovery.py, expand_citations).           *)
(*                                                                         *)
(* Hop 0 asks for the seeds, hop n for the publications that the documents *)
(* of hop n-1 are linked to by citations.  Each hop is one lookup batch,   *)
(* found again by its key, so that an expansion that died, or met a batch  *)
(* it could not finish, is run again and goes on from what is stored.      *)
(* Expansions are processes; between any two of their transactions another *)
(* may run, and each may die.  A batch is what BatchContract promises of   *)
(* it: it settles its keys, each stored or not, and is complete when all   *)
(* are settled.  Publications are numbers, in the order of their spelling. *)
(***************************************************************************)
EXTENDS Naturals, FiniteSets, Sequences

CONSTANTS
  Process,     \* runs of `plr discover citations` for one query set
  Pub,         \* publications, by (office, number)
  Seeds,       \* scope.seeds
  Office,      \* office of a publication
  Countries,   \* scope.countries, empty for all
  Backward,    \* publications a document cites
  Forward,     \* publications that cite it
  Verdict,     \* what the approved search says of a document
  Settings,    \* values of settings.landscape.citation_expansion
  Nobody,
  MaxBatches,  \* bounds: batches,
  MaxRuns      \* and discovery runs recorded

ASSUME DiscoveryAssumption ==
  /\ Pub \subseteq Nat /\ IsFiniteSet(Pub) /\ Seeds \subseteq Pub /\ Seeds # {}
  /\ Backward \in [Pub -> SUBSET Pub] /\ Forward \in [Pub -> SUBSET Pub]
  /\ Verdict \in [Pub -> {"match", "no", "undecidable"}]
  /\ \A s \in Settings : /\ s.maxHops \in Nat \ {0} /\ s.cap \in Nat \ {0}
                         /\ s.directions \subseteq {"backward", "forward"}
  /\ Nobody \notin Process
  /\ MaxBatches \in Nat /\ MaxRuns \in Nat

VARIABLES
  batches,  \* ingest_batch rows of the hops of this query set, with their outcomes
  runs,     \* discovery_run rows
  pc,       \* where each process is
  config,   \* its settings
  numbers,  \* publications its hop asks for
  mine      \* its batch_ids, one per hop

vars == <<batches, runs, pc, config, numbers, mine>>
tables == <<batches, runs>>

Init ==
  /\ batches = <<>> /\ runs = {}
  /\ pc = [p \in Process |-> "idle"]
  /\ config = [p \in Process |-> Nobody]
  /\ numbers = [p \in Process |-> {}]
  /\ mine = [p \in Process |-> <<>>]

-----------------------------------------------------------------------------
(* What a hop asks for *)

\* _frontier: every document of hop 0's batch, later only those the search matches.
Frontier(b) == IF batches[b].hop = 0 THEN batches[b].stored
               ELSE {d \in batches[b].stored : Verdict[d] = "match"}

Links(d, directions) == (IF "backward" \in directions THEN Backward[d] ELSE {})
                        \cup (IF "forward" \in directions THEN Forward[d] ELSE {})

\* The documents of a frontier that link to publication q (_links).
Linking(frontier, directions, q) == {d \in frontier : q \in Links(d, directions)}

\* Mutation: what was asked for in vain may be asked for again.
Seen_RetrievedOnly(ids) == Seeds \cup (UNION {batches[ids[i]].stored : i \in DOMAIN ids})

\* seen: the seeds, what was asked for, and what was retrieved.
Seen(ids) == Seeds \cup (UNION {batches[ids[i]].keys : i \in DOMAIN ids})
                   \cup (UNION {batches[ids[i]].stored : i \in DOMAIN ids})

InScope(q) == Countries = {} \/ Office[q] \in Countries

\* _choose: the candidates in the order of (-count, number), cut at the cap.
Before(count, r, q) == count[r] > count[q] \/ (count[r] = count[q] /\ r < q)

\* Mutation: the links are not counted.
Choose_ByNumber(eligible, count, cap) ==
  {q \in eligible : Cardinality({r \in eligible : r < q}) < cap}

Choose(eligible, count, cap) ==
  {q \in eligible : Cardinality({r \in eligible : Before(count, r, q)}) < cap}

\* What the hop after the batches "ids" asks for.
NextHop(ids, s) ==
  LET frontier == Frontier(ids[Len(ids)])
      count    == [q \in Pub |-> Cardinality(Linking(frontier, s.directions, q))]
      eligible == {q \in Pub \ Seen(ids) : count[q] > 0 /\ InScope(q)}
  IN Choose(eligible, count, s.cap)

-----------------------------------------------------------------------------
(* Expansions *)

Goto(p, label) == pc' = [pc EXCEPT ![p] = label]

\* The process ends, with an error or not, and what it held in memory is gone.
Drop(p) ==
  /\ config' = [config EXCEPT ![p] = Nobody]
  /\ numbers' = [numbers EXCEPT ![p] = {}]
  /\ mine' = [mine EXCEPT ![p] = <<>>]
Quit(p) == Goto(p, "idle") /\ Drop(p)

Begin(p, s) ==
  /\ pc[p] \in {"idle", "dead"} /\ Cardinality(runs) < MaxRuns
  /\ config' = [config EXCEPT ![p] = s]
  /\ numbers' = [numbers EXCEPT ![p] = Seeds]
  /\ Goto(p, "looking")
  /\ UNCHANGED <<tables, mine>>

\* _run_hop's query for batches with the key of the hop that p has come to.
Hop(p) == Len(mine[p])
Existing(p) == {b \in DOMAIN batches : batches[b].hop = Hop(p)}

SameRequest(b, p) == batches[b].keys = numbers[p]

Refuse(p) ==
  /\ pc[p] = "looking"
  /\ \/ Cardinality(Existing(p)) > 1
     \/ \E b \in Existing(p) : ~SameRequest(b, p)
  /\ Quit(p)
  /\ UNCHANGED tables

Look(p) ==
  /\ pc[p] = "looking"
  /\ Existing(p) = {}
  /\ Goto(p, "creating")
  /\ UNCHANGED <<tables, config, numbers, mine>>

\* Mutation: a batch that some keys of failed will do.
Continue_AnyStatus(p) ==
  /\ pc[p] = "looking"
  /\ \E b \in Existing(p) :
       /\ Existing(p) = {b} /\ SameRequest(b, p)
       /\ mine' = [mine EXCEPT ![p] = Append(@, b)]
       /\ Goto(p, IF batches[b].status # "running" THEN "advancing" ELSE "starting")
  /\ UNCHANGED <<tables, config, numbers>>

\* The hop's batch: what is already complete is read, the rest is run.
Continue(p) ==
  /\ pc[p] = "looking"
  /\ \E b \in Existing(p) :
       /\ Existing(p) = {b} /\ SameRequest(b, p)
       /\ mine' = [mine EXCEPT ![p] = Append(@, b)]
       /\ Goto(p, IF batches[b].status = "complete" THEN "advancing" ELSE "starting")
  /\ UNCHANGED <<tables, config, numbers>>

\* start_lookup_batch, a transaction of its own.
Create(p) ==
  /\ pc[p] = "creating" /\ Len(batches) < MaxBatches
  /\ batches' = Append(batches, [hop |-> Hop(p), keys |-> numbers[p],
                                 settled |-> {}, stored |-> {}, status |-> "running",
                                 holder |-> Nobody])
  /\ mine' = [mine EXCEPT ![p] = Append(@, Len(batches) + 1)]
  /\ Goto(p, "starting")
  /\ UNCHANGED <<runs, config, numbers>>

Current(p) == mine[p][Len(mine[p])]

\* Mutation: a batch that failed is not taken up again.
Runnable_NotFailed(b) == batches[b].holder = Nobody /\ batches[b].status = "running"

\* run_lookup_batch takes the batch's lock and prepares it.
Runnable(b) == /\ batches[b].holder = Nobody
               /\ batches[b].status # "complete"

Start(p) ==
  /\ pc[p] = "starting" /\ Runnable(Current(p))
  /\ batches' = [batches EXCEPT ![Current(p)].holder = p, ![Current(p)].status = "running"]
  /\ Goto(p, "fetching")
  /\ UNCHANGED <<runs, config, numbers, mine>>

\* Busy, or completed since it was looked at.
RefuseStart(p) ==
  /\ pc[p] = "starting" /\ ~Runnable(Current(p))
  /\ Quit(p)
  /\ UNCHANGED tables

\* The keys in "done" get a final outcome, those in "found" a document.
Settle(b, done, found, status) ==
  batches' = [batches EXCEPT ![b].settled = @ \cup done, ![b].stored = @ \cup found,
                             ![b].status = status, ![b].holder = Nobody]

Open(b) == batches[b].keys \ batches[b].settled

\* Every key settled: the hop goes on.
Complete(p) ==
  /\ pc[p] = "fetching"
  /\ \E found \in SUBSET Open(Current(p)) :
       Settle(Current(p), Open(Current(p)), found, "complete")
  /\ Goto(p, "advancing")
  /\ UNCHANGED <<runs, config, numbers, mine>>

\* Some key failed, or the run was aborted: DiscoveryError, "run the expansion again".
Incomplete(p) ==
  /\ pc[p] = "fetching"
  /\ \E done \in SUBSET Open(Current(p)) : \E found \in SUBSET done :
       /\ done # Open(Current(p))
       /\ Settle(Current(p), done, found, "failed")
  /\ Quit(p)
  /\ UNCHANGED runs

\* The expansion is over: at the hop limit, or when nothing is left to ask for.
Over(p) == Hop(p) > config[p].maxHops \/ NextHop(mine[p], config[p]) = {}

\* The next hop is prepared from what the last one stored.
Advance(p) ==
  /\ pc[p] = "advancing" /\ ~Over(p)
  /\ numbers' = [numbers EXCEPT ![p] = NextHop(mine[p], config[p])]
  /\ Goto(p, "looking")
  /\ UNCHANGED <<tables, config, mine>>

\* The discovery_run row and its audit event, in one transaction.
Record(p) ==
  /\ pc[p] = "advancing" /\ Over(p) /\ Cardinality(runs) < MaxRuns
  /\ runs' = runs \cup {[config |-> config[p], batches |-> mine[p]]}
  /\ Quit(p)
  /\ UNCHANGED batches

\* The process dies; PostgreSQL frees its lock, and the keys it had recorded stay.
Crash(p) ==
  /\ pc[p] \notin {"idle", "dead"}
  /\ IF pc[p] = "fetching"
     THEN \E done \in SUBSET Open(Current(p)) : \E found \in SUBSET done :
            Settle(Current(p), done, found, "running")
     ELSE UNCHANGED batches
  /\ Goto(p, "dead") /\ Drop(p)
  /\ UNCHANGED runs

Step(p) == \/ Refuse(p) \/ Look(p) \/ Continue(p) \/ Create(p)
           \/ Start(p) \/ RefuseStart(p) \/ Complete(p) \/ Incomplete(p)
           \/ Advance(p) \/ Record(p)

Next == \E p \in Process : \/ \E s \in Settings : Begin(p, s)
                           \/ Step(p)
                           \/ Crash(p)

\* Whoever wants the landscape runs the expansion again, with each of the settings they
\* might want, until it is recorded; and a batch that is run again and again completes.
Fairness == \A p \in Process : /\ WF_vars(Step(p))
                               /\ SF_vars(Complete(p))
                               /\ \A s \in Settings : SF_vars(Begin(p, s))

Spec == Init /\ [][Next]_vars
LiveSpec == Spec /\ Fairness

-----------------------------------------------------------------------------
(* Properties *)

\* The hop batches of a query set fork when one hop has two of them.
Forked == \E a, b \in DOMAIN batches : a # b /\ batches[a].hop = batches[b].hop

\* A recorded expansion is the one an undisturbed run would have made of what its batches
\* stored: they are complete, each asked for exactly what the one before leads to, and the
\* expansion went on until the hop limit or until nothing was left to ask for.
RunsAreReproducible ==
  \A r \in runs :
    LET n == Len(r.batches)
        before(i) == SubSeq(r.batches, 1, i - 1)
    IN /\ \A i \in 1..n :
            /\ batches[r.batches[i]].hop = i - 1
            /\ batches[r.batches[i]].status = "complete"
            /\ batches[r.batches[i]].keys = IF i = 1 THEN Seeds ELSE NextHop(before(i), r.config)
       /\ n <= r.config.maxHops + 1
       /\ n <= r.config.maxHops => NextHop(r.batches, r.config) = {}

\* No recorded expansion asks for a publication twice, found or not, however its hops
\* were interrupted, shared with other expansions and resumed (seen in expand_citations).
NothingAskedTwice ==
  \A r \in runs : \A i, j \in DOMAIN r.batches :
    i # j => batches[r.batches[i]].keys \cap batches[r.batches[j]].keys = {}

\* A candidate that a recorded hop left out, although it was in scope and never asked for
\* before, found the hop full, and of candidates with at least as many links each.
NothingBetterLeftOut ==
  \A r \in runs : \A i \in DOMAIN r.batches \ {1} :
    LET chosen  == batches[r.batches[i]].keys
        parent  == r.batches[i - 1]
        links(q) == Cardinality({d \in Frontier(parent) : q \in Links(d, r.config.directions)})
        earlier == UNION {batches[r.batches[j]].keys : j \in 1..(i - 1)}
    IN \A q \in Pub \ (earlier \cup chosen) :
         links(q) > 0 /\ InScope(q) =>
           /\ Cardinality(chosen) = r.config.cap
           /\ \A c \in chosen : links(c) > links(q) \/ (links(c) = links(q) /\ c < q)

\* What the module docstring of discovery.py promises: "Running the expansion again
\* continues the same batches rather than starting new ones".
ContinuesSameBatches == ~Forked

\* An expansion that is run again and again is recorded in the end, if no hop has come to
\* have two batches and nobody dies for ever: no refusal, busy batch, failed batch or change
\* of settings on the way leaves it in a state that no further run gets out of.
ExpansionEnds ==
  ([]~Forked /\ <>[](\A p \in Process : pc[p] # "dead")) => <>(runs # {})

=============================================================================
