# Formal model of the patent-landscape pipeline

TLA+ specifications of `patsquire_plr`, model-checked with TLC and, for the modules of
section 4, proved with TLAPS. Paths below are relative to `src/src/patsquire_plr/` unless they start
with `docs/`. `PROJECT.json` maps every definition to the lines it models.

## 1. The system

`plr` is a command line over one PostgreSQL database and one object store. It retrieves
patent publications in batches, keeps every raw payload, drafts and versions a taxonomy with
a language model, generates queries from approved taxonomies, follows citations, and accepts
figures only when independent implementations agree. There is no server: every command is a
process, several may run at once, and all they share is the database, the object store and
the outside services. Correctness rests on transactions, unique constraints and advisory
locks, and on what is left behind when a process dies.

| Component | State | Operations | Hard behaviour | Correct when |
|---|---|---|---|---|
| Lookup batches (`ingest/runner.py`, `replay.py`, `cli.py`) | `ingest_batch`, `ingest_item`, `raw_record`, `patent_document`, advisory lock, object store | start, run, record, abort, reconcile, resume, replay | two runs at once, crash between any two steps, errors at any call, lost lock connection, stale list of pending keys, upgrade between runs | one final outcome per key, one document per publication, `complete` means settled and never changes, a batch that is resumed completes |
| Audit log (`db/audit.py`) | `audit_event` | append (in the caller's transaction), verify | concurrent appends, rollbacks, several events per transaction, lock order | one chain, in the order of commits; edits and removals are reported |
| Rate limiter (`ratelimit.py`) | bucket, lock | acquire | threads, sleeping | the rate in every window |
| Gateway, chat (`gateway/gateway.py`, `store.py`) | `llm_cache`, `llm_call` | text, structured | retries inside repair turns, concurrent misses, crashes | only valid replies, bounded and logged requests |
| Gateway, embeddings | `llm_cache` | embed | partial failure, a provider that changes its dimension, a text twice in one list | nothing paid for is lost; only what was not cached is paid for |
| Facts (`db/facts.py`) | `fact_computation`, `fact` | accept_fact | two transactions, concurrent calls | a fact has its evidence, exactly one event |
| Landscape store (`landscape/store.py`, `search.py`, `cli_landscape.py`) | `taxonomy_version`, `approval`, `query_set` | draft, show, import, approve, generate | concurrent edits and decisions, check and use in two transactions | no edit lost, the latest decision is the last, approval precedes use |
| Discovery (`landscape/discovery.py`) | batches by hop, `discovery_run` | expand | death in the middle of a hop, two expansions at once, settings that changed, a hop that fails | what is recorded is what an undisturbed run would have made of the stored batches; it is recorded in the end |
| Page source (`ingest/google_patents.py`) | none | fetch, classify, normalise | retries, the page without a kind code, pages that speak of other publications | a final outcome only on definite answers; nothing unreliable in a record |
| Documents (`domain/patent.py`, `db/documents.py`) | `patent_document`, `document_*` | make, store, load | empty lists against missing ones, order, repeats | loads back as it was made |
| Datasets (`clean/`, `db/datasets.py`) | `dataset_*` | plan, store | several copies, families by union-find, names by repeated rules | families are components, names merge by the rules alone, counts add up |
| Queries and matching (`landscape/queries.py`, `search.py`, `classification/cpc.py`) | `query_set`, `search_query`, `query_count`, `recall_check` | generate, count, check recall | records that lack what is asked for, codes of other versions of the scheme, several renderings | counts are bounds, renderings agree, recall does not mislead |
| Taxonomy drafting (`landscape/taxonomy.py`) | the content of `taxonomy_version` | draft, edit | a model that repeats itself and invents codes, edits under another scheme | nothing proposed gets lost |
| Raw store (`ingest/rawstore.py`), releases of the CPC scheme (`classification/store.py`) | objects, `classification_scheme` | put, get, load, open | upload of what is there, corruption | never overwritten, verified |

Interaction: a command of the landscape calls the gateway, then the landscape store; discovery
runs one lookup batch per hop and reads its documents; datasets are built from complete
batches; every one of them appends to the audit log inside its own transaction, with the
chain's lock taken last.

The hazards, each at its line and with the properties aimed at it, are in `PROJECT.json`.

## 2. Modules

| Module | Models | Composed with |
|---|---|---|
| `IngestBatch` | one batch, its rows, its lock and any number of processes running it | refines `BatchContract` |
| `BatchContract` | abstract: keys are settled one at a time, for good, then the batch closes | |
| `IngestProofs` | theorems about `IngestBatch` | extends it |
| `AuditChain`, `AuditProofs` | transactions that append to the chain; `verify_chain` | |
| `RateLimiter`, proofs in `RecordProofs` | threads in `acquire` | |
| `Gateway`, `GatewayProofs` | callers of `structured`/`text` with one cache key | |
| `GatewayEmbed`, `EmbedProofs` | callers of `embed`, each with a list of texts in which one may occur twice | |
| `FactStore`, `FactProofs` | calls of `accept_fact` for one fact | |
| `Landscape`, `LandscapeProofs` | sessions on one landscape | |
| `Discovery`, `DiscoveryProofs` | expansions of one query set, and the batches of its hops | batches as `BatchContract` has them |
| `PageSource`, proofs in `RecordProofs` | one key looked up, one page read, and compared with the request | outcomes are those of `IngestBatch` |
| `Documents`, proofs in `RecordProofs` | records and the tables they are kept in | |
| `Dataset`, proofs in `RecordProofs` | a dataset planned and stored: copies, families, applicants | |
| `Matching`, proofs in `RecordProofs` | the scheme, a query set, counts and recall checks | `Landscape` says that the taxonomy was approved |
| `Taxonomy`, proofs in `RecordProofs` | the content of versions: drafts and edits | `Landscape` says who may add one |
| `Absent` | the value `None` | extended by the five before and by `RateLimiter` |
| `MC*` | TLC instances: finite definitions for constants, symmetry; `MCRecords` puts five modules side by side | |

### How state and actions correspond to the code

* **A transaction is one step** where no other session can change what it has read before it
  commits. Transactions are READ COMMITTED (`db/engine.py:10` sets no other level), so that elsewhere it is several:
  what it reads, step by step as the statements do, and the commit (`LockLandscape`/`AddVersion`,
  `LockSubject`/`AddDecision`, `ReadLast`/`Insert`/`Commit`, `Admit`/`Prepare`,
  `InsertRaw`/`RecordPage`, the four reads before `Reconcile`). Two transactions are always at
  least two steps (`Record`/`Accept`, `Generate`/`AddQuerySet`), and so is what the code does
  outside a transaction (`PutPage` before `InsertRaw`, the cache lookup before the request).
* **`IngestBatch`.** `Start` is `start_lookup_batch` or `start_replay_batch`; `Resume` is
  `plr ingest resume`, which always uses the network source and the adapter version deployed
  now. `Refuse`, `Admit` and `Prepare` are `_prepare`. `RecordMiss`, `PutPage`, `InsertRaw` and
  `RecordPage` are `_record`: `InsertRaw` inserts the raw record, which makes
  another insert of the same key wait (`InsertUnderWay`) but not one of another key, and asks
  `_already_stored`; `RecordPage` commits what that answer called for. `ReadOutcomes`,
  `ReadItems`, `ReadRaw`, `ReadDocuments` and `Reconcile` are the statements of `_reconcile` and
  its commit; `seen` is what a run has read by then. The `...Error` actions are an exception at
  that call, and `Crash` is the death of the process, which ends its database session and so its
  lock and its open transaction. A payload is the
  publication it is about or `Unusable`; `Serves[k]` are the publications that match request
  `k`. Order among pending keys is left open (it only decides which key is the duplicate).
* **`AuditChain`.** The table is kept in the order of commits and read in the order of `seq`.
  `EventHash` is any function into the digests; TLC uses one without collisions in its bounds.
  What the caller locks before it appends is `LockSubject`.
* **`RateLimiter`.** Reading the clock and updating the bucket are separate steps, so that the
  lock has something to protect. Units are chosen so that all arithmetic is in integers.
* **`Gateway`.** The limiter is one step (`Send`) that comes sooner or later. A reply is a model
  value and `Valid` is the set of those that pass the output model. The log is counted per
  call and kind of row.
* **`GatewayEmbed`.** A call has a list of texts and keeps vectors by place in it, as `embed` does
  by index: a text that occurs twice and is not cached is sent twice, also in one request. A
  vector is its dimension. `PutOne` caches one vector. `known` is a history variable: the texts
  whose vectors were there to be used when the call began.
* **`FactStore`.** A call is given any sequence of computations up to the bound, legal or not.
* **`Landscape`.** `Export`, then `Import`, is a person who edits what `plr taxonomy show`
  printed; `Decide` is either approve command. `AutoApprove` follows a draft or a query set in
  automatic mode, in a transaction of its own.
* **`Discovery`.** `Begin` is a command, `Look`, `Refuse`, `Create`/`Continue` and `Start` the steps
  of `_run_hop`, `Advance` the loop of `expand_citations` and `Record` its last transaction. Between
  `Start` and `Complete` or `Incomplete` other processes may settle keys of the same batch. `Links`,
  `Choose` and `NextHop` are functions of what the batches stored, as in the code; `Choose` cuts the
  sorted list off by rank, the number of candidates ahead of one. Verdicts of the
  query set on records are constants.
* **`PageSource`.** `Answer` is one HTTP answer; back-off is the passing of time. A page is a
  record with a value for each section that leads to another reading; `Readings` is `_parse`.
  Rows of lists are `"none"` (no number), `"bad"`, `"self"` or another publication.
* **`Documents`.** Child tables are one set of rows `[document, list, ordinal, value]`, since they
  are written and read alike. `Explained`, the roles, the family and the order of dates are the
  validators of `PatentDocument`.
* **`Dataset`.** Every call of `union` is a step, in any order (the code's is that of a dictionary);
  `Compressed` is what `find` leaves behind. Strings are numbers, in the order the code compares them in.
* **`Matching`.** A symbol is `<<subclass, group, subgroup>>`; a text is the set of the phrases that
  are found in it. `Read` reads a title list line by line with the stack of open groups. Missing
  data are `None`, and a verdict is `"yes"`, `"no"` or `"unknown"`.
* **`Taxonomy`.** One step per segment of a draft. Spelling is a constant (`Fold`, `Slug`), and so is
  which terms are usable. `Edit` is `content_from_edit` and the version it makes.
* Operators named after a definition with a suffix (`Outcome_NoDuplicates`) are plausible bugs
  of that definition. They are used by nothing; each property is known to fail with one.

## 3. What TLC checks

| Run | Instance | Shows |
|---|---|---|
| `ingest` | 2 runners, 2 keys, 2 publications (one matches both keys), 2 versions | consistency, cross-checks of `_reconcile`, contract, completion |
| `ingest_lock_loss` | the same with 1 publication, and `LoseLock` | what survives when runs do interleave: committed rows add up, one version |
| `audit` | 2 writers, 2 events per transaction, 4 events, 1 subject lock | one chain; detection; every transaction ends |
| `rate` | 3 threads, 2 permits a minute, 3 ticks a minute, 6 ticks | the rate in every window |
| `gateway` | 2 callers, 2 calls each, 1 retry, 1 repair turn, 2 valid replies | log, bounds, calls end |
| `embed` | 2 callers, 2 texts in lists of up to 3 places, chunks of 2, 2 dimensions | kept vectors; only the rest is sent |
| `facts` | 2 calls, up to 3 computations, 3 implementations, 2 values, 2 inputs | evidence, audit |
| `landscape` | 2 sessions, 3 versions, 1 query set, 2 decisions, automatic mode | edits, decisions, approvals |
| `discovery` | 2 processes, 3 batches, two settings (hops, cap and directions differ), a graph of 7 publications | reproducible, nothing twice, nothing better left out, ends |
| `records` | five modules side by side, see below | pages, documents, datasets, matching, taxonomies |
| `ingest_replay`, `discovery_race` | as `ingest` and `discovery` | disagreements of section 6 |

**`records`.** `PageSource`, `Documents`, `Dataset`, `Matching` and `Taxonomy` share no variable, and
their steps neither enable nor disable each other's: they read what no other call changes (pages,
documents of complete batches, versions of the scheme). Interleaving them would multiply the
states and show nothing, so that each leaves its initial state only while the others are in theirs:
the states are the sum of five systems, and every reachable state of each is reached. The instances:

* pages: a sound page and about 1,100 that differ from it in one group of sections (identity;
  texts; dates; families; citations; codes), against keys without a kind code and with each of
  three, valid or not, and every sequence of answers with one retry;
* documents: two records side by side, with empty, missing, repeated and permuted lists;
* datasets: every choice of the complete batches, all orders of their unions;
* matching: three releases of a title list, of which one is not well-formed and two differ; records
  that lack dates, texts or codes, or have codes of either; every universe of interest;
* taxonomies: drafts that repeat names, terms and picks, identifiers that collide twice, and two
  edits under either of two versions of the scheme.

**Why the bounds are enough.** Everything checked is about pairs: two runs, two writers, two
callers, two sessions. Two keys, of which one matches both publications, give every outcome and
every duplicate; two versions give the upgrade. Four events with transactions of two give a
transaction between two others, a gap in `seq`, and a removal with and without successors.
Three threads let one sleep while two compete; six ticks let the bucket run empty and fill
again. Three batches let two expansions share one hop and fork it. One retry and one repair turn reach every branch of both loops and their product. Lists of up
to three places in chunks of two give two chunks, a text in both or twice in one, and two sources per result. Three versions give an edit
of an edit and a stale one. Bounds: `PerTransaction`, `MaxEvents`, `MaxClock`, `MaxCalls`,
`MaxComputations`, `MaxVersions`,
`MaxQuerySets`, `MaxBatches`, `MaxRuns`, `MaxDocuments`, `MaxChecks`, `MaxDrafts`; where one stops the system, deadlock is not
checked. Symmetry is used only in runs without liveness.

**Fairness.** `IngestBatch!FairSpec`: an operator keeps resuming the batch with the version it
was made with, and pending keys are answered for good again and again (strong fairness, because
errors and crashes may disable these steps any number of times); if runs come to prepare, to
record a page, or to reconcile settled keys infinitely often, then infinitely often one of them
gets to the end of that transaction (stated as such, and not as the fairness of an action, because the
transactions are several steps and any run may be the one that succeeds); a run that can go on does.
Nothing else is assumed about errors and crashes. `AuditChain!FairSpec`:
sessions go on, and PostgreSQL queues waiters for a lock. `Gateway!FairSpec`: callers go on;
the limiter and provider time-outs make sure there is something to go on with.
`Discovery!LiveSpec`: somebody keeps expanding the query set, with each of the settings; a process
that is alive goes on; of all attempts at a hop one completes its batch sooner or later, which is
what `BatchCompletes` says of a batch that is resumed. `ExpansionEnds` adds that no process is dead
for ever and that no hop has come to have two batches; the second is what `discovery_race` shows
not to be guaranteed.

## 4. What is proved

All for any value of the constants, under the named assumptions of each module only. These are
what the code's types say: that bounds are numbers, that `None` is no value, that sets which a
caller enumerates are finite; for pages (`PageSourceAssumption`), that texts and lists on a page
have one of the forms that are read; for records (`RecordAssumption`), that a record has every
field and its lists are sequences; for taxonomies (`TaxonomyAssumption`), that lists of codes, segments
and terms are sequences, and identifiers sequences of words; for datasets (`DatasetAssumption`), that a
record does not name itself as a member, and that the nodes of family numbers and applications are none
of publications and sort before them, as their names, which begin with `#`, do; for names
(`NameAssumption`), that the words of a name depend on its spelling and that no legal suffix is empty;
for title lists (`MatchingAssumption`), that a line without a level is of a section, class or subclass
and one with a level of a group, which `_entry` enforces, that the codes of records are of groups, which
`normalize_classification_code` enforces, and of some release, that an approved code is in its version,
which `check` does, and that a taxonomy has segments, every segment a keyword, and no two one identifier,
which `landscape/taxonomy.py` validates (`min_length=1`, `_unique_ids`).
No theorem assumes a bound of section 3 to be small.

One assumption is about data that no code looks at, and only `CountsAreBounds` and `RecallIsHonest` rest on
it: `NumberingAssumption`, that releases of CPC number groups as `is_within` takes them to. It says
that the numbers stay below twice the offset of indexing codes (`classification/cpc.py:260`), and that
"every group numbered like a queried main group is inside it" (`classification/cpc.py:158`) in whichever
release has the group. Under it the answers of `is_within` about a code that its release lacks are right
in every release that has it; a release that broke it would make these answers guesses.

* **Batches** (`IngestProofs`). The inductive invariant adds to the properties: the lock's holder
  is the one process that is inside; a running process sees status `running`; its pending keys
  cover the unsettled ones; a page in hand is in the object store and of a pending key; items,
  raw records and documents match one by one. The last is needed because the counts
  `_reconcile` compares do not determine the rows. Because transactions take several steps, two
  parts say that what they have read stands until they commit: the outcome that an open
  `_record` has decided is still the one the rows call for (`DecisionStands`), and a
  reconciliation has read what is still so (`ReadsStand`). From it: `RunsExclude`,
  `OneDocumentPerPublication`, `CrossChecksHold`, `CompleteIsSettled`, the action properties
  `CompleteIsFrozen` and `FinalOutcomesStand`, and the refinement of `BatchContract`.
  When the lock can be lost (`SpecLockLoss`), nothing that speaks of a single process inside
  survives: TLC finds `OneDocumentPerPublication` and `CrossChecksHold` violated then. What does survive
  is kept by transactions, by the unique constraint on raw records and by `_prepare`'s check of the
  version: `LInv` says that items and raw records match one by one, that one open transaction at
  most has inserted a key's raw record, that a process carries the version of the batch and a page it
  has uploaded, and that a batch not yet started has no rows. It gives
  `OneAdapterVersion`, `RowsAddUp`, `RawFirst`, and that what is recorded of a key is never
  replaced (`RecordedRowsStand`).
* **Audit** (`AuditProofs`). Only the lock's holder has a draft or a hash it has read, the log
  followed by that draft is linked row by row and increasing in `seq`, and `nextSeq` is beyond
  it. From it: the chain verifies, commits follow `seq`, edits and removals are reported.
* **Limiter** (`RecordProofs`, part 1). The permits of a window together with what is in the bucket
  are at most a burst and the refill since the window began. From it: `RateHolds`; `SleepSuffices`
  from what a sleeper lacks and what has been refilled since.
* **Gateway** (`GatewayProofs`). Where a call is, with its two loop variables, tells how many
  requests it has sent and which rows it has logged (`LogOf`, `Loops`). So the log tells the call,
  and requests stay within `(MaxRetries + 1) * (MaxSchemaRetries + 1)`. A call that began with a
  cached reply has sent nothing, because no step takes a reply out of the cache.
* **Embeddings** (`EmbedProofs`). A call asks only for places whose text was not cached when it
  looked, and what it was given is in the cache or being cached. So what was paid for is kept
  through every failure (`PaidVectorsAreKept`), and what could be used when a call began is not paid for
  again (`OnlyTheRestIsSent`). That a call pays for a text once is not claimed: it is not so.
* **Facts** (`FactProofs`). What a call has recorded and what it has logged is determined by where
  it is, and it inserts the fact only with distinct computations that agree. The
  rows of the first transaction stay, so that an accepted fact has its evidence and its one event.
* **Landscape** (`LandscapeProofs`). Whoever is about to commit a version holds the landscape's
  lock, and its row is numbered one after the newest version, which is the one its edit was made
  from. Whoever is about to commit a decision holds its subject's lock, and its time stamp is
  later than any decision committed about that subject. An approval that `Generate` saw stays in
  the log. From it: no edit is lost, versions are numbered without gaps, the decision with
  the latest time is the last committed, and query sets were approved.
* **Discovery** (`DiscoveryProofs`). The keys of a batch never change and a complete batch is never
  touched again, so that what a hop asks for, computed from complete batches, is what it was when
  the hop was prepared; the batches of an expansion are a chain of such hops. From it:
  `RunsAreReproducible`, `NothingAskedTwice`, and `NothingBetterLeftOut` by counting: whoever is
  chosen has fewer candidates ahead of it than the cap, and so has everyone ahead of it.
* **Pages** (`RecordProofs`, part 2). Of the answers to one URL all but the newest are transient, and the
  bare number is asked for only after a definite 404 to the full one: so every status is what the
  newest answers justify (`StatusIsJustified`). A stored record is of the publication asked for and takes nothing that
  is unreliable (`StoredIsReliable`); the lemmas follow `Readings` section by section, and the bad row that decides
  a list is the least one.
* **Documents** (`RecordProofs`, part 3). The tables hold exactly the rows of the stored records.
  The rows of one list of one document are as many as its elements, with their positions, so that
  reading them in order gives the list back, and an empty list is told from a missing one
  (`LoadIsInverse`). From it: `LoadsBack`.
* **Taxonomies** (`RecordProofs`, part 4). Every version has codes and suggestions for the same segments,
  all of its scheme, and an edit takes over what its predecessor had of a segment. Steps only append
  versions, so that what holds of one edit holds along any chain of them (`CodesComeBack`). While a
  draft is taken up, the segments before the next one are accounted for (`Taken`), under identifiers
  that differ, because one of the numbers tried is free by counting (`SegmentIdIsFree`); a kept term is
  searched for in some spelling, at the first of the places that hold one (`TermsAre`). At the end these
  are all segments (`DraftAccountsForAll`).
* **Datasets** (`RecordProofs`, part 5). The parents are a tree over the nodes in which no parent is more
  than its node; both ends of a joined link have one root; and any set that no joined link leaves holds a
  node exactly if it holds the root of it. `Root` and `Path` are recursive functions:
  that they exist is proved by building them below every bound (`Climbing`), and
  what they yield by the absence of a least node that is an exception (`NoLeastFailure`). Compression keeps
  every root, and a union puts one of two roots under the other. Reachability by rounds
  is complete after as many rounds as there are nodes, by counting (`ReachedIs`). From it:
  `RootsAreComponents`, in every order of the unions; and `PlanIsConserved`, since components are equal or
  disjoint and a publication without evidence is a component with nothing but its own numbers.
  `EntitiesAreMerged` rests on `KeyIsStripped`: a key has no suffix left to strip, because a name is
  stripped as often as it has words and every round that strips takes one away; and on every spelling
  being that of one name.
* **Queries** (`RecordProofs`, part 6). What has been read of a title list has ranks: a group one more
  than its parent, and the k-th open group is of rank k (`Filed`, kept by every line: `ReadLineIsFine`).
  So a scheme that loads has no cycle, an entry's rank is less than the number of entries
  (`RankIsLess`), and neither the walk up nor the search down is cut short (`AncestorsAre`,
  `DescendantsAre`). Both then find the same pairs (`WithinIs`), and a path ends in the subclass that
  the symbols on it begin with. `MatchInv` says that the query set is that of a taxonomy in one of the
  releases, and that rows hold what its queries evaluate to. From it: `RenderingsAgree`.
  A parent is numbered like its entry, unless it mirrors it or is the subclass (`Near`), hence so is
  everything on a path (`NumberIsThatOfPath`). So `is_within` says "yes" or "no" of a missing code only
  if every release that has the code says the same (`NeverGuesses`), and a verdict of `evaluate` holds whatever is
  missing (`EvaluationIs`): this gives `CountsAreBounds`. `RecallIsHonest` needs besides that of the queries of
  a segment the one searched with is the only one with its keywords and all its codes
  (`SearchQueriesAre`, `SearchQueryIsTheOnly`), for which identifiers have to differ.

Proved and in no run, since TLC would show nothing beyond the proof: `RunsExclude`,
`CompleteIsSettled`, `CommitsInSeqOrder`, `DraftVerifies`, `AppendOnly`, `RefillsMoveForward`,
`NoRepeatedRequest`, `CacheIsValid`, `ResultsAreValid`, `FirstStays`, `FirstVectorStays`, `FactStays`,
`RecordedRowsStand`, `RawFirst`,
`ComputationsStay`, `VersionsNumbered`, `TablesGrow`, `HistoryStays`, and the type invariants other
than that of `IngestBatch`.

Only model-checked: liveness (`BatchCompletes`, `TransactionsEnd`, `CallsEnd`, `ExpansionEnds`), since
fairness and `ENABLED` are beyond the prover. Every invariant and action property of the passing runs
is a theorem.

## 5. What is not modelled

* HTML, YAML, title lists and prompts as text; the spelling of numbers, codes, names and terms; word
  matching, and the quoting in rendered queries. The models start from what these conversions
  tell apart.
* The EPO rendering (`to_epo_cql`): it leaves the hierarchy of codes to the provider.
* The search of CPC titles and the scope file; the loading of a release (`classification/store.py`)
  and the raw store's check of a copy that is already there.
* Reports on datasets, warnings of one-sided family statements, suggestions of similar names.
* Import of numbers from folders, reference extraction, the report template, provider adapters,
  configuration, logging, secrets, health probes: no state that another process shares.
* Wall-clock time of items (`_latest_outcomes` orders by it): the model orders by insertion.
  Floating point in the limiter. The append-only triggers are assumed.
* An upgrade of the adapter between two hops of an expansion; that the approval of the query set
  may change while it runs.

## 6. Disagreements between the code and what it says of itself

With a run that shows them:

1. A replay batch that is resumed fetches (`ingest_replay`).
2. Two expansions that start together make two batches for one hop, and every later expansion of
   the query set stops at it (`discovery_race`).

Seen while modelling:

3. An unexpected error outside the fetch loop does not mark the batch failed.
4. Embeddings are cached before they are validated.
5. A query set may be created for a taxonomy that was rejected a moment before: the check and the
   insert are two transactions (`Generate`, `AddQuerySet`). `QuerySetWasApproved` says what holds.
6. A drafted term that is not usable takes its usable synonyms with it, of which no record is
   kept. `DraftAccountsForAll` excepts them.
7. `verify_chain` cannot notice that the newest events are missing, because nothing keeps the
   head of the chain elsewhere; `RemovalReported` says what it does notice.
8. After a lost lock a late `failed` can follow `stored` for one key, and the batch can then
   never complete, since fetching the key again violates the raw record's constraint.
   Also after a lost lock, two runs that record two keys of one publication at once may both find it
   not stored and both store it, since no constraint covers publications within a batch; and a
   reconciliation may count rows of different moments and raise `ReconciliationError` over
   rows that add up. While the lock lives none of this happens (`FinalOutcomesStand`,
   `OneDocumentPerPublication`, `CrossChecksHold`).
9. An applicant whose name has neither letters nor digits makes every dataset with it fail, with
   no way around it but leaving its batch out (`Store`, `clean/names.py:98`).
10. `embed` collects what is missing by place (`gateway/gateway.py:272`): a text that occurs twice in
    one call and is not cached is sent, and paid for, twice.

## 7. Plan

1. Raw store and releases of the CPC scheme: concurrent load; corruption is reported.
2. A release read against `NumberingAssumption`: a check that the code could make when it loads one.
