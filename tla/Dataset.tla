------------------------------- MODULE Dataset -------------------------------
(***************************************************************************)
(* Analysis datasets: one copy of each publication, grouped into families  *)
(* (src/patsquire_plr/clean/dataset.py, db/datasets.py), and the keys that *)
(* applicant names are merged by (clean/names.py).                         *)
(*                                                                         *)
(* A dataset is planned from the documents of complete batches, which no   *)
(* longer change, and is stored in one transaction.  Families are the      *)
(* components of a union-find over publications and, between them, nodes   *)
(* for the family numbers and applications that publications share; each   *)
(* union is a step, in any order.  Nodes are numbers: the evidence nodes   *)
(* come first, as their names ("#...") do.                                 *)
(***************************************************************************)
EXTENDS Naturals, FiniteSets, Sequences, Absent

CONSTANTS
  Inputs,      \* documents: [id, batch, publication, retrieved, members, familyId, application,
               \* applicants], applicants being a sequence of names [raw, words]
  Aliases,     \* the alias file: groups [canonical, variants] of names
  LegalSuffixes,  \* LEGAL_SUFFIXES, longest first
  Unfinished,  \* batches that are not complete
  Evidence     \* family numbers of a source, and applications of an office

\* Family numbers and applications that no document states come as None.
\* Words are what is left of a name without case, punctuation and "&".
ASSUME DatasetAssumption ==
  /\ IsFiniteSet(Inputs)
  /\ \A d \in Inputs : /\ d.id \in Nat /\ d.retrieved \in Nat /\ d.publication \in Nat
                       /\ d.members \subseteq Nat \ ({d.publication} \cup Evidence)
                       /\ IsFiniteSet(d.members)
                       /\ {d.familyId, d.application} \subseteq Evidence \cup {None}
  /\ \A e \in Evidence : e \in Nat /\ e # None /\ \A d \in Inputs : e < d.publication

VARIABLES
  inputs,   \* documents the dataset is planned from
  parent,   \* _UnionFind.parent
  todo,     \* unions that are still to be made
  dataset   \* the stored dataset, None before

datasetVars == <<inputs, parent, todo, dataset>>

SmallestOf(S) == CHOOSE x \in S : \A y \in S : x <= y

-----------------------------------------------------------------------------
(* Choosing copies *)

Copies(ds, p) == {d \in ds : d.publication = p}

\* The copy that was retrieved last, by id if at the same time.
KeptCopy(ds, p) == CHOOSE d \in Copies(ds, p) : \A c \in Copies(ds, p) :
                 c.retrieved < d.retrieved \/ (c.retrieved = d.retrieved /\ c.id <= d.id)

Publications(ds) == {d.publication : d \in ds}
Selected(ds) == {KeptCopy(ds, p) : p \in Publications(ds)}
Excluded(ds) == ds \ Selected(ds)

\* _conflicts: fields on which the copies of a publication disagree.
Conflicts(ds) ==
  UNION {{[publication |-> p, field |-> f] :
            f \in {g \in {"members", "familyId", "application"} : \E c, d \in Copies(ds, p) : c[g] # d[g]}} :
         p \in Publications(ds)}

-----------------------------------------------------------------------------
(* Union-find *)

Stated(d) == {<<d.publication, m>> : m \in d.members}
Shared(d) == {<<d.publication, n>> : n \in {d.familyId, d.application} \ {None}}
Links(ds) == UNION {Stated(d) \cup Shared(d) : d \in Selected(ds)}

Nodes(ds) == Publications(ds) \cup {l[2] : l \in Links(ds)}

\* The root of n, and the nodes on the way to it; a parent is never more than its node.
Root(tree, n) ==
  LET Up[m \in DOMAIN tree] == IF tree[m] = m THEN m ELSE Up[tree[m]] IN Up[n]
Path(tree, n) ==
  LET Up[m \in DOMAIN tree] == IF tree[m] = m THEN {m} ELSE {m} \cup Up[tree[m]] IN Up[n]

\* find, with its path compression: all on the way point to the root.
Compressed(tree, n) == [m \in DOMAIN tree |-> IF m \in Path(tree, n) THEN Root(tree, n) ELSE tree[m]]

\* Mutation: the nodes are joined instead of their roots.
Union_Nodes(tree, a, b) ==
  LET t == Compressed(Compressed(tree, a), b)
  IN IF Root(t, a) = Root(t, b) THEN t ELSE [t EXCEPT ![b] = Root(t, a)]

\* union: the larger root is put under the smaller.
Union(tree, a, b) ==
  LET t  == Compressed(Compressed(tree, a), b)
      ra == Root(t, a)
      rb == Root(t, b)
  IN IF ra = rb THEN t ELSE IF ra < rb THEN [t EXCEPT ![rb] = ra] ELSE [t EXCEPT ![ra] = rb]

-----------------------------------------------------------------------------
(* Families *)

Component(tree, n) == {m \in DOMAIN tree : Root(tree, m) = Root(tree, n)}

Attached(ds, e) == {d.publication : d \in {c \in Selected(ds) : e \in {c.familyId, c.application}}}

\* Mutation: a node that one publication alone is attached to counts.
EvidenceOf_Alone(ds, nodes) ==
  (IF \E d \in Selected(ds) : d.publication \in nodes /\ d.members # {} THEN {"stated"} ELSE {})
  \cup {"shared" : e \in {n \in nodes \cap Evidence : Attached(ds, n) # {}}}

\* Evidence is claimed where it linked two publications: stated members always do, a shared
\* number only with more than one publication attached.
EvidenceOf(ds, nodes) ==
  (IF \E d \in Selected(ds) : d.publication \in nodes /\ d.members # {} THEN {"stated"} ELSE {})
  \cup {"shared" : e \in {n \in nodes \cap Evidence : Cardinality(Attached(ds, n)) > 1}}

\* _group_families, once all unions are made: key, members in the dataset and outside.
Families(ds, tree) ==
  LET family(nodes) ==
        [key |-> SmallestOf(nodes \cap Publications(ds)),
         inside |-> nodes \cap Publications(ds),
         outside |-> nodes \ (Publications(ds) \cup Evidence),
         evidence |-> EvidenceOf(ds, nodes)]
  IN {family(Component(tree, p)) : p \in Publications(ds)}

\* check_conservation: every input decided, every publication in one family, every stated
\* member outside in one family, under distinct keys.
Conserves(ds, families) ==
  /\ Cardinality(Selected(ds)) = Cardinality(Publications(ds))
  /\ UNION {f.inside : f \in families} = Publications(ds)
  /\ \A f, g \in families :
       f # g => f.key # g.key /\ f.inside \cap g.inside = {} /\ f.outside \cap g.outside = {}
  /\ \A f \in families : f.outside \cap Publications(ds) = {}

-----------------------------------------------------------------------------
(* Applicants *)

Ends(words, suffix) ==
  /\ Len(words) > Len(suffix)
  /\ SubSeq(words, Len(words) - Len(suffix) + 1, Len(words)) = suffix

\* normalize_name: the first suffix that fits goes, until none does; never the whole name.
Stripped(words) ==
  LET fits == {i \in DOMAIN LegalSuffixes : Ends(words, LegalSuffixes[i])}
  IN IF fits = {} THEN words ELSE SubSeq(words, 1, Len(words) - Len(LegalSuffixes[SmallestOf(fits)]))
Key(name) ==
  LET After[k \in 0..Len(name.words)] == IF k = 0 THEN name.words ELSE Stripped(After[k - 1])
  IN After[Len(name.words)]

AliasNames(group) == {group.canonical} \cup group.variants

ApplicantNames == UNION {{d.applicants[i] : i \in DOMAIN d.applicants} : d \in Inputs}
Names == ApplicantNames \cup UNION {AliasNames(g) : g \in Aliases}

IsSequence(s) == s \in Seq({s[i] : i \in DOMAIN s})

\* What is left of a name depends on its spelling; no suffix is empty.
ASSUME NameAssumption ==
  /\ \A m, n \in Names : m.raw \in Nat /\ IsSequence(m.words) /\ (m.raw = n.raw => m = n)
  /\ \A d \in Inputs : IsSequence(d.applicants)
  /\ IsSequence(LegalSuffixes)
  /\ \A i \in DOMAIN LegalSuffixes : IsSequence(LegalSuffixes[i]) /\ LegalSuffixes[i] # <<>>

\* AliasFile: a key is in groups of one canonical name only.
ASSUME AliasAssumption ==
  \A g, h \in Aliases : \A m \in AliasNames(g), n \in AliasNames(h) :
    Key(m) = Key(n) => g.canonical = h.canonical

\* The name of an unaliased key: its most frequent spelling, the first in order of several.
Display(ds, key) ==
  LET uses(raw) == UNION {{<<d, i>> : i \in {k \in DOMAIN d.applicants : d.applicants[k].raw = raw}} :
                            d \in Selected(ds)}
      raws == {n.raw : n \in {m \in UNION {{d.applicants[i] : i \in DOMAIN d.applicants} :
                                            d \in Selected(ds)} : Key(m) = key}}
  IN CHOOSE r \in raws : \A q \in raws :
       \/ Cardinality(uses(q)) < Cardinality(uses(r))
       \/ Cardinality(uses(q)) = Cardinality(uses(r)) /\ r <= q

\* Mutation: the alias file is looked up by spelling.
Entity_ByRaw(ds, name) ==
  LET groups == {g \in Aliases : name.raw \in {n.raw : n \in AliasNames(g)}}
  IN IF groups # {} THEN (CHOOSE g \in groups : TRUE).canonical.raw ELSE Display(ds, Key(name))

\* _normalise_applicants: the canonical name of the key's alias group, or the key's own.
Entity(ds, name) ==
  LET groups == {g \in Aliases : Key(name) \in {Key(n) : n \in AliasNames(g)}}
  IN IF groups # {} THEN (CHOOSE g \in groups : TRUE).canonical.raw ELSE Display(ds, Key(name))

Applicants(ds) ==
  UNION {{[publication |-> d.publication, sequence |-> i, name |-> d.applicants[i],
           key |-> Key(d.applicants[i]), entity |-> Entity(ds, d.applicants[i])] :
            i \in DOMAIN d.applicants} : d \in Selected(ds)}

-----------------------------------------------------------------------------
(* build_dataset *)

DatasetInit == inputs = {} /\ parent = <<>> /\ todo = {} /\ dataset = None

Build(batches) ==
  LET ds == {d \in Inputs : d.batch \in batches}
  IN /\ inputs = {} /\ batches \cap Unfinished = {} /\ ds # {}
     /\ inputs' = ds
     /\ parent' = [n \in Nodes(ds) |-> n]
     /\ todo' = Links(ds)
     /\ UNCHANGED dataset

Join(l) ==
  /\ l \in todo
  /\ parent' = Union(parent, l[1], l[2])
  /\ todo' = todo \ {l}
  /\ UNCHANGED <<inputs, dataset>>

\* All rows of the dataset and its event, in one transaction.  A name without letters or digits
\* is an error (normalize_name), and nothing is stored.
Store ==
  /\ inputs # {} /\ todo = {} /\ dataset = None
  /\ Conserves(inputs, Families(inputs, parent))
  /\ \A d \in Selected(inputs) : \A i \in DOMAIN d.applicants : d.applicants[i].words # <<>>
  /\ dataset' = [selected |-> Selected(inputs), excluded |-> Excluded(inputs),
                 conflicts |-> Conflicts(inputs), families |-> Families(inputs, parent),
                 applicants |-> Applicants(inputs)]
  /\ UNCHANGED <<inputs, parent, todo>>

DatasetNext == \/ \E bs \in SUBSET {d.batch : d \in Inputs} : Build(bs)
               \/ \E l \in todo : Join(l)
               \/ Store

DatasetSpec == DatasetInit /\ [][DatasetNext]_datasetVars

-----------------------------------------------------------------------------
(* Properties *)

\* Connectivity over the links that have been joined, by definition.
Reached(ds, joined, n) ==
  LET Step(S) == S \cup {l[2] : l \in {k \in joined : k[1] \in S}}
                   \cup {l[1] : l \in {k \in joined : k[2] \in S}}
      After[k \in 0..Cardinality(Nodes(ds))] == IF k = 0 THEN {n} ELSE Step(After[k - 1])
  IN After[Cardinality(Nodes(ds))]

\* Whatever the order of the unions, and with the paths compressed on the way, two nodes have
\* one root exactly if the links joined so far connect them, and it is the least of them
\* (_UnionFind).
RootsAreComponents ==
  inputs # {} =>
    \A n \in Nodes(inputs) :
      Root(parent, n) = SmallestOf(Reached(inputs, Links(inputs) \ todo, n))

\* A plan never fails its own conservation check, and its families are the ones the sources'
\* statements connect, by evidence that does connect two publications.
PlanIsConserved ==
  inputs # {} /\ todo = {} =>
    LET families == Families(inputs, parent)
    IN /\ Conserves(inputs, families)
       /\ \A f \in families : f.evidence = {} <=> f.outside = {} /\ Cardinality(f.inside) = 1

\* Names are merged by the rules and the alias file, and by nothing else: two applicants have
\* one entity exactly if their keys are equal or aliases of one canonical name, whichever
\* spellings are displayed, and a key that is normalised again stays the same
\* (normalize_name, _normalise_applicants, AliasFile).
EntitiesAreMerged ==
  dataset # None =>
    /\ \A a, b \in dataset.applicants :
         a.entity = b.entity <=>
           \/ a.key = b.key
           \/ \E g, h \in Aliases : /\ g.canonical = h.canonical
                                    /\ a.key \in {Key(n) : n \in AliasNames(g)}
                                    /\ b.key \in {Key(n) : n \in AliasNames(h)}
    /\ \A a \in dataset.applicants : a.key # <<>> /\ Stripped(a.key) = a.key

=============================================================================
