------------------------------ MODULE Matching ------------------------------
(***************************************************************************)
(* Logical queries over stored records: the CPC scheme they are written in *)
(* (src/patsquire_plr/classification/cpc.py), their evaluation and their   *)
(* renderings for other providers (landscape/queries.py), and the counts   *)
(* and recall checks that are recorded (landscape/search.py).              *)
(*                                                                         *)
(* A record may lack what a condition looks at, or have codes of another   *)
(* version of the scheme: an evaluation says "match", "no" or              *)
(* "undecidable".  Symbols are <<subclass, group, subgroup>>; the symbol   *)
(* of a subclass has group 0, that of a main group subgroup 0.             *)
(***************************************************************************)
EXTENDS Naturals, Sequences, FiniteSets, Absent

CONSTANTS
  Files,      \* title lists, by version: sequences of lines [symbol, level], level None above
              \* the groups
  Contents,   \* approved taxonomies: [version, segments: set of [id, phrases, cpc]]
  Scope,      \* [from, to, offices]
  Stored,     \* documents: [id, batch, retrieved, office, number, kind, date, title, abstract,
              \* cpc], the texts being sets of the phrases they contain, or None
  Incomplete, \* batches that are not complete
  Universes,  \* sets of batches to count in
  Known,      \* sequences of publications whose recall is checked
  MaxChecks   \* bound on counts and recall checks

VARIABLES
  querySet,   \* [version, queries], None before
  counts,     \* query_count rows
  recalls     \* recall_check rows

matchingVars == <<querySet, counts, recalls>>

INDEXING_OFFSET == 2000

-----------------------------------------------------------------------------
(* CpcScheme *)

\* _same_family: of one main group, or an indexing code that mirrors it.
SameFamily(p, c) == p[1] = c[1] /\ c[2] \in {p[2], p[2] + INDEXING_OFFSET}

\* _parse_section and _entry: groups hang under the last open group one level up, main groups
\* under the subclass of their symbol.
ReadLine(state, line) ==
  LET level == line.level
      symbols == DOMAIN state.parent \cup {line.symbol}
      under(p, open) ==
        [parent  |-> [s \in symbols |-> IF s = line.symbol THEN p ELSE state.parent[s]],
         open    |-> open,
         repeats |-> state.repeats \/ line.symbol \in DOMAIN state.parent,
         orphan  |-> state.orphan]
  IN IF level = None THEN under(None, <<>>)
     ELSE IF level = 0 THEN under(<<line.symbol[1], 0, 0>>, <<line.symbol>>)
     ELSE IF Len(state.open) >= level /\ SameFamily(state.open[level], line.symbol)
          THEN under(state.open[level], Append(SubSeq(state.open, 1, level), line.symbol))
     ELSE [state EXCEPT !.orphan = TRUE]

Read(lines) ==
  LET State[i \in 0..Len(lines)] ==
        IF i = 0 THEN [parent |-> <<>>, open |-> <<>>, repeats |-> FALSE, orphan |-> FALSE]
        ELSE ReadLine(State[i - 1], lines[i])
  IN State[Len(lines)]

\* parse_title_list accepts it: no symbol twice, every parent in the list.
WellFormed(lines) ==
  LET r == Read(lines)
  IN ~r.repeats /\ ~r.orphan /\ \A s \in DOMAIN r.parent : r.parent[s] \in DOMAIN r.parent \cup {None}

\* The versions that can be loaded, each a scheme: its entries and their parents.
Schemes == [v \in {w \in DOMAIN Files : WellFormed(Files[w])} |-> Read(Files[v]).parent]
Children(scheme, s) == {c \in DOMAIN scheme : scheme[c] = s}

\* A record's codes are of groups, and of some version; approved codes are in their version;
\* segments have keywords, and identifiers that differ.
ASSUME MatchingAssumption ==
  /\ \A v \in DOMAIN Files :
       /\ Files[v] \in Seq({Files[v][i] : i \in DOMAIN Files[v]})
       /\ \A i \in DOMAIN Files[v] : LET line == Files[v][i] IN
            /\ None \notin {line.symbol, <<line.symbol[1], 0, 0>>}
            /\ IF line.level = None THEN line.symbol = <<line.symbol[1], 0, 0>>
               ELSE line.level \in Nat /\ line.symbol[2] # 0
  /\ UNION {d.cpc : d \in Stored} \subseteq UNION {DOMAIN Schemes[v] : v \in DOMAIN Schemes}
  /\ IsFiniteSet(Stored) /\ {Scope.from, Scope.to} \subseteq Nat
  /\ \A d \in Stored : d.date \in Nat \cup {None} /\ \A c \in d.cpc : c[2] # 0
  /\ \A content \in Contents :
       /\ content.segments # {}
       /\ \A s, t \in content.segments : s.id = t.id => s = t
       /\ \A s \in content.segments :
            /\ s.phrases # {}
            /\ content.version \in DOMAIN Schemes => s.cpc \subseteq DOMAIN Schemes[content.version]

IsMainGroup(scheme, s) == s \in DOMAIN scheme /\ s[2] # 0 /\ scheme[s] = <<s[1], 0, 0>>

\* path: the entry and its ancestors.
PathOf(scheme, s) ==
  LET Above(n) == IF n \in DOMAIN scheme THEN scheme[n] ELSE None
      Up[k \in 0..Cardinality(DOMAIN scheme)] == IF k = 0 THEN s ELSE Above(Up[k - 1])
  IN {Up[k] : k \in DOMAIN Up} \ {None}

\* descendants: every entry below, found downwards.
Descendants(scheme, s) ==
  LET Wider(S) == S \cup UNION {Children(scheme, c) : c \in S}
      Below[k \in 0..Cardinality(DOMAIN scheme)] ==
        IF k = 0 THEN Children(scheme, s) ELSE Wider(Below[k - 1])
  IN Below[Cardinality(DOMAIN scheme)]

\* Mutation: a code of another version is outside every group.
IsWithin_Outside(scheme, code, symbol) ==
  IF code \in DOMAIN scheme THEN IF symbol \in PathOf(scheme, code) THEN "yes" ELSE "no"
  ELSE IF symbol[2] = 0 /\ code[1] = symbol[1] THEN "yes" ELSE "no"

\* is_within: a code missing from the version is decided from its symbol where that settles it.
IsWithin(scheme, code, symbol) ==
  CASE code \in DOMAIN scheme -> IF symbol \in PathOf(scheme, code) THEN "yes" ELSE "no"
    [] code \notin DOMAIN scheme /\ code[1] # symbol[1] -> "no"
    [] code \notin DOMAIN scheme /\ code[1] = symbol[1] ->
         IF symbol[2] = 0 \/ (IsMainGroup(scheme, symbol) /\ code[2] = symbol[2]) THEN "yes"
         ELSE IF code[2] \in {symbol[2], symbol[2] + INDEXING_OFFSET}
                 \/ symbol[2] = code[2] + INDEXING_OFFSET
              THEN "unknown" ELSE "no"

\* What is_within takes from the numbers of groups, and nothing checks: indexing codes mirror
\* the main groups below 2000, and "every group numbered like a queried main group is inside it".
ASSUME NumberingAssumption ==
  \A v, w \in DOMAIN Schemes : \A c \in DOMAIN Schemes[w] :
    /\ c[2] \in 0..(2 * INDEXING_OFFSET - 1)
    /\ c \notin DOMAIN Schemes[v] =>
         \A s \in DOMAIN Schemes[v] :
           IsMainGroup(Schemes[v], s) /\ <<s[1], s[2]>> = <<c[1], c[2]>> => s \in PathOf(Schemes[w], c)

-----------------------------------------------------------------------------
(* Queries *)

\* build_queries: a query per part, only the keywords of a segment without codes.
Queries(content) ==
  UNION {{[segment |-> s.id, part |-> part,
           phrases |-> IF part = "cpc" THEN {} ELSE s.phrases,
           cpc     |-> IF part = "keywords" THEN {} ELSE s.cpc] :
            part \in IF s.cpc = {} THEN {"keywords"} ELSE {"keywords", "cpc", "combined"}} :
          s \in content.segments}

\* Mutation: the entries right below a code are the ones it includes.
ExpandCodes_OneLevel(scheme, codes) ==
  (UNION {({c} \cup Children(scheme, c)) : c \in codes}) \ {s \in DOMAIN scheme : s[2] = 0}

\* expand_codes: the groups that a provider without a hierarchy is asked for.
ExpandCodes(scheme, codes) ==
  (UNION {({c} \cup Descendants(scheme, c)) : c \in codes}) \ {s \in DOMAIN scheme : s[2] = 0}

\* What to_lens_json and to_bigquery_sql ask of a record's codes; SQL compares the subclass.
LensCodes(scheme, q, codes) == q.cpc = {} \/ codes \cap ExpandCodes(scheme, q.cpc) # {}
SqlCodes(scheme, q, codes) ==
  \/ q.cpc = {}
  \/ \E c \in codes : \/ \E s \in q.cpc : s[2] = 0 /\ c[1] = s[1]
                      \/ c \in ExpandCodes(scheme, {s \in q.cpc : s[2] # 0})

-----------------------------------------------------------------------------
(* LocalMatcher *)

DateVerdict(r) == IF r.date = None THEN "unknown"
                  ELSE IF r.date \in Scope.from..Scope.to THEN "yes" ELSE "no"

\* A match in either field decides; a field that is missing could have matched.
TextVerdict(q, r) ==
  LET present == {r.title, r.abstract} \ {None}
  IN IF q.phrases = {} \/ \E t \in present : t \cap q.phrases # {} THEN "yes"
     ELSE IF None \in {r.title, r.abstract} THEN "unknown" ELSE "no"

CodesVerdict(scheme, q, r) ==
  LET verdicts == {IsWithin(scheme, c, s) : c \in r.cpc, s \in q.cpc}
  IN IF q.cpc = {} \/ "yes" \in verdicts THEN "yes"
     ELSE IF r.cpc = {} \/ "unknown" \in verdicts THEN "unknown" ELSE "no"

\* evaluate: a definite "no" of any condition decides.
Evaluate(scheme, q, r) ==
  LET verdicts == {DateVerdict(r), TextVerdict(q, r), CodesVerdict(scheme, q, r)}
  IN IF (Scope.offices # {} /\ r.office \notin Scope.offices) \/ "no" \in verdicts THEN "no"
     ELSE IF "unknown" \in verdicts THEN "undecidable" ELSE "match"
-----------------------------------------------------------------------------
(* Stored records as a universe *)

\* load_match_records: of each publication, with its kind, the copy that was retrieved last.
Publication(d) == <<d.office, d.number, d.kind>>
Records(batches) ==
  LET docs == {d \in Stored : d.batch \in batches}
  IN {d \in docs : \A c \in docs :
        Publication(c) = Publication(d) =>
          c.retrieved < d.retrieved \/ (c.retrieved = d.retrieved /\ c.id <= d.id)}

\* require_universe: batches that are complete and stored something.
Universe(batches) == batches \cap Incomplete = {} /\ Records(batches) # {}

\* Mutation: the combined queries are the search.
SearchQueries_Combined(qs) == {q \in qs : q.part = "combined"}

\* search_matchers: the combined queries, and the keywords of segments without codes.
SearchQueries(qs) ==
  {q \in qs : \/ q.part = "combined"
               \/ /\ q.part = "keywords"
                  /\ ~\E o \in qs : o.segment = q.segment /\ o.part = "combined"}

MatchingInit == querySet = None /\ counts = {} /\ recalls = {}

\* create_query_set; that the taxonomy is approved is modelled in Landscape.
Generate(content) ==
  /\ querySet = None /\ content.version \in DOMAIN Schemes
  /\ querySet' = [version |-> content.version, queries |-> Queries(content)]
  /\ UNCHANGED <<counts, recalls>>

\* check_scheme: the version that the queries were generated with.
CheckScheme(v) == v \in DOMAIN Schemes /\ querySet.version = v

\* count_locally.
Count(batches, v) ==
  LET row(q) ==
        LET is(verdict) == {r \in Records(batches) : Evaluate(Schemes[v], q, r) = verdict}
        IN [query |-> q, batches |-> batches, count |-> Cardinality(is("match")),
            lowerBound |-> is("undecidable") # {}]
  IN /\ querySet # None /\ CheckScheme(v) /\ Universe(batches)
     /\ counts' = counts \cup {row(q) : q \in querySet.queries}
     /\ UNCHANGED <<querySet, recalls>>

\* classify_recall: of a known publication, whose every stored kind is tried.
ClassifyRecall(batches, v, p) ==
  LET verdicts == {Evaluate(Schemes[v], q, r) : q \in SearchQueries(querySet.queries),
                     r \in {d \in Records(batches) : <<d.office, d.number>> = <<p[1], p[2]>>}}
  IN CASE verdicts = {}        -> "not_retrieved"
       [] "match" \in verdicts -> "found"
       [] verdicts = {"no"}    -> "missed"
       [] OTHER                -> "perhaps_missed"

\* check_recall.
Recall(batches, v, known) ==
  /\ querySet # None /\ CheckScheme(v) /\ Universe(batches)
  /\ recalls' = recalls \cup {[batches |-> batches,
       results |-> [i \in DOMAIN known |-> <<known[i], ClassifyRecall(batches, v, known[i])>>]]}
  /\ UNCHANGED <<querySet, counts>>

\* Bound.
MayCheck == Cardinality({row.batches : row \in counts}) + Cardinality(recalls) < MaxChecks

MatchingNext ==
  \/ \E c \in Contents : Generate(c)
  \/ \E bs \in Universes, v \in DOMAIN Files : MayCheck /\ Count(bs, v)
  \/ \E bs \in Universes, v \in DOMAIN Files, known \in Known : MayCheck /\ Recall(bs, v, known)

MatchingSpec == MatchingInit /\ [][MatchingNext]_matchingVars

-----------------------------------------------------------------------------
(* Properties *)

\* Which versions tell where a code is: the queries' own, or, if that lacks it, all others.
Homes(c) ==
  IF c \in DOMAIN Schemes[querySet.version] THEN {querySet.version}
  ELSE {v \in DOMAIN Schemes : c \in DOMAIN Schemes[v]}
Inside(q, c, v) ==
  \E s \in q.cpc \cap DOMAIN Schemes[v] : c = s \/ c \in Descendants(Schemes[v], s)

\* What a missing date or text may be.
PossibleDates(r) == IF r.date = None THEN 0..(Scope.to + 1) ELSE {r.date}
PossibleTexts(q, text) == IF text = None THEN {{}, q.phrases} ELSE {text}

\* A record matches whatever the missing data say, or for some of what they may say.
Surely(q, r) ==
  /\ Scope.offices = {} \/ r.office \in Scope.offices
  /\ \A d \in PossibleDates(r) : Scope.from <= d /\ d <= Scope.to
  /\ q.phrases = {} \/ \A t \in PossibleTexts(q, r.title), a \in PossibleTexts(q, r.abstract) :
                         (t \cup a) \cap q.phrases # {}
  /\ q.cpc = {} \/ \E c \in r.cpc : \A v \in Homes(c) : Inside(q, c, v)
Possibly(q, r) ==
  /\ Scope.offices = {} \/ r.office \in Scope.offices
  /\ \E d \in PossibleDates(r) : Scope.from <= d /\ d <= Scope.to
  /\ q.phrases = {} \/ \E t \in PossibleTexts(q, r.title), a \in PossibleTexts(q, r.abstract) :
                         (t \cup a) \cap q.phrases # {}
  /\ q.cpc = {} \/ r.cpc = {} \/ \E c \in r.cpc : \E v \in Homes(c) : Inside(q, c, v)

\* A recorded count is what it says: every record it counts does match, whatever is missing,
\* and unless it is a lower bound no other record could (count_locally, LocalMatcher and
\* CpcScheme.is_within, which never guess).
CountsAreBounds ==
  \A row \in counts :
    LET records == Records(row.batches)
    IN /\ row.count <= Cardinality({r \in records : Surely(row.query, r)})
       /\ ~row.lowerBound =>
            row.count = Cardinality({r \in records : Possibly(row.query, r)})

\* The renderings that list codes and the local evaluation agree on every counted record whose
\* codes the version has (expand_codes, to_lens_json, to_bigquery_sql and is_within).
RenderingsAgree ==
  \A row \in counts : LET scheme == Schemes[querySet.version] IN
    \A r \in Records(row.batches) :
      r.cpc # {} /\ r.cpc \subseteq DOMAIN scheme =>
        LET local == CodesVerdict(scheme, row.query, r) = "yes"
        IN /\ LensCodes(scheme, row.query, r.cpc) <=> local
           /\ SqlCodes(scheme, row.query, r.cpc) <=> local

\* A recall check does not mislead: a known publication that is "found" is found by the query
\* of a segment, with its codes if the segment has any, and one that is "missed" would be
\* missed in every stored kind whatever the missing data said (check_recall, classify_recall).
RecallIsHonest ==
  \A row \in recalls : \A i \in DOMAIN row.results :
    LET p == row.results[i][1]
        result == row.results[i][2]
        stored == {d \in Records(row.batches) : d.office = p[1] /\ d.number = p[2]}
        segments == {q.segment : q \in querySet.queries}
        query(s) == CHOOSE q \in querySet.queries :
                      /\ q.segment = s /\ q.phrases # {}
                      /\ q.cpc = UNION {o.cpc : o \in {x \in querySet.queries : x.segment = s}}
    IN /\ result = "not_retrieved" <=> stored = {}
       /\ result = "found" => \E s \in segments, r \in stored : Surely(query(s), r)
       /\ result = "missed" => \A s \in segments, r \in stored : ~Possibly(query(s), r)

=============================================================================
