------------------------------ MODULE Taxonomy ------------------------------
(***************************************************************************)
(* What a taxonomy version holds: drafts by a model, checked by code, and  *)
(* edits by a person (src/patsquire_plr/landscape/taxonomy.py).  Who may   *)
(* add a version, and when, is in Landscape.                               *)
(*                                                                         *)
(* A draft is taken up one segment at a time: its terms are sorted out,    *)
(* the official CPC titles are searched, and the model picks from what was *)
(* found.  What does not pass is recorded under "rejected".  Terms, names  *)
(* and codes are told apart by what the code looks at.                     *)
(***************************************************************************)
EXTENDS Naturals, Sequences, FiniteSets, SequencesExt, Absent

CONSTANTS
  Drafts,      \* what the model may draft: sequences of segments [name, keywords], a keyword
               \* being [term, synonyms]
  Fold,        \* a term without its case
  UsableTerms, SearchableTerms,  \* what term_problem and search_term_problems let pass
  Slug,        \* the identifier that a name yields, its words as a sequence of numbers
  Offers,      \* search results and the model's picks from them: [candidates, picks]
  Edits,       \* what a person may import: sequences of [id, cpc]
  SchemeEntries,     \* the CPC entries of each version
  Broad,       \* sections and classes
  MaxSegments, MaxSynonyms, MaxCodes,   \* settings.landscape, and MAX_SYNONYMS
  MaxDrafts, MaxVersions   \* bounds

VARIABLES
  drafting,    \* draft_taxonomy in progress, or None
  versions     \* the landscape's TaxonomyContents

taxonomyVars == <<drafting, versions>>

IsList(s) == s \in Seq(Range(s))

\* A person's codes are checked, the search offers entries; a model drafts and picks whatever it
\* likes, in the form it was asked for.
ASSUME TaxonomyAssumption ==
  /\ MaxCodes \in Nat /\ MaxSynonyms \in Nat
  /\ \A o \in Offers : IsList(o.candidates) /\ IsList(o.picks)
  /\ \A e \in Edits : \A s \in Range(e) : IsList(s.cpc)
  /\ \A d \in Drafts :
       /\ IsList(d)
       /\ \A s \in Range(d) : /\ Slug[s.name] \in Seq(Nat) /\ IsList(s.keywords)
                              /\ \A k \in Range(s.keywords) : IsList(k.synonyms)

\* The entries of s at the positions I, in order.
Subsequence(s, I) ==
  [n \in 1..Cardinality(I) |-> s[CHOOSE i \in I : Cardinality({j \in I : j < i}) = n - 1]]

With(f, x, y) == [z \in DOMAIN f \cup {x} |-> IF z = x THEN y ELSE f[z]]

\* dict.fromkeys.
Once(s) == Subsequence(s, {i \in DOMAIN s : \A k \in 1..(i - 1) : s[k] # s[i]})
Within(s, S) == Subsequence(s, {i \in DOMAIN s : s[i] \in S})
Without(s, S) == Subsequence(s, {i \in DOMAIN s : s[i] \notin S})

-----------------------------------------------------------------------------
(* Drafting *)

\* segment_id: numbered from 2 until it is free.
SegmentId(base, taken) ==
  IF base \notin taken THEN base
  ELSE Append(base, CHOOSE n \in 2..(Cardinality(taken) + 2) :
                      /\ Append(base, n) \notin taken
                      /\ \A m \in 2..(n - 1) : Append(base, m) \in taken)

Usable(terms) == Within(terms, UsableTerms)

\* The synonyms of a keyword that are of use, before the limit.
Synonyms(keyword) ==
  Usable(Without(Once(keyword.synonyms), {s \in Range(keyword.synonyms) : Fold[s] = Fold[keyword.term]}))

\* Mutation: synonyms over the limit are cut off.
SetAside_Limit(keyword) ==
  {t \in Range(keyword.synonyms) \cup {keyword.term} : t \notin UsableTerms}

\* _segment_from_draft: terms that cannot be searched, and synonyms over the limit.
SetAside(keyword) ==
  {t \in Range(keyword.synonyms) : t \notin UsableTerms /\ Fold[t] # Fold[keyword.term]}
  \cup {t \in {keyword.term} : t \notin UsableTerms}
  \cup Range(SubSeq(Synonyms(keyword), MaxSynonyms + 1, Len(Synonyms(keyword))))

Kept(keyword) ==
  <<keyword.term>> \o SubSeq(Synonyms(keyword), 1,
     IF Len(Synonyms(keyword)) < MaxSynonyms THEN Len(Synonyms(keyword)) ELSE MaxSynonyms)

\* SegmentSpec.terms: those of the groups, which have a usable term each, in their first spelling.
Terms(segment) ==
  LET groups       == {i \in DOMAIN segment.keywords : segment.keywords[i].term \in UsableTerms}
      places       == UNION {{<<i, j>> : j \in DOMAIN Kept(segment.keywords[i])} : i \in groups}
      term(p)      == Kept(segment.keywords[p[1]])[p[2]]
      before(o, p) == o[1] < p[1] \/ (o[1] = p[1] /\ o[2] < p[2])
  IN {term(p) : p \in {q \in places : \A o \in places : before(o, q) => Fold[term(o)] # Fold[term(q)]}}

\* _accept_picks: from the list, once, up to the limit.
AcceptPicks(picks, candidates) ==
  LET good == Within(Once(picks), Range(candidates))
  IN SubSeq(good, 1, IF Len(good) < MaxCodes THEN Len(good) ELSE MaxCodes)

RejectedPicks(picks, candidates) ==
  {picks[i] : i \in {j \in DOMAIN picks :
     \/ picks[j] \notin Range(AcceptPicks(picks, candidates))
     \/ \E k \in 1..(j - 1) : picks[k] = picks[j]}}

TaxonomyInit == drafting = None /\ versions = <<>>

\* draft_taxonomy, its first call: too few or too many segments are an error.
BeginDraft(draft, v) ==
  /\ drafting = None
  /\ Cardinality({d.name : d \in Range(draft)}) \in 2..MaxSegments
  /\ drafting' = [draft |-> draft, scheme |-> v, next |-> 1, ids |-> <<>>, cpc |-> <<>>,
                  suggestions |-> <<>>, terms |-> <<>>, rejected |-> {}, offers |-> <<>>]
  /\ UNCHANGED versions

Rejected(id, kind, values) == {[segment |-> id, kind |-> kind, value |-> x] : x \in values}

Current == drafting.draft[drafting.next]

\* The body of the loop: a segment whose name was drafted before is dropped.
RepeatedSegment ==
  /\ drafting # None /\ drafting.next <= Len(drafting.draft)
  /\ Current.name \in DOMAIN drafting.ids
  /\ drafting' = [drafting EXCEPT !.next = @ + 1,
       !.rejected = @ \cup Rejected(drafting.ids[Current.name], "segment", {Current.name})]
  /\ UNCHANGED versions

\* Any other gets an identifier, its terms, candidates and codes.  Without a term that can be
\* searched for there are no candidates, and without candidates the model is not asked.
TakeUpSegment(offer) ==
  LET taken == {drafting.ids[n] : n \in DOMAIN drafting.ids}
      id == SegmentId(Slug[Current.name], taken)
      accepted == AcceptPicks(offer.picks, offer.candidates)
  IN /\ drafting # None /\ drafting.next <= Len(drafting.draft)
     /\ Current.name \notin DOMAIN drafting.ids
     /\ Terms(Current) # {}
     /\ Range(offer.candidates) \subseteq SchemeEntries[drafting.scheme] \ Broad
     /\ (\A t \in Terms(Current) : t \notin SearchableTerms) => offer.candidates = <<>>
     /\ offer.candidates = <<>> => offer.picks = <<>>
     /\ drafting' = [drafting EXCEPT !.next = @ + 1,
          !.ids = With(@, Current.name, id),
          !.terms = With(@, id, Terms(Current)),
          !.cpc = With(@, id, accepted),
          !.suggestions = With(@, id, Without(offer.candidates, Range(accepted))),
          !.offers = With(@, id, offer),
          !.rejected = @ \cup Rejected(id, "term", UNION {SetAside(k) : k \in Range(Current.keywords)})
            \cup Rejected(id, "cpc_search", {t \in Terms(Current) : t \notin SearchableTerms})
            \cup (IF offer.candidates = <<>> THEN Rejected(id, "cpc_search", {Current.name}) ELSE {})
            \cup Rejected(id, "cpc", RejectedPicks(offer.picks, offer.candidates))]
     /\ UNCHANGED versions

\* A segment without usable terms is an error, and so is one the search or the model fails for.
DraftFails == drafting # None /\ drafting' = None /\ UNCHANGED versions

\* The content is stored as the next version.
EndDraft ==
  /\ drafting # None /\ drafting.next > Len(drafting.draft)
  /\ versions' = Append(versions,
       [origin |-> "llm_draft", scheme |-> drafting.scheme, cpc |-> drafting.cpc,
        suggestions |-> drafting.suggestions, rejected |-> drafting.rejected, from |-> drafting])
  /\ drafting' = None
-----------------------------------------------------------------------------
(* Editing *)

At(f, id) == IF id \in DOMAIN f THEN f[id] ELSE <<>>

\* Mutation: the codes of the version before are not looked at.
Pool_Suggestions(previous, id) == At(previous.suggestions, id)

\* What was suggested or chosen before.
Pool(previous, id) == At(previous.suggestions, id) \o At(previous.cpc, id)

\* content_from_edit: every code must exist and be no section or class; codes that were removed
\* go back to the suggestions, as far as the scheme has them.
Edit(edit, v) ==
  LET chosen == [id \in {s.id : s \in Range(edit)} |->
                   Once((CHOOSE s \in Range(edit) : s.id = id).cpc)]
      first == versions = <<>>
      previous == Last(versions)
  IN /\ edit # <<>> /\ Cardinality(DOMAIN chosen) = Len(edit)
     /\ \A id \in DOMAIN chosen : Range(chosen[id]) \subseteq SchemeEntries[v] \ Broad
     /\ versions' = Append(versions,
          [origin |-> "user_edit", scheme |-> v, cpc |-> chosen,
           suggestions |-> [id \in DOMAIN chosen |->
             IF first THEN <<>>
             ELSE Without(Once(Within(Pool(previous, id), SchemeEntries[v])), Range(chosen[id]))],
           rejected |-> IF first THEN {} ELSE previous.rejected, from |-> None])
     /\ UNCHANGED drafting

\* Bound.
MayDraft == Cardinality({i \in DOMAIN versions : versions[i].origin = "llm_draft"}) < MaxDrafts

TaxonomyNext ==
  \/ /\ Len(versions) < MaxVersions
     /\ \/ \E d \in Drafts, v \in DOMAIN SchemeEntries : MayDraft /\ BeginDraft(d, v)
        \/ \E e \in Edits, v \in DOMAIN SchemeEntries : Edit(e, v)
        \/ EndDraft
  \/ RepeatedSegment
  \/ \E o \in Offers : TakeUpSegment(o)
  \/ DraftFails

TaxonomySpec == TaxonomyInit /\ [][TaxonomyNext]_taxonomyVars

-----------------------------------------------------------------------------
(* Properties *)

IsRejected(c, id, kind, x) == [segment |-> id, kind |-> kind, value |-> x] \in c.rejected

FirstNamed(draft, name) ==
  CHOOSE j \in DOMAIN draft : draft[j].name = name /\ \A k \in 1..(j - 1) : draft[k].name # name

\* What became of the picks, candidates and terms of a segment.
AccountsForSegment(c, id, segment, offer, terms) ==
  LET found == {Fold[t] : t \in terms}
  IN /\ \A p \in Range(offer.picks) : Contains(c.cpc[id], p) \/ IsRejected(c, id, "cpc", p)
     /\ \A p \in Range(offer.picks) \cap Range(offer.candidates) :
          Contains(c.cpc[id], p) \/ Len(c.cpc[id]) = MaxCodes
     /\ \A x \in Range(offer.candidates) :
          Contains(c.cpc[id], x) <=> ~ Contains(c.suggestions[id], x)
     /\ Len(c.cpc[id]) <= MaxCodes
     /\ \A k \in Range(segment.keywords) :
          /\ IsRejected(c, id, "term", k.term) \/ Fold[k.term] \in found
          /\ k.term \in UsableTerms =>
               \A s \in Range(k.synonyms) : IsRejected(c, id, "term", s) \/ Fold[s] \in found

\* What became of the segments of draft d, in c.
AccountsForDraft(c, d) ==
  /\ \A m, n \in DOMAIN d.ids : m # n => d.ids[m] # d.ids[n]
  /\ \A j \in DOMAIN d.draft :
       (\E k \in 1..(j - 1) : d.draft[k].name = d.draft[j].name)
         => IsRejected(c, d.ids[d.draft[j].name], "segment", d.draft[j].name)
  /\ \A j \in DOMAIN d.draft : d.draft[j].name \in DOMAIN d.ids
  /\ \A n \in DOMAIN d.ids :
       AccountsForSegment(c, d.ids[n], d.draft[FirstNamed(d.draft, n)],
                          d.offers[d.ids[n]], d.terms[d.ids[n]])

\* Nothing the model proposed gets lost: of a drafted version, every segment is there under an
\* identifier of its own or rejected, every pick is chosen or rejected (one from the list only
\* for want of room), every candidate chosen or suggested, and every term is searched for, up
\* to its spelling, or rejected, unless it is a synonym of a term that was (draft_taxonomy,
\* _segment_from_draft, _accept_picks).
DraftAccountsForAll ==
  \A new \in Range(versions) : new.origin = "llm_draft" => AccountsForDraft(new, new.from)

\* Editing forgets no code: one that was chosen or suggested for a segment stays chosen or
\* suggested, never both, as long as the segment is there and the scheme has it; what was
\* rejected stays on record (content_from_edit).
CodesComeBack ==
  \A i, j \in DOMAIN versions :
    i < j /\ (\A k \in (i + 1)..j : versions[k].origin = "user_edit") =>
      LET old == versions[i]
          new == versions[j]
          kept(id) == Range(new.cpc[id]) \cup Range(new.suggestions[id])
      IN /\ old.rejected \subseteq new.rejected
         /\ \A id \in DOMAIN new.cpc : Range(new.cpc[id]) \cap Range(new.suggestions[id]) = {}
         /\ \A id \in DOMAIN old.cpc :
              (\A k \in i..j : id \in DOMAIN versions[k].cpc) =>
                \A c \in Range(old.cpc[id]) \cup Range(old.suggestions[id]) :
                  (\A k \in i..j : c \in SchemeEntries[versions[k].scheme]) => c \in kept(id)

=============================================================================
