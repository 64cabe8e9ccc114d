----------------------------- MODULE PageSource -----------------------------
(***************************************************************************)
(* The page source: one key looked up over HTTP                            *)
(* (src/patsquire_plr/ingest/google_patents.py), the page read into a      *)
(* canonical record, and the record compared with what was asked for       *)
(* (_matches_request in ingest/runner.py).                                 *)
(*                                                                         *)
(* A key is asked for with its kind code first, again while the answers    *)
(* are transient, and once more without the kind code when the page with   *)
(* it does not exist.  Every answer is a step.  A page is a record of what *)
(* each of its sections holds, in the few ways that lead to different      *)
(* readings.                                                               *)
(***************************************************************************)
EXTENDS Naturals, Sequences, Absent

CONSTANTS
  Lookup,      \* keys: [valid, kind], kind "" when the key has none
  Page,        \* pages the server may hold
  MaxRetries   \* settings.max_retries

\* A text of the page: whose it is ("office": the office's own, or DOCDB's copy), "" if empty.
Block == [source : {"none", "office", "other"}, text : STRING]

\* A row of a list on the page: no number, an unreadable one, this publication's, another's.
Row == {"none", "bad", "self", "other"}

ASSUME PageSourceAssumption ==
  /\ MaxRetries \in Nat
  /\ \A k \in Lookup : k.valid \in BOOLEAN
  /\ \A p \in Page : /\ {p.abstract, p.claims} \subseteq Block
                      /\ {p.family, p.citing} \subseteq Seq(Row)
  /\ None \notin Lookup \cup Page

VARIABLES
  key,      \* the key being looked up, None without one
  asking,   \* "full" or "bare": with or without the kind code
  answers,  \* the answers to each of the two URLs, in order
  status,   \* Fetched.status, "open" until there is one
  page      \* Fetched.content

lookupVars == <<key, asking, answers, status, page>>

\* A time-out or transport error, or 429 and 5xx; against what will not get better: a redirect
\* off the site (or too many), a page without microdata, any other status.
Transient == {"timeout", "busy"}
Definite == {"redirected_away", "no_microdata", "refused"}
Answers == Transient \cup Definite \cup {"404", "page"}

PageInit ==
  /\ key = None /\ asking = "full" /\ status = "open" /\ page = None
  /\ answers = [full |-> <<>>, bare |-> <<>>]

-----------------------------------------------------------------------------
(* Looking up *)

\* Mutation: an answer that will not change is asked for again.
Classify_RetryAll(a) == CASE a = "page" -> "ok" [] a = "404" -> "not_found" [] OTHER -> "again"

\* _classify, and the exceptions of the client in _fetch_one.
Classify(a) == CASE a = "page"       -> "ok"
                 [] a = "404"        -> "not_found"
                 [] a \in Definite   -> "failed"
                 [] a \in Transient  -> "again"

\* fetch: a key that cannot be read is not asked for.
Ask(k) ==
  /\ key = None
  /\ key' = k
  /\ status' = IF k.valid THEN "open" ELSE "invalid_request"
  /\ UNCHANGED <<asking, answers, page>>

Newest(log) == log[Len(log)]

\* _fetch_one's verdict after its answers, "open" while it goes on.
Verdict(log) ==
  LET last == Classify(Newest(log))
  IN IF last # "again" THEN last
     ELSE IF Len(log) = MaxRetries + 1 THEN "failed" ELSE "open"

\* _fetch_without_kind follows a "not found", if there is a kind code to leave out.
TryBare(verdict) == verdict = "not_found" /\ asking = "full" /\ key.kind # ""

Answer(a) ==
  LET log     == Append(answers[asking], a)
      verdict == Verdict(log)
  IN /\ key # None /\ status = "open"
     /\ answers' = [answers EXCEPT ![asking] = log]
     /\ IF TryBare(verdict) THEN asking' = "bare" /\ UNCHANGED status
        ELSE status' = verdict /\ UNCHANGED asking
     /\ page' \in IF verdict = "ok" THEN Page ELSE {page}
     /\ UNCHANGED key

\* The next key.
Forget ==
  /\ key # None /\ status # "open"
  /\ key' = None /\ asking' = "full" /\ status' = "open" /\ page' = None
  /\ answers' = [full |-> <<>>, bare |-> <<>>]

PageNext == \/ \E k \in Lookup : Ask(k)
            \/ \E a \in Answers : Answer(a)
            \/ Forget

PageSpec == PageInit /\ [][PageNext]_lookupVars

-----------------------------------------------------------------------------
(* Reading a page.  A reading is a value, a reason why there is none, or an  *)
(* exception.                                                                *)

Given(x) == [is |-> "value", value |-> x]
Missing(reason) == [is |-> reason]
ParseError == [is |-> "parse_error"]
NormalizationError == [is |-> "normalization_error"]

NotProvided == Missing("not_provided_by_source")
Unparseable == Missing("unparseable")
NotApplicable == Missing("not_applicable")

\* _Fields.put of a list, and _Fields.lenient.
PutList(s) == IF s = <<>> THEN NotProvided ELSE Given(s)
Lenient(r) == IF r = NormalizationError THEN Unparseable ELSE r

Title(p) == IF p.translated THEN Unparseable
            ELSE IF p.title = "" THEN NotProvided ELSE Given(p.title)

\* Mutation: any text will do.
OfficialText_Any(block) ==
  IF block.source = "none" \/ block.text = "" THEN NotProvided ELSE Given(block.text)

\* _official_text and _is_official: "office" is the office's own text, or DOCDB's copy of it.
OfficialText(block) ==
  CASE block.source = "none"                         -> NotProvided
    [] block.source = "other"                        -> Unparseable
    [] block.source = "office" /\ block.text = ""    -> NotProvided
    [] OTHER                                         -> Given(block.text)

DateOf(x) == CASE x = "absent" -> NotProvided [] x = "malformed" -> ParseError [] OTHER -> Given(x)

\* _grant_date: events are the application's; only one on this publication's day is its own.
GrantDate(p) ==
  CASE "malformed" \in {p.granted, p.published} -> ParseError
    [] p.published = "absent"                   -> NotProvided
    [] p.published # "absent" /\ p.granted = p.published -> Given(p.granted)
    [] OTHER                                    -> NotApplicable

\* The first row that cannot be read decides; "none" has no number, "bad" an unreadable one.
RowError(rows) ==
  LET wrong == {i \in DOMAIN rows : rows[i] \in {"none", "bad"}}
  IN IF wrong = {} THEN Given(rows)
     ELSE IF rows[CHOOSE i \in wrong : \A j \in wrong : i <= j] = "none"
          THEN ParseError ELSE NormalizationError

\* The members of the family, without this publication and without repeats.
FamilyMembers(rows) ==
  LET first == {i \in DOMAIN rows : rows[i] # "self" /\ \A j \in 1..(i - 1) : rows[j] # rows[i]}
      Nth[n \in 0..Len(rows)] ==
        IF n = 0 THEN <<>> ELSE IF n \in first THEN Append(Nth[n - 1], rows[n]) ELSE Nth[n - 1]
  IN IF RowError(rows).is # "value" THEN RowError(rows) ELSE PutList(Nth[Len(rows)])

\* _cpc: leaves of the scheme only; a code that is not a full group and subgroup is an error.
Cpc(rows) == IF \E i \in DOMAIN rows : rows[i] = "bad" THEN NormalizationError
             ELSE PutList(SelectSeq(rows, LAMBDA r : r # "not_leaf"))

Parties(names) == PutList(SelectSeq(names, LAMBDA n : n # ""))

\* _backward_citations: rows of patents, then rows of other literature.
BackwardCitations(p) ==
  CASE p.patents = <<>> /\ p.literature = <<>> -> NotProvided
    [] RowError(p.patents).is # "value"        -> RowError(p.patents)
    [] RowError(p.literature).is # "value"     -> RowError(p.literature)
    [] OTHER                                   -> Given(p.patents \o p.literature)

ForwardCitations(rows) == IF RowError(rows).is # "value" THEN RowError(rows) ELSE PutList(rows)

\* _parse: what the page says of each canonical field.
Readings(p) ==
  [title              |-> Title(p),
   abstract           |-> OfficialText(p.abstract),
   claims             |-> OfficialText(p.claims),
   filing_date        |-> DateOf(p.filed),
   publication_date   |-> DateOf(p.published_on),
   grant_date         |-> GrantDate(p),
   family_members     |-> Lenient(FamilyMembers(p.family)),
   applicants         |-> Parties(p.applicants),
   cpc                |-> Cpc(p.cpc),
   legal_status       |-> IF p.legal = "" THEN NotProvided ELSE Given(p.legal),
   backward_citations |-> Lenient(BackwardCitations(p)),
   forward_citations  |-> Lenient(ForwardCitations(p.citing)),
   ipc                |-> NotProvided]

\* _publication: its number, country and kind must be there and agree.
PublicationError(p) == p.number \in {"none", "bad"} \/ ~p.consistent

\* PatentDocument._date_order_problems; of the two days that matter the first is "day1".
DatesInOrder(r) == ~(r.filing_date = Given("day2") /\ r.publication_date = Given("day1"))

Normalizes(p) == /\ ~PublicationError(p)
                 /\ \A f \in DOMAIN Readings(p) : Readings(p)[f] \notin {ParseError, NormalizationError}
                 /\ DatesInOrder(Readings(p))

\* _matches_request: same number; same kind, or only its letter after a fallback.
Letter(kind) == IF kind \in {"A1", "A2"} THEN "A" ELSE IF kind \in {"B1", "B2"} THEN "B" ELSE kind
MatchesRequest(k, p, fallback) ==
  /\ p.number = "own"
  /\ \/ k.kind \in {"", p.kind}
     \/ fallback /\ p.kind # "" /\ Letter(p.kind) = Letter(k.kind)

\* What _record makes of a page that was fetched.
Recorded == IF Normalizes(page) /\ MatchesRequest(key, page, asking = "bare")
            THEN "stored" ELSE "quarantined"

-----------------------------------------------------------------------------
(* Properties *)

\* A final status is what the server's answers justify: nothing but transient answers is
\* asked again, and at most MaxRetries times; the bare number is asked for only when the
\* full one was definitely not found, and "not found" needs both to say so.
StatusIsJustified ==
  /\ \A log \in {answers.full, answers.bare} :
       /\ Len(log) <= MaxRetries + 1
       /\ \A i \in 1..(Len(log) - 1) : log[i] \in Transient
  /\ answers.bare # <<>> => key.kind # "" /\ Newest(answers.full) = "404"
  /\ status = "not_found" =>
       Newest(answers.full) = "404" /\ (key.kind # "" => Newest(answers.bare) = "404")
  /\ status = "ok" => Newest(answers[asking]) = "page" /\ page # None
  /\ status = "failed" => \/ Newest(answers[asking]) \in Definite
                          \/ Len(answers[asking]) = MaxRetries + 1
  /\ status = "invalid_request" <=> key # None /\ ~key.valid

\* What is stored is what was asked for and what the page reliably says: never another
\* publication, nor an application for a grant; never machine-translated or unofficial text;
\* a grant date only on the day this publication was published; a bad number in a list costs
\* that list, and everywhere else the record.
StoredIsReliable ==
  status = "ok" /\ Recorded = "stored" =>
    LET r == Readings(page)
    IN /\ page.number = "own" /\ page.consistent
       /\ key.kind # "" => \/ page.kind = key.kind
                           \/ answers.full # <<>> /\ Newest(answers.full) = "404"
                              /\ <<key.kind, page.kind>> \notin {"A1", "A2"} \X {"B1", "B2"}
                              /\ <<page.kind, key.kind>> \notin {"A1", "A2"} \X {"B1", "B2"}
       /\ r.title.is = "value" => ~page.translated
       /\ r.abstract.is = "value" <=> page.abstract.source = "office" /\ page.abstract.text # ""
       /\ r.claims.is = "value" <=> page.claims.source = "office" /\ page.claims.text # ""
       /\ r.grant_date.is = "value" => r.grant_date.value = page.published
       /\ r.family_members = Unparseable <=> \E i \in DOMAIN page.family : page.family[i] = "bad"
       /\ r.forward_citations = Unparseable <=> \E i \in DOMAIN page.citing : page.citing[i] = "bad"
       /\ \A i \in DOMAIN page.cpc : page.cpc[i] # "bad"
       /\ "malformed" \notin {page.filed, page.published_on}

=============================================================================
