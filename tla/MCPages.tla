------------------------------ MODULE MCPages ------------------------------
(* A small instance of PageSource for TLC: a sound page, and pages that differ from it in the
   sections of one group. *)
EXTENDS PageSource

MCLookup == {[valid |-> v, kind |-> k] : v \in BOOLEAN, k \in {"", "A1", "B1", "B2"}}

Sound == [number |-> "own", kind |-> "B1", consistent |-> TRUE, translated |-> FALSE,
          title |-> "text", abstract |-> [source |-> "office", text |-> "text"],
          claims |-> [source |-> "office", text |-> "text"], filed |-> "day1",
          published_on |-> "day2", published |-> "day2", granted |-> "day2", family |-> <<>>,
          applicants |-> <<"text", "">>, cpc |-> <<"code">>, legal |-> "active",
          patents |-> <<>>, literature |-> <<>>, citing |-> <<>>]

Blocks == [source : {"none", "office", "other"}, text : {"", "text"}]
Dates == {"absent", "malformed", "day1", "day2"}
Rows == UNION {[1..n -> {"none", "bad", "self", "other"}] : n \in 0..3}

MCPage ==
  {[Sound EXCEPT !.number = n, !.kind = k, !.consistent = c] :
     n \in {"none", "bad", "own", "another"}, k \in {"", "A1", "B1", "B2"}, c \in BOOLEAN}
  \cup {[Sound EXCEPT !.translated = t, !.title = x, !.abstract = a, !.claims = b] :
          t \in BOOLEAN, x \in {"", "text"}, a \in Blocks, b \in Blocks}
  \cup {[Sound EXCEPT !.filed = f, !.published_on = d, !.published = o, !.granted = g] :
          f \in Dates, d \in Dates, o \in Dates, g \in Dates}
  \cup {[Sound EXCEPT !.family = r] : r \in Rows}
  \cup {[Sound EXCEPT !.citing = r, !.patents = <<"other">>, !.literature = r] : r \in Rows}
  \cup {[Sound EXCEPT !.patents = r, !.cpc = <<c, "not_leaf">>, !.legal = x] :
          r \in Rows, c \in {"code", "bad", "not_leaf"}, x \in {"", "lapsed"}}

=============================================================================
