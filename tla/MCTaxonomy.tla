---------------------------- MODULE MCTaxonomy ----------------------------
(* A small instance of Taxonomy. *)
EXTENDS Taxonomy

MCFold == [t \in {"net", "NET", "llm", "c++", "a (b)"} |-> IF t = "NET" THEN "net" ELSE t]
K(t, s) == [term |-> t, synonyms |-> s]

Seg(n, k) == [name |-> n, keywords |-> k]

\* Three names of which two yield one identifier and that, numbered, the third; a repeated
\* name; terms and synonyms that are repeated, unusable or too many; a segment without terms.
\* The word of all is 0.
MCSlug == [n \in {"C", "C++", "C 2"} |-> IF n = "C 2" THEN <<0, 2>> ELSE <<0>>]
Plain == <<K("net", <<>>)>>
MCDrafts ==
  {<<Seg("C", Plain), Seg("C", Plain)>>,
   <<Seg("C", <<K("a (b)", <<>>)>>), Seg("C++", Plain)>>,
   <<Seg("C 2", Plain), Seg("C", Plain), Seg("C 2", Plain), Seg("C++", Plain)>>,
   <<Seg("C", <<K("net", <<"llm", "NET", "a (b)", "c++", "llm">>), K("a (b)", <<"llm", "a (b)">>)>>),
     Seg("C++", <<K("NET", <<>>), K("c++", <<"a (b)", "net">>)>>)>>}

MCSchemeEntries == [v \in {1, 2} |-> IF v = 1 THEN {"G", "x", "y", "z"} ELSE {"G", "x", "z"}]
MCOffers == {[candidates |-> <<>>, picks |-> <<>>],
             [candidates |-> <<"x", "z">>, picks |-> <<"q", "x">>],
             [candidates |-> <<"x", "y", "z">>, picks |-> <<"x", "x", "y">>],
             [candidates |-> <<"x", "y", "z">>, picks |-> <<"y", "z", "x">>]}
MCEdits == {<<[id |-> <<0>>, cpc |-> c]>> : c \in {<<>>, <<"y", "x", "y">>, <<"G">>}}
           \cup {<<[id |-> <<0>>, cpc |-> <<"z">>], [id |-> i, cpc |-> <<>>]>> :
                   i \in {<<0>>, <<0, 2>>}}
=============================================================================
