---------------------------- MODULE MCMatching ----------------------------
(* A small instance of Matching. *)
EXTENDS Matching

L(s, l) == [symbol |-> s, level |-> l]
A == <<"A", 0, 0>>
B == <<"B", 0, 0>>
\* Version 2 adds 1/6 and its mirror under 1/4, and drops 1/2; version 3 is not well-formed.
MCFiles ==
  [v \in {1, 2, 3} |->
     <<L(A, None), L(<<"A", 1, 0>>, 0)>>
     \o (IF v = 1 THEN <<L(<<"A", 1, 2>>, 1)>> ELSE <<>>)
     \o <<L(<<"A", 1, 4>>, 1), L(<<"A", IF v = 3 THEN 2002 ELSE 2001, 48>>, 2)>>
     \o (IF v = 2 THEN <<L(<<"A", 1, 6>>, 2), L(<<"A", 2001, 60>>, 3)>> ELSE <<>>)
     \o <<L(<<"A", 2, 0>>, 0), L(<<"A", IF v = 2 THEN 9 ELSE 8, 0>>, 0), L(B, None), L(<<"B", 1, 0>>, 0)>>]

Segments == {[id |-> "s", phrases |-> {"p"}, cpc |-> c] :
               c \in {{}, {A}, {<<"A", 1, 0>>}, {<<"A", 1, 4>>}, {<<"A", 1, 4>>, B}, {<<"A", 2001, 48>>}}}
MCContents ==
  {[version |-> v, segments |-> {s}] : v \in {1, 2, 3}, s \in Segments}
  \cup {[version |-> 1, segments |-> {s, [id |-> "t", phrases |-> {"q"}, cpc |-> c]}] :
          s \in Segments, c \in {{}, {<<"B", 1, 0>>}}}

MCScope == [from |-> 2, to |-> 3, offices |-> {"EP"}]

MatchDates == <<None, 3, 1, 2, 4>>
Texts == <<None, {}, {"p"}, {"q"}>>
Codes == <<{}, {<<"A", 1, 6>>}, {<<"A", 1, 4>>}, {<<"A", 1, 0>>}, {<<"A", 1, 2>>},
           {<<"A", 2001, 48>>}, {<<"A", 2001, 60>>}, {<<"A", 2, 0>>, <<"A", 1, 6>>},
           {<<"A", 9, 0>>}, {<<"B", 1, 0>>}>>
Doc(i, office, number, kind, d, t, a, c) ==
  [id |-> i, batch |-> i, retrieved |-> i, office |-> office, number |-> number, kind |-> kind,
   date |-> MatchDates[d], title |-> Texts[t], abstract |-> Texts[a], cpc |-> Codes[c]]

\* Records that lack a date or texts, records with codes of either version, and copies and
\* other kinds of one publication.
MCStored ==
  {Doc(100 * d + 10 * t + a, "EP", 1, "B1", d, t, a, 3) : d \in 1..2, t \in 1..4, a \in 1..4}
  \cup {Doc(100 * d, "EP", 1, "B1", d, 3, 2, 3) : d \in 3..5}
  \cup {Doc(1000 + 10 * c + a, "EP", 1, "B1", 2, 3, a, c) : a \in 1..2, c \in 1..9}
  \cup {Doc(3000, "US", 1, "B1", 2, 3, 3, 3), Doc(3001, "EP", 1, "B1", 2, 4, 4, 3),
        Doc(3002, "EP", 1, "A1", 2, 1, 2, 2), Doc(3003, "EP", 2, "A1", 2, 3, 3, 3)}
Ids == {d.batch : d \in MCStored}
MCUniverses == {{i} : i \in Ids} \cup SUBSET (3000..3003)
               \cup {{i, 3002} : i \in {j \in Ids : j > 1000 /\ j < 3000}}
MCKnown == {<<<<"EP", 1>>>>, <<<<"EP", 2>>, <<"US", 1>>>>}
=============================================================================
