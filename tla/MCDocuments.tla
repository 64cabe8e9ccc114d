---------------------------- MODULE MCDocuments ----------------------------
(* A small instance of Documents: empty and missing lists, repeats and orders; some are no valid
   records. *)
EXTENDS Documents

Whole == [f \in Fields |-> IF f \in Scalars THEN 1 ELSE <<>>]
Rec(p, v, m) == [publication |-> p, value |-> v, missing |-> m]
Sequ == {<<>>, <<5>>, <<6, 5, 6>>, <<7, 8>>}
MCRecord ==
  {Rec(5, [Whole EXCEPT !["applicants"] = s, !["family_members"] = t], {}) : s \in Sequ, t \in Sequ}
  \cup {Rec(7, [f \in Fields |-> IF f \in m THEN None ELSE Whole[f]], n) :
         m \in {{}, {"cpc"}, {"title", "ipc"}}, n \in {{}, {"cpc"}, {"title", "ipc"}}}
  \cup {Rec(9, [Whole EXCEPT !["filing_date"] = a, !["publication_date"] = b],
            {f \in Fields : f = "filing_date" /\ a = None}) : a \in {None, 1, 2}, b \in {1, 2}}
=============================================================================
