---------------------------- MODULE MCDataset ----------------------------
(* A small instance of Dataset: copies in different batches, families linked in three ways, and
   names with suffixes and aliases. *)
EXTENDS Dataset

N(r, w) == [raw |-> r, words |-> w]
Acme == N(1, <<"acme">>)
AcmeCo == N(2, <<"acme", "co", "ltd">>)
AcmeCoInc == N(3, <<"acme", "co", "ltd", "inc">>)
Bolt == N(4, <<"bolt", "inc">>)
Bolts == N(5, <<"bolt">>)
Nut == N(6, <<"nut">>)
Inc == N(7, <<"inc">>)
MCLegalSuffixes == <<<<"co", "ltd">>, <<"co">>, <<"ltd">>, <<"inc">>>>
MCAliases == {[canonical |-> Nut, variants |-> {Bolt}], [canonical |-> Nut, variants |-> {N(8, <<"screw">>)}]}

D(i, b, p, r, m, f, a, n) == [id |-> i, batch |-> b, publication |-> p, retrieved |-> r,
                              members |-> m, familyId |-> f, application |-> a, applicants |-> n]
MCInputs ==
  {D(1, 1, 11, 1, {12, 20}, None, 3, <<Acme, Bolt>>), D(2, 1, 12, 1, {}, None, None, <<AcmeCo, AcmeCo>>),
   D(3, 2, 11, 2, {20}, 1, 3, <<AcmeCoInc, Inc>>), D(4, 2, 13, 1, {12, 10}, 1, None, <<Bolts, Nut>>),
   D(5, 3, 14, 1, {21}, 2, 4, <<>>), D(6, 3, 11, 2, {14}, None, None, <<Acme>>),
   D(7, 4, 15, 3, {}, 2, None, <<N(9, <<"screw", "co">>)>>),
   D(8, 5, 15, 2, {}, None, 4, <<>>), D(9, 6, 16, 1, {}, None, None, <<N(10, <<>>)>>)}
=============================================================================
