------------------------------ MODULE MCIngest ------------------------------
(* Small instances of IngestBatch for TLC. *)
EXTENDS IngestBatch, TLC

CONSTANTS p1, p2, k1, k2

\* Both publications satisfy k2 (say EP3123456), one of them k1 (EP3123456A1): each key
\* may store either document left to it, be a duplicate, or be quarantined.
MCServes == [k \in Key |-> IF k = k1 THEN {p1} ELSE {p1, p2}]

\* One publication that satisfies both keys.
MCServesOne == [k \in Key |-> {p1}]

\* With one publication, keys are interchangeable like runners and versions; used with
\* invariants only.
Symmetry == Permutations(Runner) \cup Permutations(Key) \cup Permutations(Version)

=============================================================================
