------------------------------ MODULE MCEmbed ------------------------------
(* A small instance of GatewayEmbed for TLC. *)
EXTENDS GatewayEmbed, TLC

\* Up to three texts, repeats included: two chunks, and a text in both.
MCLists == UNION {[1..n -> Text] : n \in 1..3}

Symmetry == Permutations(Caller) \cup Permutations(Text) \cup Permutations(Dim)

=============================================================================
