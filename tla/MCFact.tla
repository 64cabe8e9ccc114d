------------------------------- MODULE MCFact -------------------------------
(* A small instance of FactStore for TLC. *)
EXTENDS FactStore

Symmetry == Permutations(Call) \cup Permutations(Impl) \cup Permutations(Value)
            \cup Permutations(Inputs)

=============================================================================
