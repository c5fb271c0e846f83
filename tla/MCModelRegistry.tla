--------------------------- MODULE MCModelRegistry ---------------------------
(* ModelRegistry for TLC: clients and models are interchangeable. *)
EXTENDS ModelRegistry, TLC

Symmetry == Permutations(Clients) \union Permutations(Models)
=============================================================================
