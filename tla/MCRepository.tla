----------------------------- MODULE MCRepository -----------------------------
(* The repository with writers that are interchangeable.                   *)
EXTENDS Repository, TLC

Symmetry == Permutations(Writers)
=============================================================================
