----------------------------- MODULE MCFactBase -----------------------------
(* Instances of FactBase for TLC.                                          *)
EXTENDS FactBase, TLC

Symmetric == Permutations(Patterns)
=============================================================================
