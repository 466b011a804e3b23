------------------------------ MODULE MCStore ------------------------------
(* TLC instances of Store: the bounds are named here and in the cfg files.  *)
EXTENDS Store, TLC

Symmetry == Permutations(Proc) \cup Permutations(Gen) \cup Permutations(Scope)
=============================================================================
