------------------------------ MODULE MCForget ------------------------------
(* TLC instances of Forget.                                                 *)
EXTENDS Forget, TLC

\* Forget one item, or everything recorded in an interval.
ItemAndInterval == {{i} \X Time : i \in Item} \cup {Item \X {"inside"}}

Symmetry == Permutations(Gen)
=============================================================================
