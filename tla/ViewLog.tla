------------------------------ MODULE ViewLog ------------------------------
(***************************************************************************)
(* What the generation store of a clone promises, whatever files hold it: a *)
(* log of numbered views.  A publication adds one view that is newer than   *)
(* every view in the log; damage to an index file takes every view the file *)
(* holds away at once.  Nothing else ever happens to the log: no view is    *)
(* renumbered, comes back, or appears late.                                 *)
(***************************************************************************)
EXTENDS Integers

CONSTANTS Gen, Scope, MaxSeq

VARIABLE log    \* the views a later command can find, with the file of each

View == [scope : Scope, seq : 1..MaxSeq]

Init == log = {}

Publish(g, v) ==
    /\ \A e \in log : e[2].seq < v.seq
    /\ log' = log \cup {<<g, v>>}

\* A file that can no longer be read.
Lose(g) == log' = {e \in log : e[1] # g}

Next ==
    \/ \E g \in Gen, v \in View : Publish(g, v)
    \/ \E g \in Gen : Lose(g)

Spec == Init /\ [][Next]_log
=============================================================================
