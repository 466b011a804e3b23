---------------------------- MODULE MCReconcile ----------------------------
(* TLC instances of Reconcile.                                              *)
EXTENDS Reconcile

NotesAndDoc == <<"notes", "doc">>
NotesAndAdapter == <<"notes", "adapter">>
DocOnly == <<"doc">>
NotesOnly == <<"notes">>
=============================================================================
