------------------------------ MODULE MCNotes ------------------------------
(* TLC instances of Notes.  A rule for one note tells the identities apart,  *)
(* so they are not symmetric.                                                *)
EXTENDS Notes, TLC

OneNote == {{CHOOSE i \in Id : TRUE}}
AllNotes == {Id}

Symmetry == Permutations(Key) \cup Permutations(Text) \cup Permutations(Worktree)
                \cup Permutations(Gen)
=============================================================================
