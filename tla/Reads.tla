------------------------------- MODULE Reads -------------------------------
(***************************************************************************)
(* What an answer is made of once there is a view: which records of it     *)
(* must be shown (Policy), how they are read in pages (Paging), and which  *)
(* earlier views an item's history has (LegacyHistory).  The three share   *)
(* no state, so a behaviour shows one of them, the subject.                *)
(***************************************************************************)
EXTENDS Paging, LegacyHistory, Policy

VARIABLE subject \* the machine that moves in this behaviour

ReadsInit ==
    /\ subject \in {"pages", "history", "policy"}
    /\ Init /\ LegacyInit /\ PolicyInit

OfPages(A) == subject = "pages" /\ A /\ UNCHANGED <<subject, legacyVars, members>>
OfHistory(A) == subject = "history" /\ A /\ UNCHANGED <<subject, vars, members>>
OfPolicy(A) == subject = "policy" /\ A /\ UNCHANGED <<subject, vars, legacyVars>>

ReadsNext == OfPages(Next) \/ OfHistory(LegacyNext) \/ OfPolicy(PolicyNext)

ReadsSpec == ReadsInit /\ [][ReadsNext]_<<subject, vars, legacyVars, members>>
=============================================================================
