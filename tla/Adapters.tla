------------------------------ MODULE Adapters ------------------------------
(***************************************************************************)
(* The two ways evidence of other tools is captured: from session files,   *)
(* which mostly grow, and from the database of OpenCode, which is edited   *)
(* in place.  A source has one adapter, so they share no state and a       *)
(* behaviour shows one of them, the subject.                               *)
(***************************************************************************)
EXTENDS Capture, OpenCode

VARIABLE subject \* the adapter that captures in this behaviour

AdaptersInit ==
    /\ subject \in {"sessions", "database"}
    /\ Init /\ OpenCodeInit
    /\ subject = "database" =>
          /\ kind = CHOOSE k \in Kinds : TRUE
          /\ \A f \in Present : disk[f].lines = CHOOSE content \in Contents : TRUE

OfSessions(A) == subject = "sessions" /\ A /\ UNCHANGED <<subject, openCodeVars>>
OfDatabase(A) == subject = "database" /\ A /\ UNCHANGED <<subject, vars>>

AdaptersNext == OfSessions(Next) \/ OfDatabase(OpenCodeNext)

AdaptersSpec == AdaptersInit /\ [][AdaptersNext]_<<subject, vars, openCodeVars>>
=============================================================================
