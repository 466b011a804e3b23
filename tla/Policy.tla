------------------------------- MODULE Policy -------------------------------
(***************************************************************************)
(* What a record counts for (src/src/policy.rs).                           *)
(*                                                                         *)
(* Each record is evaluated by the policy of its source: by its status,    *)
(* and by who decided it where the policy lists approvers.  Then the       *)
(* records of a view are reconciled: a record may name the ones it         *)
(* replaces or the ones it is replaced by, by id or by native name, within *)
(* its branch and between upstream and local records; several replacements *)
(* of one record are a conflict, and so are accepted versions that differ  *)
(* between branches.                                                       *)
(*                                                                         *)
(* A view lists its records in some order, the local ones first.  Lists    *)
(* and annotations in a reference, relations to missing endpoints, reasons *)
(* and tasks are left out.  A version is everything a record says.         *)
(* A definition named ...Mutant is the definition after it with a bug.     *)
(***************************************************************************)
EXTENDS Integers, FiniteSets, Sequences

CONSTANTS
    Records,            \* the records that branches and upstream may hold
    Accepted, Proposed, \* accepted_values and proposed_values
    Blocked,            \* blocked_values
    Approvers,          \* approvers, or Unset
    RequireAttribution, \* require_attribution
    MaxRecords,         \* bound on the records of a view
    Unset               \* there is none

ASSUME RecordsAssumption ==
    \A m \in Records :
        DOMAIN m = {"id", "native", "branch", "origin", "status", "decider",
                    "constraint", "replacements", "replacedBy"}
ASSUME RequireAssumption == RequireAttribution \in BOOLEAN
ASSUME MaxRecordsAssumption == MaxRecords \in Nat

VARIABLE members \* the records of the view, in order

----------------------------------------------------------------------------
(* evaluate *)

Meaning(status) ==
    CASE status \in Accepted -> "accepted"
      [] status \in Proposed \ Accepted -> "proposed"
      [] OTHER -> "unknown"

\* Trusts whoever is named.
EntitledMutant(decider) == Approvers = Unset \/ decider # Unset

Entitled(decider) ==
    \/ Approvers = Unset
    \/ decider = Unset /\ ~RequireAttribution
    \/ decider # Unset /\ decider \in Approvers

Acceptance(m) == IF Entitled(m.decider) THEN Meaning(m.status) ELSE "unverified"

Section(m) ==
    CASE m.status \in Blocked -> "blockers"
      [] m.status \notin Blocked /\ (Acceptance(m) = "accepted" \/ m.constraint) ->
           "accepted_decisions"
      [] m.status \notin Blocked /\ ~m.constraint /\ Acceptance(m) \in {"proposed", "unverified"} ->
           "pending_decisions"
      [] OTHER -> "evidence"

MustShow(m) ==
    m.constraint \/ Section(m) \in {"blockers", "accepted_decisions", "pending_decisions"}

----------------------------------------------------------------------------
(* reconcile: who may replace whom *)

Names(reference, m) == reference \in {m.id, m.native}

Scope(m) == <<m.branch, m.origin>>

Resolved(ms, scope, reference) ==
    {i \in DOMAIN ms : Scope(ms[i]) = scope /\ Names(reference, ms[i])}

\* An ambiguous reference names nothing.
Unambiguous(ms, scope, references) ==
    {i \in DOMAIN ms : \E r \in references : Resolved(ms, scope, r) = {i}}

\* The records that record i names as replaced, in the scope of record j.
Replaces(ms, i, j) ==
    /\ Scope(ms[i]) = Scope(ms[j]) \/ (ms[i].origin = "incoming" /\ ms[j].origin = "local")
    /\ j \in Unambiguous(ms, Scope(ms[j]), ms[i].replacements)

ReplacedBy(ms, i, j) ==
    /\ Scope(ms[i]) = Scope(ms[j]) \/ (ms[i].origin = "local" /\ ms[j].origin = "incoming")
    /\ j \in Unambiguous(ms, Scope(ms[j]), ms[i].replacedBy)

Upstream(ms, i, j) == ms[i].origin = "local" /\ ms[j].origin = "incoming"

Candidates(ms, i) ==
    {j \in DOMAIN ms :
        \/ Replaces(ms, j, i)
        \/ ReplacedBy(ms, i, j)
        \/ Upstream(ms, i, j) /\ ms[i].id = ms[j].id}

----------------------------------------------------------------------------
(* reconcile: what becomes of a record *)

Verdict(m) ==
    [section |-> Section(m), required |-> MustShow(m), supersession |-> Unset,
     accepted |-> {}, proposed |-> {}, conflicts |-> {}]

\* The same record of the same version is no replacement.  The upstream
\* version of a pending local record resolves it.
SameUpstream(ms, v, i, j) ==
    IF Acceptance(ms[j]) = "accepted" /\ Acceptance(ms[i]) \in {"proposed", "unverified"}
      THEN [v EXCEPT !.accepted = @ \cup {ms[j].id}, !.supersession = Unset,
                     !.section = "resolved_upstream_not_local", !.required = TRUE]
      ELSE v

Superseding(ms, v, i, j) ==
    [v EXCEPT !.accepted = @ \cup {ms[j].id}, !.supersession = ms[j].id,
              !.section = IF Upstream(ms, i, j) THEN "resolved_upstream_not_local"
                                                ELSE "superseded",
              !.required = Upstream(ms, i, j)]

Content(m) == [m EXCEPT !.branch = Unset, !.origin = Unset]

Consider(ms, v, i, j) ==
    CASE Content(ms[i]) = Content(ms[j]) -> v
      [] Content(ms[i]) # Content(ms[j]) /\ Upstream(ms, i, j) /\ ms[i].id = ms[j].id ->
           SameUpstream(ms, v, i, j)
      [] OTHER ->
           IF Acceptance(ms[j]) = "accepted" THEN Superseding(ms, v, i, j)
           ELSE IF Scope(ms[i]) = Scope(ms[j])
                  THEN [v EXCEPT !.proposed = @ \cup {ms[j].id}]
                  ELSE v

\* The verdict on record i after each of the records, which are considered in
\* their order if they are candidates.
Considered(ms, i) ==
    LET candidates == Candidates(ms, i)
        after[n \in 0 .. Len(ms)] ==
            IF n = 0 THEN Verdict(ms[i])
            ELSE IF n \in candidates THEN Consider(ms, after[n - 1], i, n)
            ELSE after[n - 1]
    IN  after

\* The last accepted replacement wins.
JudgedMutant(ms, i) == Considered(ms, i)[Len(ms)]

\* More than one accepted replacement undoes what they did.
Judged(ms, i) ==
    LET v == Considered(ms, i)[Len(ms)]
    IN  IF Cardinality(v.accepted) > 1
          THEN [v EXCEPT !.supersession = Unset, !.section = Section(ms[i]),
                         !.required = TRUE, !.conflicts = v.accepted]
          ELSE v

\* The ids a record replaces in its own scope.
Targets(ms, i) ==
    {ms[j].id : j \in {k \in DOMAIN ms : Scope(ms[k]) = Scope(ms[i]) /\ Replaces(ms, i, k)}}

\* Two accepted records contradict each other: versions of one record on two
\* branches, or two records that replace the same one.
Contradict(ms, i, j) ==
    LET a == ms[i]
        b == ms[j]
    IN /\ i # j /\ Acceptance(a) = "accepted" /\ Acceptance(b) = "accepted"
       /\ a.origin = b.origin
       /\ \/ a.id = b.id /\ a.branch # b.branch /\ Content(a) # Content(b)
          \/ a.id # b.id /\ Targets(ms, i) \cap Targets(ms, j) # {}
       /\ b.id \notin Targets(ms, i) /\ a.id \notin Targets(ms, j)

Reconciled(ms) ==
    [i \in DOMAIN ms |->
        LET v == Judged(ms, i)
            against == {ms[j].id : j \in {k \in DOMAIN ms : Contradict(ms, i, k)}}
        IN [v EXCEPT !.conflicts = @ \cup against, !.required = @ \/ against # {}]]

----------------------------------------------------------------------------

PolicyInit == members = <<>>

\* Another record of the view: a source has one record of an id in a scope,
\* and the upstream ones come last.
AddRecord(m) ==
    /\ Len(members) < MaxRecords
    /\ m.origin = "local" => \A n \in DOMAIN members : members[n].origin = "local"
    /\ \A n \in DOMAIN members : <<members[n].id, Scope(members[n])>> # <<m.id, Scope(m)>>
    /\ members' = Append(members, m)

PolicyNext == \E m \in Records : AddRecord(m)

PolicySpec == PolicyInit /\ [][PolicyNext]_members

----------------------------------------------------------------------------
(* Properties *)

PolicyTypeOK == members \in Seq(Records)

\* A record that must be shown disappears from a briefing only for one other
\* record of its own branch that somebody entitled has accepted, that is linked
\* with it by an unambiguous reference, and that no second one contends with.
OnlyApprovedReplaces ==
    LET result == Reconciled(members) IN
    \A i \in DOMAIN members :
        MustShow(members[i]) /\ ~result[i].required =>
            \E j \in DOMAIN members :
                /\ j # i /\ Scope(members[j]) = Scope(members[i])
                /\ members[j].status \in Accepted
                /\ Approvers # Unset =>
                       (IF members[j].decider = Unset THEN ~RequireAttribution
                        ELSE members[j].decider \in Approvers)
                /\ result[i].supersession = members[j].id
                /\ \A k \in DOMAIN members :
                       /\ Replaces(members, k, i) \/ ReplacedBy(members, i, k)
                       /\ Acceptance(members[k]) = "accepted"
                       /\ members[k].id # members[i].id
                       => members[k].id = members[j].id

\* Which branch is read first and how a source sorts its records changes
\* nothing: two neighbours of one origin may change places.
OrderIrrelevant ==
    \A n \in 1 .. Len(members) - 1 :
        members[n].origin = members[n + 1].origin =>
            LET swapped == [members EXCEPT ![n] = members[n + 1], ![n + 1] = members[n]]
                of(i) == CASE i = n -> n + 1 [] i = n + 1 -> n [] OTHER -> i
            IN \A i \in DOMAIN members : Reconciled(swapped)[of(i)] = Reconciled(members)[i]
=============================================================================
