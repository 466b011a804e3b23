------------------------------- MODULE Remote -------------------------------
(***************************************************************************)
(* Observing the configured remote branch (src/src/remote.rs).             *)
(*                                                                         *)
(* A command fetches the branch into a ref of its own, at most once in     *)
(* MinInterval, and remembers what it saw in a row of the ledger that is   *)
(* named after the remote and its url.  The fetch is a bounded child (see  *)
(* Process): it may move the ref and still be killed, and it lives on when *)
(* only the command dies.  While all this happens the branch moves, the    *)
(* clock is set, and people change the url or the push configuration.      *)
(*                                                                         *)
(* A tip is the upstream repository it was read from and how often its     *)
(* branch had moved.  The number of incoming commits follows from the tip  *)
(* and is left out; a name or ref that is not valid, and a remote without  *)
(* exactly one url, are the same as an unsafe push configuration: the      *)
(* command answers without looking at its row.  At most one fetch outlives  *)
(* its command at a time.                                                   *)
(* A definition named ...Mutant is the definition after it with a bug.      *)
(***************************************************************************)
EXTENDS Integers, FiniteSets

CONSTANTS
    Url,         \* the upstream repositories, each the scope of a row
    MinInterval, \* min_interval_seconds
    MaxNow,      \* bound on the clock
    MaxMoves,    \* bound on the movements of an upstream branch
    MaxTurns,    \* bound on how often people change the configuration
    NoTip        \* there is no tip, row or time

ASSUME MinIntervalAssumption == MinInterval \in Nat
ASSUME MaxNowAssumption == MaxNow \in Nat
ASSUME MaxMovesAssumption == MaxMoves \in Nat
ASSUME MaxTurnsAssumption == MaxTurns \in Nat
ASSUME NoTipAssumption == NoTip \notin Nat /\ NoTip \notin (Url \X Nat)

VARIABLES
    upstream,  \* how often the branch of each repository has moved
    clock,     \* the wall clock
    url,       \* the configured url
    unsafePush,\* whether a push could publish observation refs
    turns,     \* how often url, push configuration and clock were changed
    ref,       \* refs/memq/observe/...: the tip it names
    rows,      \* table remote_observations, by scope
    fetches,   \* the fetch of the command and one that outlived its command
    observeAt, \* where the command is
    scope,     \* the scope it works for
    row,       \* the row it loaded
    now,       \* when it loaded it
    since,     \* how often each branch had moved by then (history)
    disturbed  \* whether the url has changed or an orphan was there since (history)

world == <<upstream, clock, url, unsafePush, turns>>
command == <<observeAt, scope, row, now, since, disturbed>>
remoteVars == <<world, ref, rows, fetches, command>>

Tip == Url \X (0 .. MaxMoves)
TipOrNone == Tip \cup {NoTip}

\* since and undisturbed are history: how often the branch had moved when the
\* observation began, and whether the url and the ref were left alone in it.
Row == [status : {"unknown", "observed", "failed"}, tip : TipOrNone,
        lastAttempt : (0 .. MaxNow) \cup {NoTip}, since : 0 .. MaxMoves,
        undisturbed : BOOLEAN]

Unknown == [status |-> "unknown", tip |-> NoTip, lastAttempt |-> NoTip,
            since |-> 0, undisturbed |-> TRUE]

\* A fetch has read the tip at the url and the tip its ref had.
Fetch == [at : {"none", "asked", "read", "moved"}, tip : TipOrNone, old : TipOrNone]

NoFetch == [at |-> "none", tip |-> NoTip, old |-> NoTip]

Slot == {"own", "orphan"}

RemoteTypeOK ==
    /\ upstream \in [Url -> 0 .. MaxMoves]
    /\ clock \in 0 .. MaxNow /\ now \in 0 .. MaxNow
    /\ url \in Url /\ scope \in Url
    /\ unsafePush \in BOOLEAN /\ disturbed \in BOOLEAN
    /\ turns \in 0 .. MaxTurns
    /\ ref \in TipOrNone
    /\ rows \in [Url -> Row] /\ row \in Row
    /\ fetches \in [Slot -> Fetch]
    /\ since \in [Url -> 0 .. MaxMoves]
    /\ observeAt \in {"idle", "loaded", "fetching", "succeeded", "failed"}

RemoteInit ==
    /\ upstream = [u \in Url |-> 0]
    /\ clock = 0 /\ now = 0
    /\ url \in Url /\ scope = url
    /\ unsafePush = FALSE /\ disturbed = FALSE
    /\ turns = 0
    /\ ref = NoTip
    /\ rows = [u \in Url |-> Unknown] /\ row = Unknown
    /\ fetches = [slot \in Slot |-> NoFetch]
    /\ since = upstream
    /\ observeAt = "idle"

----------------------------------------------------------------------------
(* The world *)

Push(u) ==
    /\ upstream[u] < MaxMoves
    /\ upstream' = [upstream EXCEPT ![u] = @ + 1]
    /\ UNCHANGED <<clock, url, unsafePush, turns, ref, rows, fetches, command>>

Tick ==
    /\ clock < MaxNow
    /\ clock' = clock + 1
    /\ UNCHANGED <<upstream, url, unsafePush, turns, ref, rows, fetches, command>>

\* The clock is set back, the url or the push configuration changes.
Reconfigure ==
    /\ turns < MaxTurns
    /\ turns' = turns + 1
    /\ \/ clock' \in 0 .. clock - 1 /\ UNCHANGED <<url, unsafePush, disturbed>>
       \/ /\ url' \in Url \ {url}
          /\ disturbed' = (observeAt # "idle")
          /\ UNCHANGED <<clock, unsafePush>>
       \/ unsafePush' = ~unsafePush /\ UNCHANGED <<clock, url, disturbed>>
    /\ UNCHANGED <<upstream, ref, rows, fetches, observeAt, scope, row, now, since>>

----------------------------------------------------------------------------
(* The fetch *)

\* The url is looked up again: the command passes the name of the remote.
FetchReads(slot) ==
    /\ fetches[slot].at = "asked"
    /\ fetches' = [fetches EXCEPT ![slot] =
                      [at |-> "read", tip |-> <<url, upstream[url]>>, old |-> ref]]
    /\ UNCHANGED <<world, ref, rows, command>>

\* A ref that was there must still name what the fetch has read; one that was
\* not there is made whatever was made meanwhile.
FetchMoves(slot) ==
    /\ fetches[slot].at = "read"
    /\ fetches[slot].old \in {NoTip, ref}
    /\ ref' = fetches[slot].tip
    /\ fetches' = [fetches EXCEPT ![slot].at = "moved"]
    /\ UNCHANGED <<world, rows, command>>

\* Nobody waits for it.
OrphanEnds ==
    /\ fetches["orphan"].at # "none"
    /\ fetches' = [fetches EXCEPT !["orphan"] = NoFetch]
    /\ UNCHANGED <<world, ref, rows, command>>

----------------------------------------------------------------------------
(* observe *)

Load ==
    /\ observeAt = "idle"
    /\ observeAt' = "loaded"
    /\ scope' = url
    /\ row' = rows[url]
    /\ now' = clock
    /\ since' = upstream
    /\ disturbed' = (fetches["orphan"].at # "none")
    /\ UNCHANGED <<world, ref, rows, fetches>>

\* The command ends; its locals are forgotten.
Return ==
    /\ observeAt' = "idle"
    /\ row' = Unknown /\ now' = 0
    /\ since' = [u \in Url |-> 0] /\ disturbed' = FALSE
    /\ UNCHANGED scope

Due ==
    row.lastAttempt # NoTip =>
        now < row.lastAttempt \/ now - row.lastAttempt >= MinInterval

\* The operation does not refresh, or it is too soon, or the push
\* configuration is unsafe: there is no fetch.
Answer ==
    /\ observeAt = "loaded"
    /\ Return
    /\ UNCHANGED <<world, ref, rows, fetches>>

StartFetch ==
    /\ observeAt = "loaded"
    /\ Due /\ ~unsafePush
    /\ observeAt' = "fetching"
    /\ fetches' = [fetches EXCEPT !["own"].at = "asked"]
    /\ UNCHANGED <<world, ref, rows, scope, row, now, since, disturbed>>

\* bounded returned output.  A fetch succeeds when it has moved the ref; it
\* may fail or be killed after that, too.
FetchEnds ==
    /\ observeAt = "fetching"
    /\ \/ fetches["own"].at = "moved" /\ observeAt' = "succeeded"
       \/ observeAt' = "failed"
    /\ fetches' = [fetches EXCEPT !["own"] = NoFetch]
    /\ UNCHANGED <<world, ref, rows, scope, row, now, since, disturbed>>

\* bounded failed, or rev-parse did after the fetch: nothing is recorded, not
\* even the attempt.
Fails ==
    /\ observeAt \in {"fetching", "succeeded"}
    /\ Return
    /\ fetches' = [fetches EXCEPT !["own"] = NoFetch]
    /\ UNCHANGED <<world, ref, rows>>

ObservedMutant(success) ==
    [status |-> IF success THEN "observed" ELSE "failed", tip |-> ref,
     lastAttempt |-> now, since |-> since[scope], undisturbed |-> ~disturbed]

\* The row after an attempt.  A failure keeps the tip and when it was seen.
Observed(success) ==
    IF success
      THEN [status |-> "observed", tip |-> ref, lastAttempt |-> now,
            since |-> since[scope], undisturbed |-> ~disturbed]
      ELSE [row EXCEPT !.status = "failed", !.lastAttempt = now]

Record ==
    /\ observeAt \in {"succeeded", "failed"}
    /\ rows' = [rows EXCEPT ![scope] = Observed(observeAt = "succeeded")]
    /\ Return
    /\ UNCHANGED <<world, ref, fetches>>

\* The command dies; its fetch does not.
Die ==
    /\ observeAt # "idle"
    /\ Return
    /\ \/ fetches["own"].at = "none" /\ UNCHANGED fetches
       \/ /\ fetches["own"].at # "none"
          /\ fetches["orphan"].at = "none"
          /\ fetches' = [own |-> NoFetch, orphan |-> fetches["own"]]
    /\ UNCHANGED <<world, ref, rows>>

RemoteNext ==
    \/ \E u \in Url : Push(u)
    \/ Tick \/ Reconfigure
    \/ \E slot \in Slot : FetchReads(slot) \/ FetchMoves(slot)
    \/ OrphanEnds
    \/ Load \/ Answer \/ StartFetch \/ FetchEnds \/ Fails \/ Record \/ Die

RemoteSpec == RemoteInit /\ [][RemoteNext]_remoteVars

----------------------------------------------------------------------------
(* Properties *)

\* A remembered tip belongs to the repository of its row, and the branch there
\* pointed to it at or after observed_at, whatever failed, was killed or died
\* since: unless the url changed during the observation, which looks it up
\* twice, or the fetch of a command that had died was still running.
TipWasUpstream ==
    \A u \in Url :
        rows[u].tip # NoTip /\ rows[u].undisturbed =>
            /\ rows[u].tip[1] = u
            /\ rows[u].tip[2] \in rows[u].since .. upstream[u]
=============================================================================
