----------------------------- MODULE Reconcile -----------------------------
(***************************************************************************)
(* Reconciliation: how a command turns the project's files into a view      *)
(* (src/src/reconcile.rs, publication.rs and Store::publish) while people   *)
(* and tools keep editing those files.                                      *)
(*                                                                         *)
(* A command reads its inputs one at a time, so a pass over them is not a   *)
(* snapshot.  It makes up to Attempts attempts.  An attempt reads all       *)
(* inputs; if they hash like the current view, that view is the answer.     *)
(* Otherwise a second pass must agree with the first, and a third pass,     *)
(* made inside the open publication transaction, must agree again before    *)
(* the transaction commits.  After the commit the ledger gets a copy of     *)
(* what was observed, so that the loss of the index cannot hide the loss of *)
(* a source.                                                               *)
(*                                                                         *)
(* The inputs are the configuration (which sources to read) and the sources *)
(* 1..N in their order.  Git state, branch tips, evidence files and         *)
(* tombstone files are read and compared the same way and are not told      *)
(* apart from sources here.  The lock of Store makes commands exclude each  *)
(* other, so one runs at a time.                                           *)
(*                                                                         *)
(* A definition named ...Mutant is the definition after it with a bug.      *)
(***************************************************************************)
EXTENDS Integers, FiniteSets, Sequences

CONSTANTS
    Kind,        \* of every source: "notes", "doc" or "adapter"
    Attempts,    \* reconciliation attempts of one command
    MaxEdits,    \* bound on the edits of the environment
    Churning,    \* TRUE: the environment may also edit without end
    MirrorCrash, \* TRUE: a command may die before its ledger copy is written
    NoView,      \* there is no view
    NoIndex      \* there is no readable index

Source == 1..Len(Kind)
Notes == {c \in Source : Kind[c] = "notes"}
Adapter == {c \in Source : Kind[c] = "adapter"}

ASSUME KindAssumption == Kind \in Seq({"notes", "doc", "adapter"})
ASSUME BoundAssumption == Attempts \in Nat \ {0} /\ MaxEdits \in Nat
ASSUME SwitchAssumption == Churning \in BOOLEAN /\ MirrorCrash \in BOOLEAN

VARIABLES
    cfg,       \* the configuration file
    src,       \* what the sources hold
    now,       \* number of edits so far (history)
    past,      \* past[t]: the files after t edits (history)
    db,        \* the selected generation, or NoIndex
    archive,   \* an older readable generation, or NoIndex
    seen,      \* ledger: identity rows note_source_seen
    had,       \* ledger: source_inventory.had_items
    known,     \* ledger: identity row source_ids
    pc,        \* where the command is
    allow,     \* ReadRequest.allow_source_removal
    replacing, \* Store.replacement
    prev,      \* Store.previous
    began,     \* number of edits when the command began (history)
    attempt,   \* attempts made
    work,      \* the generation the command has open
    rd,        \* what the running pass has read so far
    snap,      \* what the first pass of the attempt read
    txn,       \* number of edits when the transaction opened (history)
    answer,    \* what the command returns
    shown,     \* notes sources in some view a command returned (history)
    accepted   \* the configuration of the last fresh answer (history)

files == <<cfg, src, now, past>>
store == <<db, archive, seen, had, known>>
request == <<allow, replacing, prev, began>>
session == <<attempt, work, rd, snap, txn>>
told == <<answer, shown, accepted>>
vars == <<files, store, pc, request, session, told>>

\* A source that is there has content, told apart by a stamp of its own; an
\* absent one is just absent.  A broken source is there and does not parse.
Absent == [kind |-> "absent", stamp |-> 0]
Content == {Absent} \cup [kind : {"good", "broken"}, stamp : 0..MaxEdits]
Config == [sources : SUBSET Source, stamp : 0..MaxEdits]
Files == [config : Config, source : [Source -> Content]]

Hash == [inputs : Files, versions : SUBSET (Source \X (0..MaxEdits))]
View == [hash : Hash, status : {"current", "incomplete"}, since : 0..MaxEdits]
Index == [view : View \cup {NoView}, versions : SUBSET (Source \X (0..MaxEdits)),
          noted : SUBSET Notes, sources : SUBSET Source]
Pass == [config : Config,
         source : UNION {[1..n -> Content] : n \in 0..Len(Kind)}]

NoPass == [config |-> [sources |-> {}, stamp |-> 0], source |-> << >>]
EmptyIndex == [view |-> NoView, versions |-> {}, noted |-> {}, sources |-> {}]
NoAnswer == [kind |-> "none", view |-> NoView]

TypeOK ==
    /\ cfg \in Config
    /\ src \in [Source -> Content]
    /\ now \in 0..MaxEdits
    /\ past \in [0..now -> Files]
    /\ db \in Index \cup {NoIndex}
    /\ archive \in Index \cup {NoIndex}
    /\ seen \subseteq Notes
    /\ had \in BOOLEAN
    /\ known \subseteq Source
    /\ pc \in {"idle", "load", "snapshot", "verify", "guard", "mirror",
               "select", "done"}
    /\ allow \in BOOLEAN
    /\ replacing \in BOOLEAN
    /\ prev \in Index \cup {NoIndex}
    /\ began \in 0..now
    /\ attempt \in 0..Attempts
    /\ work \in Index
    /\ rd \in Pass
    /\ snap \in Pass
    /\ txn \in 0..now
    /\ answer \in [kind : {"none", "fresh", "stale", "error"},
                   view : View \cup {NoView}]
    /\ shown \subseteq Notes
    /\ accepted \in Config

Init ==
    /\ cfg = [sources |-> Source, stamp |-> 0]
    /\ src \in [Source -> {Absent, [kind |-> "good", stamp |-> 0]}]
    /\ now = 0
    /\ past = [t \in {0} |-> [config |-> cfg, source |-> src]]
    /\ db = NoIndex
    /\ archive = NoIndex
    /\ seen = {}
    /\ had = FALSE
    /\ known = {}
    /\ pc = "idle"
    /\ allow = FALSE
    /\ replacing = FALSE
    /\ prev = NoIndex
    /\ began = 0
    /\ attempt = 0
    /\ work = EmptyIndex
    /\ rd = NoPass
    /\ snap = NoPass
    /\ txn = 0
    /\ answer = NoAnswer
    /\ shown = {}
    /\ accepted = NoPass.config

-----------------------------------------------------------------------------
(* What a complete pass p says.                                            *)

Good(p) == {c \in Source : p.source[c].kind = "good"}
Broken(p) == {c \in Source : p.source[c].kind = "broken"}

\* item_versions of the items a pass parsed.
VersionsOf(p) == {<<c, p.source[c].stamp>> : c \in Good(p)}

\* Only the open index remembers.
NoteSourceSeenMutant(c) == c \in work.noted

\* note_source_seen: the ledger, the open index, or the one it replaces.
NoteSourceSeen(c) ==
    \/ c \in seen
    \/ c \in work.noted
    \/ prev # NoIndex /\ c \in prev.noted

\* coverage.sources_missing and coverage.sources_paused.
Missing(p) ==
    {c \in p.config.sources : /\ p.source[c].kind = "absent"
                              /\ c \in Notes => NoteSourceSeen(c)}
Paused(p) == Broken(p) \ Adapter
Incomplete(p) == Missing(p) \cup Broken(p) # {}

\* Configured before, in the open index or in the ledger, and not any more.
\* Ids of adapters (harness-...) are left out.
RemovedSources(config) ==
    (work.sources \cup known) \ (config.sources \cup Adapter)

\* inputs_hash: what was read, and every version that is or will be indexed.
InputsHash(p) == [inputs |-> p, versions |-> work.versions \cup VersionsOf(p)]

PreviousView ==
    IF work.view # NoView THEN work.view
    ELSE IF prev # NoIndex THEN prev.view
    ELSE NoView

HasMembers(v) == v # NoView /\ Good(v.hash.inputs) # {}

-----------------------------------------------------------------------------
(* The command.                                                            *)

\* Service::open: the selected index is reused, or a new one is begun and the
\* selected one (or else the newest archive) is kept open as the previous one.
Begin(rebuild, removal) ==
    /\ pc = "idle"
    /\ IF db # NoIndex /\ ~rebuild
       THEN replacing' = FALSE /\ work' = db /\ prev' = NoIndex
       ELSE /\ replacing' = TRUE
            /\ work' = EmptyIndex
            /\ prev' = IF db # NoIndex THEN db ELSE archive
    /\ allow' = removal
    /\ began' = now
    /\ attempt' = 1
    /\ pc' = "load"
    /\ UNCHANGED <<files, store, rd, snap, txn, told>>

Answer(kind, view) ==
    /\ answer' = [kind |-> kind, view |-> view]
    /\ pc' = "done"

\* An attempt loads the configuration; a source that disappeared from it needs
\* the user's consent (source_identity_missing).
LoadConfig ==
    /\ pc = "load"
    /\ IF RemovedSources(cfg) # {} /\ ~allow
       THEN Answer("error", NoView) /\ UNCHANGED rd
       ELSE /\ rd' = [config |-> cfg, source |-> << >>]
            /\ pc' = "snapshot"
            /\ UNCHANGED answer
    /\ UNCHANGED <<files, store, request, attempt, work, snap, txn, shown, accepted>>

Reading == {"snapshot", "verify", "guard"}
FullPass == DOMAIN rd.source = Source

\* One source of a pass; nothing keeps the others from changing meanwhile.
ReadSource ==
    /\ pc \in Reading
    /\ ~FullPass
    /\ LET c == Len(rd.source) + 1
           content == IF c \in rd.config.sources THEN src[c] ELSE Absent
       IN  rd' = [rd EXCEPT !.source =
                     [d \in 1..c |-> IF d = c THEN content ELSE @[d]]]
    /\ UNCHANGED <<files, store, pc, request, attempt, work, snap, txn, told>>

\* Only what was parsed is compared.
IsCurrentMutant == work.view # NoView /\ ~replacing
                       /\ work.view.hash.versions = InputsHash(rd).versions

IsCurrent == work.view # NoView /\ work.view.hash = InputsHash(rd) /\ ~replacing

Tell(p) == /\ shown' = shown \cup (Notes \cap Good(p))
           /\ accepted' = p.config

ReturnCurrent ==
    /\ pc = "snapshot"
    /\ FullPass
    /\ IsCurrent
    /\ Answer("fresh", work.view)
    /\ Tell(rd)
    /\ UNCHANGED <<files, store, request, session>>

\* A further pass begins with the configuration.
StartPass(next) ==
    /\ rd' = [config |-> cfg, source |-> << >>]
    /\ pc' = next

StartVerification ==
    /\ pc = "snapshot"
    /\ FullPass
    /\ ~IsCurrent
    /\ snap' = rd
    /\ StartPass("verify")
    /\ UNCHANGED <<files, store, request, attempt, work, txn, told>>

\* The configuration is compared as soon as it is read, the rest at the end.
PassFails == rd.config # snap.config \/ (FullPass /\ rd # snap)
PassAgrees == FullPass /\ rd = snap

\* A source race costs no attempt.
NextAttemptMutant == IF pc = "guard" THEN attempt ELSE attempt + 1

\* Every attempt counts, whichever pass ended it.
NextAttempt == attempt + 1

\* for _ in 0..3
MayRetry == attempt < Attempts

Retry ==
    /\ pc \in {"verify", "guard"}
    /\ PassFails
    /\ MayRetry
    /\ attempt' = NextAttempt
    /\ pc' = "load"
    /\ UNCHANGED <<files, store, request, work, rd, snap, txn, told>>

\* source_race or no_consistent_view.
GiveUp ==
    /\ pc \in {"verify", "guard"}
    /\ PassFails
    /\ ~MayRetry
    /\ IF PreviousView # NoView THEN Answer("stale", PreviousView)
                                ELSE Answer("error", NoView)
    /\ UNCHANGED <<files, store, request, session, shown, accepted>>

\* Paused sources are forgotten.
UnavailableMutant ==
    /\ Good(snap) = {}
    /\ Missing(snap) # {}
    /\ had \/ snap.config.sources \ (Notes \cup Adapter) # {}

\* Nothing can be read although something should be there.
Unavailable ==
    /\ Good(snap) = {}
    /\ Missing(snap) \cup Paused(snap) # {}
    /\ had \/ snap.config.sources \ (Notes \cup Adapter) # {}

\* recovery_limit_reached: the last evidence is kept, or the command fails.
\* A missing adapter alone does not make it fail.
Keeps == Unavailable /\ HasMembers(PreviousView)
Refuses == /\ Unavailable
           /\ ~HasMembers(PreviousView)
           /\ (Missing(snap) \ Adapter) \cup Paused(snap) # {}

KeepEvidence ==
    /\ pc = "verify"
    /\ PassAgrees
    /\ \/ Keeps /\ Answer("stale", PreviousView)
       \/ Refuses /\ Answer("error", NoView)
    /\ UNCHANGED <<files, store, request, session, shown, accepted>>

OpenTransaction ==
    /\ pc = "verify"
    /\ PassAgrees
    /\ ~Keeps
    /\ ~Refuses
    /\ txn' = now
    /\ StartPass("guard")
    /\ UNCHANGED <<files, store, request, attempt, work, snap, told>>

NewView == [hash |-> InputsHash(snap),
            status |-> IF Incomplete(snap) THEN "incomplete" ELSE "current",
            since |-> began]

\* The transaction commits without looking at the sources again.
GuardPassesMutant == TRUE

GuardPasses == PassAgrees

Commit ==
    /\ pc = "guard"
    /\ GuardPasses
    /\ work' = [view |-> NewView,
                versions |-> work.versions \cup VersionsOf(snap),
                noted |-> work.noted \cup (Notes \cap Good(snap)),
                sources |-> snap.config.sources]
    /\ db' = IF replacing THEN db ELSE work'
    /\ pc' = "mirror"
    /\ UNCHANGED <<files, archive, seen, had, known, request, attempt, rd,
                   snap, txn, told>>

\* The row is only ever added to.
MirroredSourcesMutant == known \cup snap.config.sources

\* identity row source_ids: INSERT OR REPLACE of the published source ids.
MirroredSources == snap.config.sources

\* After the commit the ledger is written row by row: first the source ids,
\* then the notes sources, then had_items.
MirrorSources ==
    /\ pc = "mirror"
    /\ known # MirroredSources
    /\ known' = MirroredSources
    /\ UNCHANGED <<files, db, archive, seen, had, pc, request, session, told>>

MirrorNote(c) ==
    /\ pc = "mirror"
    /\ known = MirroredSources
    /\ c \in (Notes \cap Good(snap)) \ seen
    /\ seen' = seen \cup {c}
    /\ UNCHANGED <<files, db, archive, had, known, pc, request, session, told>>

MirrorInventory ==
    /\ pc = "mirror"
    /\ known = MirroredSources
    /\ Notes \cap Good(snap) \subseteq seen
    /\ had' = (had \/ Good(snap) # {})
    /\ pc' = "select"
    /\ UNCHANGED <<files, db, archive, seen, known, request, session, told>>

\* A replacement is selected and the one it replaces becomes an archive.
SelectAndReturn ==
    /\ pc = "select"
    /\ IF replacing
       THEN db' = work /\ archive' = IF db # NoIndex THEN db ELSE archive
       ELSE UNCHANGED <<db, archive>>
    /\ Answer("fresh", work.view)
    /\ Tell(snap)
    /\ UNCHANGED <<files, seen, had, known, request, session>>

\* The process is gone, and with it all it knew.
Exit ==
    /\ pc' = "idle"
    /\ allow' = FALSE
    /\ replacing' = FALSE
    /\ prev' = NoIndex
    /\ began' = 0
    /\ attempt' = 0
    /\ work' = EmptyIndex
    /\ rd' = NoPass
    /\ snap' = NoPass
    /\ txn' = 0
    /\ answer' = NoAnswer
    /\ UNCHANGED <<files, store, shown, accepted>>

Finish == pc = "done" /\ Exit

Crash ==
    /\ pc \notin {"idle", "done"}
    /\ pc = "mirror" => MirrorCrash
    /\ Exit

-----------------------------------------------------------------------------
(* The environment.                                                        *)

Edited(config, source) ==
    /\ cfg' = config
    /\ src' = source
    /\ now' = now + 1
    /\ past' = [t \in 0..(now + 1) |->
                   IF t <= now THEN past[t]
                   ELSE [config |-> config, source |-> source]]
    /\ UNCHANGED <<store, pc, request, session, told>>

\* A source is rewritten, broken or removed.  New content is unlike all
\* earlier content of the source; only absence can come back.
EditSource(c, kind) ==
    /\ now < MaxEdits
    /\ src[c].kind # "absent" \/ kind # "absent"
    /\ Edited(cfg, [src EXCEPT ![c] =
                       IF kind = "absent" THEN Absent
                       ELSE [kind |-> kind, stamp |-> now + 1]])

EditConfig(sources) ==
    /\ now < MaxEdits
    /\ Edited([sources |-> sources, stamp |-> now + 1], src)

\* For liveness: edits without end, between two contents.
Churn(c) ==
    /\ Churning
    /\ src[c].kind = "good"
    /\ src' = [src EXCEPT ![c].stamp = IF @ = 0 THEN 1 ELSE 0]
    /\ UNCHANGED <<cfg, now, past, store, pc, request, session, told>>

\* The selected index, or an archive, cannot be read any more.
LoseIndex ==
    /\ pc = "idle"
    /\ db # NoIndex
    /\ db' = NoIndex
    /\ UNCHANGED <<files, archive, seen, had, known, pc, request, session, told>>

LoseArchive ==
    /\ pc = "idle"
    /\ archive # NoIndex
    /\ archive' = NoIndex
    /\ UNCHANGED <<files, db, seen, had, known, pc, request, session, told>>

Working ==
    \/ LoadConfig \/ ReadSource \/ ReturnCurrent \/ StartVerification
    \/ Retry \/ GiveUp \/ KeepEvidence \/ OpenTransaction \/ Commit
    \/ MirrorSources \/ (\E c \in Notes : MirrorNote(c)) \/ MirrorInventory
    \/ SelectAndReturn \/ Finish

Environment ==
    \/ \E c \in Source, kind \in {"good", "broken", "absent"} : EditSource(c, kind)
    \/ \E sources \in SUBSET Source : EditConfig(sources)
    \/ \E c \in Source : Churn(c)
    \/ LoseIndex
    \/ LoseArchive

Next ==
    \/ \E rebuild, removal \in BOOLEAN : Begin(rebuild, removal)
    \/ Working
    \/ Crash
    \/ Environment

\* A command that is running keeps running.  Nothing makes the environment
\* edit, a command crash or a command start.
Spec == Init /\ [][Next]_vars /\ WF_vars(Working)

-----------------------------------------------------------------------------
(* Properties.                                                             *)

\* What a pass that met the files in one state would have read.
Reads(state) ==
    [state EXCEPT !.source = [c \in Source |->
        IF c \in state.config.sources THEN state.source[c] ELSE Absent]]

\* Since edit t no source went away and came back, or the other way round:
\* the one change a comparison of contents cannot notice.
NothingReturned(t) ==
    \A c \in Source : \A i, j, k \in t..now :
        i < j /\ j < k /\ past[i].source[c] = past[k].source[c]
            => past[j].source[c] = past[i].source[c]

\* A view answered as fresh shows the files as they really were at one moment
\* while the command ran, although it read them one by one.
AnswerWasTrue ==
    pc = "done" /\ answer.kind = "fresh" /\ NothingReturned(answer.view.since)
        => \E t \in began..now : Reads(past[t]) = answer.view.hash.inputs

\* What is committed was true at a moment when the transaction was already
\* open, so a slow transaction never publishes what was gone before it began.
CommitWasTrue ==
    [][pc = "guard" /\ pc' = "mirror" /\ NothingReturned(began)
           => \E t \in txn..now : Reads(past[t]) = snap]_vars

\* Files that did not change are not published again.
NoIdlePublication ==
    [][pc = "guard" /\ pc' = "mirror" /\ ~replacing /\ work.view # NoView
           => work.view.hash.inputs # snap]_vars

\* Notes a user was once shown are not silently gone: as long as their source
\* is configured and empty, no answer passes for complete ("If a configured
\* source goes missing, memq reports it", docs/usage.md:167).
LossDisclosed ==
    pc = "done" /\ answer.kind = "fresh" /\ answer.view.status = "current" =>
        \A c \in shown \cap answer.view.hash.inputs.config.sources :
            answer.view.hash.inputs.source[c].kind # "absent"

\* A view with evidence is not replaced by an empty one while the sources that
\* held it cannot be read ("and keeps the saved evidence", docs/usage.md:167).
EvidenceKept ==
    [][pc = "guard" /\ pc' = "mirror" /\ HasMembers(PreviousView)
           /\ Good(snap) = {}
               => Missing(snap) \cup Paused(snap) = {}]_vars

\* A command that answered has accepted the configuration it answered for: as
\* long as nobody edits it, no later command asks for consent to a removal
\* ("run `memq reconcile --allow-source-removal` to accept that config change",
\* docs/usage.md:168).
RemovalStaysAccepted ==
    [][pc = "load" /\ cfg = accepted => pc' # "done"]_vars

\* Every command ends, however fast the sources change.
Terminates == pc # "idle" ~> pc = "idle"
=============================================================================
