------------------------------- MODULE Store -------------------------------
(***************************************************************************)
(* The generation store of one clone (src/src/store.rs).                   *)
(*                                                                         *)
(* A clone keeps a permanent ledger (access.sqlite) and any number of      *)
(* replaceable index generations (generations/<ulid>/index.sqlite).  The   *)
(* file CURRENT names the selected generation; a file VERIFIED inside a    *)
(* generation says that it was published from completely once.  Every      *)
(* command opens the store under an OS lock, reuses the selected           *)
(* generation or builds a new one, and publishes views: it first takes a   *)
(* number from the ledger's publication clock, then commits one index      *)
(* transaction, then (for a new generation) writes VERIFIED and switches   *)
(* CURRENT.  A command may die between any two of these steps.             *)
(*                                                                         *)
(* A definition named ...Mutant is the definition after it with a bug a     *)
(* change of the code could plausibly introduce; nothing refers to it.      *)
(***************************************************************************)
EXTENDS Integers, FiniteSets

CONSTANTS
    Proc,      \* commands of the clone that may run at the same time
    Gen,       \* names a generation directory may get
    Scope,     \* view scopes (worktree, task, branches, incoming)
    NoProc,    \* the lock is free
    NoGen,     \* CURRENT is absent, or a command holds no generation
    MaxSeq     \* bound on the publication clock

ASSUME NoProcAssumption == NoProc \notin Proc
ASSUME NoGenAssumption == NoGen \notin Gen
ASSUME MaxSeqAssumption == MaxSeq \in Nat

VARIABLES
    lock,      \* owner of mutation.lock
    ledger,    \* "none", "present" or "lost": the file access.sqlite
    clock,     \* publication_clock.sequence in the ledger
    index,     \* state of every generation's index.sqlite
    views,     \* committed rows of every generation's table views
    head,      \* the row of a scope with is_current=1, by its number; 0: none
    verified,  \* generations holding a VERIFIED file
    marker,    \* the generation named by CURRENT
    pc,        \* where each command is
    gen,       \* the generation a command opened
    replacing, \* Store.replacement
    seq,       \* the number a command took for its publication
    scope,     \* the scope a command publishes
    returned   \* every view some command returned to its caller

durable == <<ledger, clock, index, views, head, verified, marker>>
local == <<pc, gen, replacing, seq, scope>>
vars == <<lock, durable, local, returned>>

Steps == {"idle", "locked", "select", "build", "schema", "ready",
          "numbered", "committed", "marked"}
IndexStates == {"none", "bare", "ok", "damaged", "corrupt"}

View == [scope : Scope, seq : 1..MaxSeq]

TypeOK ==
    /\ lock \in Proc \cup {NoProc}
    /\ ledger \in {"none", "present", "lost"}
    /\ clock \in 0..MaxSeq
    /\ index \in [Gen -> IndexStates]
    /\ views \in [Gen -> SUBSET View]
    /\ head \in [Gen -> [Scope -> 0..MaxSeq]]
    /\ verified \in SUBSET Gen
    /\ marker \in Gen \cup {NoGen}
    /\ pc \in [Proc -> Steps]
    /\ gen \in [Proc -> Gen \cup {NoGen}]
    /\ replacing \in [Proc -> BOOLEAN]
    /\ seq \in [Proc -> 0..MaxSeq]
    /\ scope \in [Proc -> Scope]
    /\ returned \in SUBSET (Gen \X View)

Init ==
    /\ lock = NoProc
    /\ ledger = "none"
    /\ clock = 0
    /\ index = [g \in Gen |-> "none"]
    /\ views = [g \in Gen |-> {}]
    /\ head = [g \in Gen |-> [s \in Scope |-> 0]]
    /\ verified = {}
    /\ marker = NoGen
    /\ pc = [p \in Proc |-> "idle"]
    /\ gen = [p \in Proc |-> NoGen]
    /\ replacing = [p \in Proc |-> FALSE]
    /\ seq = [p \in Proc |-> 0]
    /\ scope \in [Proc -> Scope]
    /\ returned = {}

-----------------------------------------------------------------------------
(* What can be read.                                                       *)

\* history_layout holds and quick_check passes: the rows can be read.
Healthy(g) == index[g] \in {"ok", "damaged"}

\* archive_connections: verified generations, and the one CURRENT names.
Archives(g) == {h \in Gen \ {g} : Healthy(h) /\ (h \in verified \/ h = marker)}

\* with_view_db, payload and history search the open index, then the archives.
Readable(g) == {e \in Gen \X View :
                   e[1] \in Archives(g) \cup {g} /\ e[2] \in views[e[1]]}

\* Something was built here before: CURRENT exists or generations/ is not empty.
Initialized == marker # NoGen \/ \E g \in Gen : index[g] # "none"

-----------------------------------------------------------------------------
(* Opening.                                                                *)

\* try_lock_exclusive: a second command gets in_progress and changes nothing.
FreeLock(p) == lock = NoProc

Acquire(p) ==
    /\ pc[p] = "idle"
    /\ FreeLock(p)
    /\ lock' = p
    /\ pc' = [pc EXCEPT ![p] = "locked"]
    /\ UNCHANGED <<durable, gen, replacing, seq, scope, returned>>

\* The lock dies with its holder; whatever the command knew is gone.
Release(p) ==
    /\ lock' = IF lock = p THEN NoProc ELSE lock
    /\ pc' = [pc EXCEPT ![p] = "idle"]
    /\ gen' = [gen EXCEPT ![p] = NoGen]
    /\ replacing' = [replacing EXCEPT ![p] = FALSE]
    /\ seq' = [seq EXCEPT ![p] = 0]
    /\ UNCHANGED scope

\* The check for an initialised store is dropped.
MayCreateLedgerMutant == TRUE

\* A store that was used before never gets a fresh ledger.
MayCreateLedger == ~Initialized

OpenLedger(p) ==
    /\ pc[p] = "locked"
    /\ \/ /\ ledger = "present"
          /\ UNCHANGED <<ledger, clock>>
       \/ /\ ledger # "present"
          /\ MayCreateLedger
          /\ ledger' = "present"
          /\ clock' = 0
    /\ pc' = [pc EXCEPT ![p] = "select"]
    /\ UNCHANGED <<lock, index, views, head, verified, marker,
                   gen, replacing, seq, scope, returned>>

\* access_state_incomplete: the command ends without touching anything.
RefuseLedger(p) ==
    /\ pc[p] = "locked"
    /\ ledger # "present"
    /\ ~MayCreateLedger
    /\ Release(p)
    /\ UNCHANGED <<durable, returned>>

\* The selected generation is usable as it is, and no rebuild was asked for.
SelectCurrent(p) ==
    /\ pc[p] = "select"
    /\ marker # NoGen
    /\ index[marker] = "ok"
    /\ verified' = verified \cup {marker}
    /\ gen' = [gen EXCEPT ![p] = marker]
    /\ pc' = [pc EXCEPT ![p] = "ready"]
    /\ UNCHANGED <<lock, ledger, clock, index, views, head, marker,
                   replacing, seq, scope, returned>>

\* Every readable generation is kept, not only the one that was selected.
SelectNewMutant(p) ==
    /\ pc[p] = "select"
    /\ verified' = verified \cup {g \in Gen : Healthy(g)}
    /\ replacing' = [replacing EXCEPT ![p] = TRUE]
    /\ pc' = [pc EXCEPT ![p] = "build"]
    /\ UNCHANGED <<lock, ledger, clock, index, views, head, marker,
                   gen, seq, scope, returned>>

\* Otherwise (no selection, a damaged or corrupt index, or `memq rebuild`) a
\* new generation is built.  A readable selected one is kept as VERIFIED first.
SelectNew(p) ==
    /\ pc[p] = "select"
    /\ verified' = verified \cup {g \in Gen : g = marker /\ Healthy(g)}
    /\ replacing' = [replacing EXCEPT ![p] = TRUE]
    /\ pc' = [pc EXCEPT ![p] = "build"]
    /\ UNCHANGED <<lock, ledger, clock, index, views, head, marker,
                   gen, seq, scope, returned>>

\* CURRENT is switched when the directory is made, before anything is in it.
MakeGenerationMutant(p, g) ==
    /\ pc[p] = "build"
    /\ index[g] = "none"
    /\ index' = [index EXCEPT ![g] = "bare"]
    /\ gen' = [gen EXCEPT ![p] = g]
    /\ marker' = g
    /\ pc' = [pc EXCEPT ![p] = "schema"]
    /\ UNCHANGED <<lock, ledger, clock, views, head, verified,
                   replacing, seq, scope, returned>>

MakeGeneration(p, g) ==
    /\ pc[p] = "build"
    /\ index[g] = "none"
    /\ index' = [index EXCEPT ![g] = "bare"]
    /\ gen' = [gen EXCEPT ![p] = g]
    /\ pc' = [pc EXCEPT ![p] = "schema"]
    /\ UNCHANGED <<lock, ledger, clock, views, head, verified, marker,
                   replacing, seq, scope, returned>>

CreateSchema(p) ==
    /\ pc[p] = "schema"
    /\ index' = [index EXCEPT ![gen[p]] = "ok"]
    /\ pc' = [pc EXCEPT ![p] = "ready"]
    /\ UNCHANGED <<lock, ledger, clock, views, head, verified, marker,
                   gen, replacing, seq, scope, returned>>

-----------------------------------------------------------------------------
(* Publishing.                                                             *)

\* UPDATE publication_clock SET sequence=sequence+1 ... RETURNING sequence.
NextNumber(p) == clock + 1

\* The number is taken from the ledger before the index transaction, in a
\* transaction of its own: a failed publication leaves a gap.
TakeNumber(p, s) ==
    /\ pc[p] = "ready"
    /\ clock < MaxSeq
    /\ clock' = NextNumber(p)
    /\ seq' = [seq EXCEPT ![p] = NextNumber(p)]
    /\ scope' = [scope EXCEPT ![p] = s]
    /\ pc' = [pc EXCEPT ![p] = "numbered"]
    /\ UNCHANGED <<lock, ledger, index, views, head, verified, marker,
                   gen, replacing, returned>>

\* validate_sources said no: the transaction rolls back, the caller retries.
SourceRace(p) ==
    /\ pc[p] = "numbered"
    /\ pc' = [pc EXCEPT ![p] = "ready"]
    /\ UNCHANGED <<lock, durable, gen, replacing, seq, scope, returned>>

NewView(p) == [scope |-> scope[p], seq |-> seq[p]]

\* The first row of a scope stays the current one.
HeadsMutant(p) ==
    [head[gen[p]] EXCEPT ![scope[p]] = IF @ = 0 THEN seq[p] ELSE @]

\* is_current is cleared for the scope and set for the new row.
Heads(p) == [head[gen[p]] EXCEPT ![scope[p]] = seq[p]]

\* One transaction inserts the new row and moves is_current to it.
Commit(p) ==
    /\ pc[p] = "numbered"
    /\ views' = [views EXCEPT ![gen[p]] = @ \cup {NewView(p)}]
    /\ head' = [head EXCEPT ![gen[p]] = Heads(p)]
    /\ pc' = [pc EXCEPT ![p] = "committed"]
    /\ UNCHANGED <<lock, ledger, clock, index, verified, marker,
                   gen, replacing, seq, scope, returned>>

\* The VERIFIED file is not written.
MarkVerifiedMutant(p) ==
    /\ pc[p] = "committed"
    /\ replacing[p]
    /\ pc' = [pc EXCEPT ![p] = "marked"]
    /\ UNCHANGED <<lock, durable, gen, replacing, seq, scope, returned>>

\* A replacement becomes readable, then selected, only after its first commit.
MarkVerified(p) ==
    /\ pc[p] = "committed"
    /\ replacing[p]
    /\ verified' = verified \cup {gen[p]}
    /\ pc' = [pc EXCEPT ![p] = "marked"]
    /\ UNCHANGED <<lock, ledger, clock, index, views, head, marker,
                   gen, replacing, seq, scope, returned>>

SwitchCurrent(p) ==
    /\ pc[p] = "marked"
    /\ marker' = gen[p]
    /\ replacing' = [replacing EXCEPT ![p] = FALSE]
    /\ pc' = [pc EXCEPT ![p] = "committed"]
    /\ UNCHANGED <<lock, ledger, clock, index, views, head, verified,
                   gen, seq, scope, returned>>

\* publish returns; the command may reconcile again in the same session.
PublishReturns(p) ==
    /\ pc[p] = "committed"
    /\ ~replacing[p]
    /\ returned' = returned \cup {<<gen[p], NewView(p)>>}
    /\ pc' = [pc EXCEPT ![p] = "ready"]
    /\ UNCHANGED <<lock, durable, gen, replacing, seq, scope>>

Finish(p) ==
    /\ pc[p] = "ready"
    /\ Release(p)
    /\ UNCHANGED <<durable, returned>>

Crash(p) ==
    /\ pc[p] # "idle"
    /\ Release(p)
    /\ UNCHANGED <<durable, returned>>

-----------------------------------------------------------------------------
(* What may happen to the files while no command holds the lock.           *)

\* A table, trigger or index is lost ("damaged": the rows survive), or the
\* file can no longer be read ("corrupt").
Damage(g, state) ==
    /\ lock = NoProc
    /\ index[g] \in {"ok", "damaged"}
    /\ state \in {"damaged", "corrupt"}
    /\ index' = [index EXCEPT ![g] = state]
    /\ UNCHANGED <<lock, ledger, clock, views, head, verified, marker,
                   local, returned>>

LoseMarker ==
    /\ lock = NoProc
    /\ marker # NoGen
    /\ marker' = NoGen
    /\ UNCHANGED <<lock, ledger, clock, index, views, head, verified,
                   local, returned>>

LoseLedger ==
    /\ lock = NoProc
    /\ ledger = "present"
    /\ ledger' = "lost"
    /\ UNCHANGED <<lock, clock, index, views, head, verified, marker,
                   local, returned>>

Opening(p) ==
    \/ Acquire(p) \/ OpenLedger(p) \/ RefuseLedger(p)
    \/ SelectCurrent(p) \/ SelectNew(p)
    \/ \E g \in Gen : MakeGeneration(p, g)
    \/ CreateSchema(p)

Publishing(p) ==
    \/ \E s \in Scope : TakeNumber(p, s)
    \/ SourceRace(p) \/ Commit(p)
    \/ MarkVerified(p) \/ SwitchCurrent(p) \/ PublishReturns(p)

Environment ==
    \/ \E g \in Gen, state \in {"damaged", "corrupt"} : Damage(g, state)
    \/ LoseMarker
    \/ LoseLedger

Next ==
    \/ \E p \in Proc : Opening(p) \/ Publishing(p) \/ Finish(p) \/ Crash(p)
    \/ Environment

Spec == Init /\ [][Next]_vars

-----------------------------------------------------------------------------
(* Properties.                                                             *)

\* The publication clock orders every view of the clone, whatever generation
\* holds it and however often a command died: a row that is committed has a
\* larger number than every row committed before it ("a failed publication may
\* leave a gap, but cannot make a later view appear older", store.rs:676).
CommitsInClockOrder ==
    [][\A g, h \in Gen : \A v \in views'[g] \ views[g] : \A u \in views[h] :
           u.seq < v.seq]_vars

\* CURRENT never names a half-built generation: the one it names was committed
\* to and marked VERIFIED before (so it stays readable when it is replaced).
SelectedIsComplete ==
    marker # NoGen => views[marker] # {} /\ marker \in verified

\* A view a caller was told about can be looked up by its identity in every
\* later session, across rebuilds, lost markers and crashed replacements, as
\* long as the index file that holds it can be read.
ReturnedStaysReadable ==
    \A e \in returned : Healthy(e[1]) =>
        \A p \in Proc : pc[p] = "ready" => e \in Readable(gen[p])

\* The row marked current of a scope is the newest row of that scope in its
\* generation, and a scope with rows has one.
CurrentIsNewest ==
    \A g \in Gen, s \in Scope :
        /\ \A v \in views[g] : v.scope = s => v.seq <= head[g][s]
        /\ head[g][s] # 0 => [scope |-> s, seq |-> head[g][s]] \in views[g]

\* The rows a session can reach: those of a generation that was selected or
\* verified, and those the session itself committed.
Visible == {e \in Gen \X View :
                /\ Healthy(e[1])
                /\ e[2] \in views[e[1]]
                /\ \/ e[1] \in verified
                   \/ e[1] = marker
                   \/ \E p \in Proc : gen[p] = e[1]}

\* history_at: every reachable row no later than the view it is asked for.
HistoryAt(v) == {e \in Visible : e[2].seq <= v.seq}

\* The history a session shows as of a returned view never gains a row: a later
\* publication, a repair, or the rows of a replacement that died before it was
\* verified cannot turn up in its past.
HistoryNeverGrows ==
    [][\A e \in returned : HistoryAt(e[2])' \subseteq HistoryAt(e[2])]_vars

\* What the store promises: an append-only log of numbered views (ViewLog.tla).
\* A row counts as published once a later command can find it.
Lasting == {g \in Gen : Healthy(g) /\ (g \in verified \/ g = marker)}
Log == INSTANCE ViewLog WITH
           log <- {e \in Lasting \X View : e[2] \in views[e[1]]}
LogSpec == Log!Spec
=============================================================================
