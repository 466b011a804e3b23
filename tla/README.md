# A formal model of memq

memq is a local memory for coding agents. A *clone* of a project keeps evidence
(notes, documents, captured agent sessions, Git history) in SQLite files next to the
project; short-lived commands (`memq brief`, `memq note`, `memq forget`, an MCP call, ...)
bring the evidence up to date and answer from it. There is no daemon and no
log to replay: every command may be the last one, may die between any two writes, and finds
the files as people, tools, `git checkout` and earlier commands left them. That is where
the difficulty of this program lies, and what these modules are about.

The modules are TLA+; TLC checks them on small instances, and TLAPS proves the theorems of the
seven modules named `...Proofs` and the lemmas of `Induction`. Paths below are relative to the directory that holds the source
tree, so that the code is in `src/src` and the tests are in `src/tests`.

1. [Inventory](#1-inventory): the parts of the system and what makes each correct
2. [The modules](#2-the-modules): which models what, and what was abstracted
3. [The runs](#3-the-runs): what is checked, bounds, fairness
4. [Findings](#4-findings): where code and promise disagree
5. [The proofs](#5-the-proofs)
6. [What is not modelled, and the plan](#6-what-is-not-modelled-and-the-plan)

## 1. Inventory

| Component | Code | State it keeps | Module |
|---|---|---|---|
| Generation store | `store.rs` | ledger `access.sqlite` (publication clock, identities, rules, purge progress), `generations/*/index.sqlite`, `VERIFIED`, `CURRENT`, `mutation.lock` | `Store`, `ViewLog`, `LegacyHistory`, `StoreProofs`, `ReadsProofs` |
| Reconciliation | `reconcile.rs`, `publication.rs` | none of its own: attempt, passes, open transaction | `Reconcile`, `ReconcileProofs` |
| Notes | `notes.rs`, `util.rs` | note files, temporary files, `note_ops`, `forgotten_note_ops` | `Notes`, `NotesProofs` |
| Forgetting | `tombstone.rs` | rule files, `tombstones`, purge progress, `forgotten_items`; deletes rows and caches everywhere | `Forget`, `ForgetProofs` (and `Notes`) |
| Command core | `core.rs` | the open store, the loaded rules | in the modules of the parts it orders |
| Capture | `capture.rs`, `capture/*.rs` | `harness_cursors` and the prefix manifests in them | `Capture`, `OpenCode`, `Adapters`, `AdaptersProofs` |
| Reads and pagination | `operations.rs`, `budget.rs` | saved search results; a continuation the client holds | `Paging`, `Reads`, `ReadsProofs` |
| Policy | `policy.rs`, `verification.rs` | none | `Policy`, `Reads`, `ReadsProofs` |
| Retrieval | `retrieval.rs` | a text index, frecency | not modelled |
| Embeddings | `embedding.rs`, `store/embeddings.rs`, `vectors.rs` | `vector_meta` of an index | `Embed`, `Children`, `ChildrenProofs` |
| Remote | `remote.rs` | `remote_observations` in the ledger, `refs/memq/observe/...` | `Remote`, `Children`, `ChildrenProofs` |
| Process runner | `process.rs` | a child process, its pipes, three threads | `Process`, `Children`, `ChildrenProofs` |
| Repository access | `repository.rs`, `code_evidence.rs` | none | an input |
| Records and configuration | `records.rs`, `config.rs`, `redact.rs`, `error.rs` | none | not modelled |
| Transports | `main.rs`, `mcp.rs`, `hooks.rs`, `lib.rs`, `measure.rs` | none | not modelled |

`PROJECT.json` has the exact sources of each component and, under `hazards`, what is
hard to test in each of them, at its line.

**How they interact.** A command takes the OS lock of the clone (`MutationLock`), opens the ledger,
selects or builds an index generation (store), loads the forgetting rules and applies them to
all generations (forgetting), and reconciles: it reads configuration, sources, Git state
and session files (capture), compares passes, and publishes one view in one index
transaction (store). Only then it does what it was asked to: answers a page (reads), writes a
note (notes), or writes a rule and applies the rules again (forgetting). The ledger is
permanent and shared by all generations; an index can be thrown away at any time. No
transaction covers both databases and the file system, so each component has an order of
writes that has to be right at every point where the command may die.

**The hard behaviours**, and for each component what makes it correct:

- *Generation store.* A publication takes a number in the ledger, commits in the index, then writes
  `VERIFIED` and switches `CURRENT`; each can be the last step. Correct: `CURRENT` names only
  complete generations; an answered view stays readable; later views have larger numbers in
  whatever generation; history never gains a row in its past.
- *Reconciliation.* Inputs are read one at a time while they are edited. Correct: what is
  answered as fresh was true at one moment during the command; what could not be read is disclosed; an
  unreadable source does not replace evidence by nothing; a command ends although its sources never rest.
- *Notes.* A retry with the same key must end with the same one note, whatever step the first
  command died in, whether or not the index survived, while people edit, copy and
  delete notes. Correct: one identity per key, never a file overwritten, never a partial
  note visible, a forgotten key never reused.
- *Forgetting.* Rows, cached results, vectors and usage counts are in different files of several generations;
  rules come and go with branches; old versions identify newer ones. Correct: after a purge
  nothing is left anywhere; "complete" is never recorded too early; nothing returns.
- *Capture.* Reading on after a cached prefix must give exactly what reading everything
  gives, although files, scope, rules, stored bodies and redaction changed in between;
  progress never runs ahead of the stored evidence.
- *Reads and pagination.* Pages are computed anew from a view at each call, by commands that may run on another branch by
  then. Correct: the pages of one request are one reading; who repeats a request where it was made is not refused;
  omissions are declared; forgotten text is not shown; every page makes progress.
- *OpenCode databases* are edited in place while they are read twice and committed. Correct: an
  answer is what the database held at one moment of the command.
- *History of an item.* Views from before the clock lie in several generations and are linked by their
  baselines only. Correct: the history as of a view is the true one or is refused; no session sees its future.
- *Policy.* Replacements are named by id or by a possibly ambiguous name, across branches and
  upstream, and may contend. Correct: what must be shown disappears only for one replacement that somebody
  entitled has accepted, in whatever order records are read.
- *Process runner.* A child and its descendants hold the pipes, write more than is read, read nothing, outlive
  the leader or the timeout. Correct: output that is returned is whole; the group is dead before the
  caller waits for the threads; the call ends.
- *Remote.* A fetch moves a ref and fails, is killed, or outlives its command, while the branch, the url and the clock
  change. Correct: a remembered tip was upstream's, of that repository, when the row says.
- *Embeddings.* The model takes its time; meanwhile items change, rules arrive, the command dies. Correct: a vector
  belongs to the text it is stored for; nothing forgotten has one; in the end every item has its own.

## 2. The modules

In each module the variables are grouped as in the code: what is on disk (survives
a crash), what is in a running command's memory (lost), and *history* variables which exist only to state
properties. One action is one step of the code between two points where the command can
die or the environment can act: one file operation, one database transaction, one source read. `Crash` is an action of
`Store`, `Reconcile`, `Notes` and `Forget` and is possible at every step.
A definition named `...Mutant` is the definition after it with a bug that a change of the code
might introduce; nothing refers to it. It documents which mistake each property excludes: with
the mutant in place of the definition, the run that is named in `PROJECT.json` fails.

**`Store`** — `Store::open`, `acquire`, `begin_replacement`, `publish`, `promote`, and the reads
across archives. Any number of commands compete for the lock. `clock` is the
ledger's `publication_clock`; `views[g]` and `head[g]` are the table `views` of generation
`g` and its `is_current` rows; `index[g]` says whether the file is missing, without schema, healthy,
damaged (readable, but something is missing from its layout) or corrupt. The environment may damage files and lose `CURRENT` or
the ledger between commands. Left out: the migration of older schemas. Views from before the clock are the subject of
`LegacyHistory`.

**`ViewLog`** — what the store promises, without files: a log that only ever gains views newer
than all it holds, or loses all views of a file that can no longer be read. `Store` implements it
under the mapping at its end (`LogSpec`): a row counts as published once a later command can find it.

**`Reconcile`** — the attempts of one command. `LoadConfig`, `ReadSource` (one source),
`StartVerification`, `OpenTransaction`, `Commit`, the ledger copy (`MirrorSources`, `MirrorNote`,
`MirrorInventory`, each a write of its own after the commit) and `SelectAndReturn`.
Files have content told apart by a stamp; `past` remembers all earlier states of the files so that "true at one
moment" can be said. Evidence files, Git state, branch tips and rule files are read and compared by the code like
sources, and are not told apart from them. Commands do not overlap: that is the lock,
checked in `Store`.

**`Notes`** — the purge of reservations, backfill from authored notes, reservation, temporary file, hard
link, unlink, durability. `ops[g]` is the table `note_ops` of every generation, `remembered` the ledger's
`forgotten_note_ops`. All files of a backfill are read in one step; an item's id is the note's
native id, because the source of a reservation is pinned in its row; the column `note_ops.state` is
left out because nothing reads it. Left out: rows from before schema 3
(no identity), redacted keys, and staging in Git.

**`Forget`** — a rule is the set of (item, recorded time) pairs it matches. The steps of `tombstone::apply` are its
actions: begin, collect identities from every generation, delete from every generation, frecency, the
vector files, complete. `pending` is the persistent marker that some cache may still hold a copy.
An index that cannot be read at all is removed; one that is readable but damaged makes the
command fail closed (`RefuseDamaged`). That is deliberate in the code; it does mean that one damaged archive together with any
rule makes every later command fail.

**`Capture`** — the JSONL adapters (`omp`, `codex`). `Readings` is what a scan knows after
each line of a file, by `Advance` from line to line; a scan may begin with `Resumed`, from the manifest of a cached prefix.
`Collect` merges the scans of all files of a source, in their order (`Coalesced`). The actions are the loading of the cache, a pass, a publication, and everything that can happen to
files, scope, rules, index and program in between. Offsets count lines; a hash is the content it is a hash of; the recorded time
is part of an entry's text. A file is read in one step: edits during a pass are `Reconcile`'s subject.
A cursor that cannot be decoded is a cache miss (`None`). The variable `kind` says which adapter the
source has. Left out: the probe for default paths.

**`OpenCode`** — the adapter without a cache, with as much of `Reconcile` as decides whether what a scan reads gets to
the reader: the comparison with the current view, the second pass, the guard inside the
transaction. `Inventory`, `Items` and `Errors` are what one transaction over sessions and parts yields; a malformed part ends
it. An answer given for a *malformed* database may be an old one: once the versions before the malformed part
are known, neither the hash nor the guard sees edits of them. `ScanWasTrue` therefore exempts commands
that met one, and `ServedWasTrue`, without the exemption, does not hold; the answer's coverage names the error.

**`Adapters`** — `Capture` and `OpenCode` side by side. They share no state, so `subject` says which one a behaviour
shows: the states are the sum and not the product, and one run checks both. `Reads` and `Children` are
composed in the same way.

**`LegacyHistory`** — `history_at` and `legacy_view_predecessors`. `tables[g]` is the table `views` of a generation; views are
numbered in the order in which they were published, which the code does not see: it has the row, the number of the
clock if there was one, and the link to a baseline. `Walk` is the depth-first search with its stack of
views to enter and to leave, one `WalkStep` for each pass of the loop. The loop has no bound; the walk has one, `WalkSteps`, and it is proved
that no walk needs more. The answer is its set of views and which of two comes first; the sort of the code makes a list of
that. What the walk finds is compared with `Before`: the views that are in every set closed under the links. An archive may be dropped, which takes links away, and one baseline may be damaged, which may make a cycle.

**`Policy`** — `evaluate` and `reconcile` of `policy.rs` as functions from a sequence of records to their verdicts, in the order of the
code's passes: `Resolved` and `Unambiguous` for references, `Candidates`, `Judged` (one candidate after the other, `Considered`, then the
conflict among several), `Contradict`. `AddRecord` builds every view of a bounded set of records. A
reference names one record by id or native name; lists within a reference and annotations are left out, as are relations and
verification reports.

**`Paging`** — the selection and the pages of `show`, `brief`, `brief --compact` and `search`, and what decides whether a
continuation is accepted: the view and its scope (`InScope`, which is `validate_view_scope`), the hash of the request
(`SelectionHash`, `RequestHash`), the order of a search (`HasOrder`), the stream and the offset (`Acceptable`). Whether something
fits into the budget depends on a tokenizer, so each attempt to add something may succeed or fail: the pages
are a *set*, and the properties hold for every one of them. Texts are sequences of character widths
in bytes, so that an offset can miss a boundary.

- A client gets parts in three forms. A *text* may be cut by the end of a page and is continued on the next one (`show`, compact
  `brief`) or is given whole (`brief`). An *excerpt* is what a search shows of a text: its first `Excerpt` bytes, back to a
  boundary (`Utf8End`); no continuation has the rest. A *listed* entry of a brief is a name without text.
- What a page says of omissions differs by operation: `evidence_page` counts for a brief only, `set_omissions` for a
  brief and a search, and only a brief says that something required is missing. `EvidencePage`, `Omissions` and `Rest` keep these
  differences (see the end of the Findings).
- `here` is where commands run; `Move` is somebody who checks out another branch or goes to another worktree or project between two
  pages. A refused client may give up (`Refuse`), or wait until the branch is back. `Follow` takes any
  request that memq takes for the one that was begun.
- `InHistory` is what a `show` accepts of an earlier view: seen in this worktree, on the branch of the view or on a
  branch that is named. It reads all earlier views; which views those are when some are from before the clock
  is the subject of `LegacyHistory`.

Abstractions: an item has one text, was seen on one branch, and is in a view once; rules forget items, whatever their recorded times
(those are `Forget`'s subject); the query of a search is left out, other queries being other tasks; a hash is
what it is a hash of; availability, freshness and layout are left out, so "complete" stands for a reply that is incomplete at most because its view is
not current. Forgotten items stay forgotten (that is `Forget`'s `NoResurrection`). One client.

**`Reads`** — `Paging`, `LegacyHistory` and `Policy` side by side.

**`Process`** — `process::bounded`. Processes are the leader, one descendant in its group and one
that left it; pipes count bytes; the three threads end when their pipe does or their bound is reached. A
thread that ended has closed its end: who writes there no longer succeeds (`WriteOut` is disabled, and `End` is what comes of it). The caller
polls, kills the group (`Timeout`), kills it again (`Sweep`) and joins the threads in the code's order. Left out: errors of
the system calls themselves that return early (`?` at process.rs:49, 63 and 79).

**`Remote`** — `remote::observe`. `Load` reads the row, `FetchReads` and `FetchMoves` are what git does, `Record` writes the row; `Fails` is
an error after which nothing is recorded, and `Die` leaves the fetch running as an orphan. A tip is a repository
and how often its branch had moved. The fetch looks the url up again, as in the code, which passes the remote's name.

**`Embed`** — `embed_pending`. `Collect` and `Recheck` refresh the view (one step each: `Reconcile` shows what that
means), `Chunk` takes a batch, `Answers` is the model, `Updates` pairs and filters, `Publish` is the transaction. A
refresh applies the rules that have arrived and purges.

**`Children`** — `Process`, `Remote` and `Embed` side by side, with the fairness of each.

## 3. The runs

| Run | Instance | What it shows |
|---|---|---|
| `store` | 2 commands, 3 generation names, 2 scopes, 3 publications | Complete generations are selected; answered views stay readable; current rows are the newest; history never grows; `Store` implements `ViewLog` |
| `reconcile` | a notes source and an adapter, 2 attempts, 2 edits | Fresh answers and commits were true; loss is disclosed; evidence is kept; an accepted removal stays accepted (as long as no command dies between commit and ledger copy) |
| `reconcile_live` | a document that may be rewritten without end | A command ends |
| `reconcile_loss`, `reconcile_removal` | as `reconcile`, with that death | Violated, see Findings |
| `notes` | 1 key, 2 texts, 2 ids, 2 worktrees, 2 generations, 1 edit, a rule for one of the notes | One note per key (also through a copy in another worktree), never overwritten, never partial, retries succeed, purged keys stay used |
| `notes_forget` | two reservations of one key and a rule for both | Violated, see Findings |
| `forget` | 1 item, 2 recorded times, 2 generations, an item rule and an interval rule | A purge leaves nothing; "complete" is never early; nothing returns |
| `capture` | both session adapters, 2 files, 3 lines, 2 edits, 3 rule sets; a database of 2 sessions with 2 parts, 3 edits | Reading on is reading everything; progress never outruns evidence; appending takes nothing away; a database is answered as it was at one moment |
| `reads` | 3 items (multi-byte, empty, required), 3 views of 2 branches, 6 requests, `Excerpt` 2 bytes, `Limit` 1; 4 views in 2 generations; 3 records on 2 branches and upstream, 2 approvers | The pages are one reading; continuations hold; omissions are declared; no forgotten text; pages advance; history is true or refused and the walk is the closure; only what is approved replaces; order changes nothing |
| `children` | limits and pipes of 1 byte, 3 bytes of output; 2 repositories; 3 items, 2 contents, 2 models, batches of 2, 2 changes or failures | Output is whole; the group is gone; the call ends; tips were upstream's; vectors match; nothing forgotten is embedded; everything is embedded in the end |
| `embed_forgotten` | 2 items in batches of 1, 1 change | Violated, see Findings |

**Bounds, and why they are enough for the cases that matter.**

- `Store`: three generations are a selected one, one a dead command left behind, and a
  replacement. Three numbers let a publication fail between two that succeed. Two commands contend for the lock;
  more add nothing, as the holder excludes all others. Theorems cover every instance.
- `Reconcile`: two edits are what it takes for a pass to see a mix that never existed (one edit
  behind the reader, one ahead of it). Two attempts show both the retry and the last one.
  The code has three. Two sources are enough to be read in an order.
- `Notes`: two ids let two commands (or a person and a command) compete for one key; two generations are
  the index a reservation was made in and its replacement; one edit by people in addition to what memq writes. The rule forgets
  one identity and not the other, which is what every step of a purge has to tell apart; a rule for all notes is in `notes_forget`.
- `Forget`: one item has two versions, one inside and one outside an interval, and two generations: the old
  version in the archive identifies the new one in the open index, the hard case of collecting.
- `Capture`: a header and two entries; the prefix can end after each. Two edits after the first
  publication: one that changes what a manifest relies on, one that hides it.
- `Paging`: the three shapes of a member that pagination treats differently; `Excerpt` cuts the longest text between its two
  characters, one byte short of the bound; `Limit` 1 makes search page after each result; the second view drops an item and gains
  one in front, so that a show of all three finds one of them in the history; the third view is of two named branches, and there
  are two branches to be on. The item that was seen on the other branch is in the history only of the show that names it.
- `OpenCode`: two parts of one session and one of another are what it takes for a malformed part to have one before it, one
  behind it and one in another session. Three edits: one before the first pass and one on each side of a later one.
- `LegacyHistory`: four views let two paths meet again (a diamond), across two generations. Every choice of links and of views that
  hold the item is covered.
- `Policy`: three records are one that is replaced and two that contend for it; two share a native name. The records
  form no cycle of replacements.
- `Process`: with limits of one, three bytes of output pass the limit, the pipe and the byte beyond. One process of each kind: the code
  treats descendants only as members of the group or not.
- `Remote`: two repositories, one move of each branch, one tick, one change of the configuration; one orphan.
- `Embed`: three items are two batches, the first of them with an order. Two changes let a rule arrive and a command fail.

**Deadlock** is checked everywhere except in `reads` and `children`, where a behaviour really ends: a client has read all there is
after the last bounded publication and the loss of the index, a view has all its records, a call has returned.

**Fairness** is assumed in two runs. `reconcile_live`: weak fairness of the command's own steps, that is, a running command keeps
running. The operating system schedules it, nothing it waits for is modelled as unable to
answer, and no fairness is assumed of the edits, which in this run may go on for ever. `children`: weak fairness of the caller of a
child and of each of its three threads, which the operating system schedules, and of the clock (the timeout comes when the leader does not
end); none of the child, which may hang, so `CallEnds` rests on the kill alone. For `EmbedReady`, weak fairness
of the embedding command's steps, its start included: people run `memq embed` again, and the model, a bounded child,
answers or fails; failures are bounded in the instance, so the property is about what happens once they cease. `Remote` has no
liveness property: with the upstream unreachable nothing need ever be observed. That a client
of `Paging` comes to an end follows from `PagesAdvance`: each page brings it further, and there is a finite text to read.

**Conditions in the properties.** `OneIdentity` binds an answer only as long as something that memq could
know it from survives (the selected index, an authored note, the ledger): with the index
lost and the note deleted, no program could recover the identity. A reservation that was made
in a generation which was never selected (reconciling failed, `note` went on without a view) is
dropped with it. `ReturnedStaysReadable` and `LogSpec` concern files that can be read.
`EvidenceKept` is stated for runs without a death before the ledger copy; with one, it fails for
the same reason as `LossDisclosed`. `TipWasUpstream` exempts observations during which the url changed, which is looked up twice,
or the fetch of a dead command was still running: the code does nothing about either. `CallEnds` exempts a descendant that
has left the process group and holds the pipes. `ScanWasTrue` exempts malformed parts (see `OpenCode`).

**Types.** The type invariants of `Store`, `Reconcile`, `Notes`, `Forget`, `Process`, `Remote` and `Embed` are part of
the inductive invariants that are proved, and no run repeats them. Those of `Paging`, `LegacyHistory` and `Policy` are proved
as well (`PagingInvariant`, `LegacyInvariant`, `PolicyInvariant`); that of `Capture` documents the variables.

## 4. Findings

Four runs expect a violation. Each states what documentation, a test or the code itself says.

1. **`LossDisclosed`** (`src/src/store.rs:776`). The ledger copy of what was observed is written after the index
   transaction commits. A command that dies in between leaves an index that says what the ledger does not.
   Later commands find the view current and return without writing the copy. If the index and the notes are
   then lost, the missing notes source is taken for one that never had notes, although the usage
   guide promises that a missing source is disclosed (`src/docs/usage.md:167`).
2. **`RemovalStaysAccepted`** (`src/src/store.rs:777`). The same window after an accepted source removal: the ledger
   keeps the old source ids, and later commands ask for consent again although one was given and a retry answered (`src/docs/usage.md:168`).
3. **`ForgetNeverBlocks`** (`src/src/notes.rs:94`). An interrupted note leaves a reservation in one generation; after a
   rebuild, a retry reserves the key under a new identity in the next one. A rule that matches both
   finds the ledger row of the first one when it comes to the second, and fails with
   `idempotency_conflict`, in this command and in all later ones.
4. **`NothingForgottenIsSent`** (`src/src/embedding.rs:33`). The embedding command collects the texts of all pending versions once. After
   each batch it refreshes, which applies rules that arrived meanwhile and purges their versions, but the next batch
   comes from the old list: a text that the clone has just forgotten goes to the model. Its vector is discarded (`ForgottenUnembedded`
   holds). `src/tests/forgotten_identity.rs:271` asserts that forgotten content never reaches the
   embedding command, with rules that are there before it starts.

One difference of that kind has no run of its own, because `OmissionsDeclared` states what the code does: `omitted_count` is
documented without restriction as the number of "Records not fully included in this part of the reply"
(`src/docs/usage.md:103`), but `evidence_page` sets it for a brief only (`operations.rs:730`). A page of a `show` that ends
within a record leaves it at 0 and says `evidence_page`; and the records whose text a search cuts (`operations.rs:312-314`) are in
no count either.

## 5. The proofs

Seven modules prove theorems, for *every* value of the constants that satisfies the assumptions named in the
module they are about; `Induction` has the lemmas about recursive functions that they share. Each theorem is of the form `Spec => []Inv` or `Spec => [][A]_vars` and cites an
inductive invariant; where that invariant has parts with different subjects it comes in
*layers*, each proved from the layers before it, so that no lemma expands more of the state than
it is about.

**`StoreProofs`** (`NoProcAssumption` and `NoGenAssumption`: the two "nothing" values are no members of
their sets; `MaxSeqAssumption`: the bound is a natural number).

| Theorem | Property |
|---|---|
| `TypeCorrect` | `TypeOK` |
| `SelectedComplete` | `SelectedIsComplete` |
| `CurrentNewest` | `CurrentIsNewest` |
| `ReturnedReadable` | `ReturnedStaysReadable` |
| `ClockOrder` | `CommitsInClockOrder` |
| `NeverGrows` | `HistoryNeverGrows` |
| `ImplementsLog` | `LogSpec`, the refinement of `ViewLog` |

None of these is inductive alone. `Inv` adds

- `Exclusion`: only the holder of the lock is anywhere but idle (so a step of one command disturbs no other's memory);
- `RowsOK`: no row is ahead of the clock; a file without schema has no rows; a verified or selected
  generation has one (the reason why `SelectedIsComplete` survives the loss of `CURRENT`);
- `GenerationOK(p)`: a command's generation is what its step says: a replacement stays unverified, unselected
  and empty until its first commit;
- `NumberOK(p)`: the number in a command's hand is newer than every row of every generation until it is committed,
  and the rows of a replacement that has committed but is not yet verified are exactly that one;
- `ReturnedOK`: what was answered is a row of a verified generation.

There is one lemma for each action that writes rows, files or numbers, one for the steps that only move the
command on, and one for the environment. The action properties and the refinement use `Inv`
on the state a step starts in: `NumberOK` says at `Commit` that the row is the newest, and at `MarkVerified` that what becomes
visible is one row, newer than everything visible before.

**`ReconcileProofs`** (`KindAssumption`, `BoundAssumption`; every theorem assumes `~Churning`, because `Churn`
exists for the liveness run and edits without recording it in `past`).

| Theorem | Property |
|---|---|
| `TypeCorrect` | `TypeOK` |
| `AnswersAreTrue` | `AnswerWasTrue` |
| `CommitsAreTrue` | `CommitWasTrue` |
| `PublishesOnlyChanges` | `NoIdlePublication` |
| `EvidenceIsKept` | `EvidenceKept`, also assuming `~MirrorCrash` |
| `LossIsDisclosed` | `LossDisclosed`, also assuming `~MirrorCrash` |
| `RemovalIsSettled` | `RemovalStaysAccepted`, also assuming `~MirrorCrash` |

*History* says that `past` is what happened and that a configuration that was left never comes back.
*Passes* says for each pass in which interval it met the content it holds: the first one before the transaction opened, the
third one after. A source seen with the same content on both sides of that moment had it at that
moment (`SourceBetween`, where the premise `NothingReturned` is used), so the snapshot was true when the transaction
opened (`CommitTrue`). *Truth* carries that along with the views that are kept: one that a later command
finds current with a single pass was true when that command began (`CurrentTrue`), because what it held before that moment
was still there after it. *Changes* (the hash of a view covers what its index holds) gives
`NoIdlePublication`. *Evidence* (the ledger knows of members wherever a view has some) gives
`EvidenceKept`; it is what a crash between the commit and the ledger rows breaks, and therefore the theorem excludes that crash.
*Disclosure* says that everything a user was shown is in the ledger, and that every view that may still be answered and
calls itself current misses none of it; a new view does because `Missing` asks the ledger. *Consent* orders
configurations by the moment they were written: the ledger's source ids are those of a configuration at least as new as
the one of any view that can be found current, and a command that began under the accepted configuration, if it still
stands, publishes that one; hence nothing remembered is outside it. The two findings about the crash between commit and ledger
are what these two layers lose without `~MirrorCrash`.

**`NotesProofs`** (`RuleAssumption`, `MaxEditsAssumption`, `NoneAssumption`: "nothing" is no key,
generation, reservation, table of reservations, identity, content or broken note).

| Theorem | Property |
|---|---|
| `TypeCorrect` | `TypeOK` |
| `PublishingKeepsFiles` | `AuthoredKept` |
| `PublishingIsWhole` | `OnlyWholeNotes` |
| `CommandsKeepKeys` | `KeyNeverReleased` |
| `PurgedKeysStayPurged` | `ErasedStaysErased` |
| `PurgeIsComplete` | `PurgeLeavesNoTemp` |
| `RetryIsSameNote` | `OneIdentity` |
| `RetryGoesThrough` | `RetrySucceeds` |

*Base* has the types and what the position of the command says of its memory (a note is only written under
a reservation, only linked from a whole file). *Ledger*: the reservations a purge dealt with are in the
ledger word for word, the ledger keeps its first word on a key, an erased key is in the ledger, and a command that writes
found its key unforgotten. *Temps*: every temporary file belongs to a reservation or was orphaned with its
index, and behind the purge no reservation is forgotten by the rules it worked with. *Bound*: an answer binds as long as
something in the selected index, a note file or the ledger still tells its identity; behind a backfill the command holds that
identity in the open index or in the ledger, is about to copy it, or has met a conflict, and behind the decision only the
first two are left. So the identity it then answers with is that one. *Story*, for as long as nobody edited a note: index, ledger,
note files and the command's memory tell the same of an identity (`OneStory`), nothing told is broken, a conflict has two
identities, and nobody else's file is where the command publishes. A command fails only where one of these is missing, so
`RetrySucceeds` follows although backfill compares every field of a reservation with what it finds.

**`ForgetProofs`** (`RuleAssumption`, `NoneAssumption`).

| Theorem | Property |
|---|---|
| `TypeCorrect` | `TypeOK` |
| `RulesLastForever` | `RulesLast` |
| `NothingReturns` | `NoResurrection` |
| `PurgeIsThorough` | `PurgedEverywhere` |
| `CompleteIsClean` | `CompleteMeansClean` |

*Base*: types, the open generation can be read, what does not exist is empty. *Rules*: what was applied is in
the ledger, and an item of which anything was deleted has its identity there. *Clean*: what each phase of a purge has achieved (identities
collected, rows deleted, vectors and frecency purged) for the generations it has visited, whatever
generation is damaged, restored or begun meanwhile.

The other three are about the machines that `Reads`, `Children` and `Adapters` compose. A theorem is about the machine alone;
`ReadsCompose`, `ChildrenCompose` and `AdaptersCompose` say that the composition, which the runs check, implements the specification of
each, so that the theorems hold of the composition too.

**`ChildrenProofs`**

| Machine | Assumptions | Theorem | Property |
|---|---|---|---|
| `Process` | the bounds are natural numbers, a pipe holds something | `OutputWhole` | `OutputIsWhole` |
| | | `GroupGone` | `NothingLeft` |
| `Remote` | bounds and interval are natural numbers, "nothing" is no tip | `TipsAreTrue` | `TipWasUpstream` |
| `Embed` | finitely many items and contents, a positive batch size, "nothing" is no content or vector | `VectorsAreTheirs` | `VectorsMatch` |
| | | `ForgottenStaysOut` | `ForgottenUnembedded` |

- *Process.* What was written is with the reader or in the pipe, and a reader that has ended has its bound or left an empty pipe
  to which nobody can write any more (`PipeOK`). The caller compares with the limit after the join, so
  output at the limit and output beyond it differ by the one byte that is read too much. The group is empty after `Sweep`, and only a
  member could start another.
- *Remote.* While nothing disturbs an observation its own fetch is the only one and its url is its scope's (`AloneOK`), so
  what the fetch read, then the ref, then the row is a tip from after the observation began (`FetchTrue`). A failed attempt
  writes the tip it loaded with the time it loaded (`KeptTrue`): mixing the old tip with the new time would break it.
- *Embed.* From the answer to the publication the k-th vector is that of the k-th text (`AnswersOK`); what the command may
  use is in the index and not forgotten (`ViewOK`), since both change in the same refresh only. `PublishedOK` covers the refresh that finds
  no source and keeps the last view.

**`AdaptersProofs`**

| Machine | Assumptions | Theorem | Property |
|---|---|---|---|
| `Capture` | the contents that files start with are sequences of lines, every header's directory is known, "nothing" is no reason to stop, the files are a sequence | `ResumingIsReading` | `IncrementalIsFull` |
| | | `AppendingKeeps` | `AppendKeeps` |
| | | `ProgressIsHeld` | `ProgressIsEvidence` |
| `OpenCode` | numbers of sessions and parts are natural numbers, "nothing" is no inventory | `ScansAreTrue` | `ScanWasTrue` |

- *Capture.* A scan is a recursive function over the lines of a file of any length. What it knows after a line is described without recursion:
  `Shape` lists where a scan can be, `Body` what it holds behind its header as sets over the lines read so far, and
  `ScanShape` shows by induction that the recursion computes that. A manifest was made by such a scan, at another time: what
  stays true of it is all that does not depend on scope, rules and redaction (`Remembers`), and that is the invariant, for cursors in the
  index and in the cache (`CaptureInv`). Resuming checks the rest again, and so starts in the very `Body` that reading the
  prefix now would end in (`ResumedIsBody`); behind it both scans read the same lines (`ScanIsFull`). The check of
  the scope, which the mutant `CanRestoreMutant` drops, is one this step uses. Appending lines keeps every `Body`, and so what is captured, unless
  another file of the session contradicts it. `ProgressIsHeld` follows a cursor's offset back to the `Body` it was published from.
- *OpenCode.* Two scans with the same inventory, one of them of a database without a malformed part, made the same items
  (`SameInventory`), because a malformed part leaves no inventory and everything else is listed with its content. The
  current view and the snapshot were each read by one scan (`ReadFrom`), so the guard, or the first pass, shows
  that what is answered is what the database holds at that step.

**`ReadsProofs`**

| Machine | Assumptions | Theorem | Property |
|---|---|---|---|
| `Paging` | texts are sequences of widths of 1 to 4 bytes, at least one view, views and requests have their fields, a show asks for something, a positive limit, "nothing" is no number, boolean, request or continuation | `PagesAreOneReading` | `OneReading` |
| | | `ContinuationsAreAccepted` | `ContinuationsHold` |
| | | `OmissionsAreTrue` | `OmissionsDeclared` |
| | | `ForgottenIsNotShown` | `NoForgottenText` |
| | | `EveryPageAdvances` | `PagesAdvance` |
| `Policy` | records have their nine fields, the flag is a boolean, the bound a number | `OnlyApproved` | `OnlyApprovedReplaces` |
| | | `OrderDoesNotMatter` | `OrderIrrelevant` |
| `LegacyHistory` | the bound is a number, "no view" is none | `WalkFindsAll` | `WalkIsClosure` |
| | | `HistoryIsWhatWas` | `HistoryIsTrue` |

- *Paging.* `Ends` is a running sum; by induction it grows strictly over widths, so each offset below the total lies in exactly one
  member, and `At` and `Start` find it; and the last boundary that is not behind a byte is one (`Utf8EndIs`). A page takes what
  a client has to what it has and a run of further parts, each behind the one before it (`PageExtends`), for every request and stream. What
  a client has is a chain (`Chain`): texts that go on where they were cut, excerpts and names, names only behind texts. Between two pages
  the selection is computed anew from a view, the forgotten items and a saved order. The hash in the continuation has what was
  forgotten and what the selection depends on of the request and the place, so a continuation that is accepted selects what the client
  began with (`SameSelection`), whoever repeats the request and wherever; and where the place and the rules are the first page's, view and hash are
  the right ones (`SameRequest`). The invariant says further that a client which can go on has read up to its offset, on the stream of its
  request, and what the last page leaves out (`ReadSoFar`, `Stands`, `Declares`). `OneReading` is what that comes to at the last page; for
  `ContinuationsHold` the offset is a boundary inside the total; for `OmissionsDeclared` the members that are missing are
  those behind some number, and the names that the page lists itself are among them.
- *Policy*, `OnlyApproved`. By induction over the candidates a verdict is hidden only on account of one it was last weighed
  against (`Considering`, `AllWeighed`), that one is an accepted record and in the set of accepted replacements; a second one in the set makes a conflict,
  which shows the record again.
- *Policy*, `OrderDoesNotMatter`. Two neighbours that change places are a renaming of positions. It
  keeps names, scopes, candidates and contradictions (`Reorders`). The candidates are then weighed in another order, and two
  of them commute up to similarity (`Similar`, `Commute`): similar verdicts hold the same accepted, proposed and conflicting records,
  and where they disagree otherwise there are two accepted replacements, which the conflict after the loop settles.
  By induction the verdicts stay similar, and what follows the loop settles what they differ in (`SettledAlike`).
- *LegacyHistory.* Rows, numbers and baselines are in the order of publication in every reachable state (`LegacyInvariant`); the walk knows
  nothing of that and is proved for any links, cycles included. Its invariant (`Going`): the path is what the stack has to leave, what is above a view on the
  stack is before it, what was left has left all its parents and is not before itself, and the parents of the path were left or wait above it. A step
  uses up at least one of `WalkSteps` (`Fuel`: what is pending, and for each view not entered yet all it could push). A
  view met again while it is on the path is above itself, hence before itself; when nothing is pending, what was left is
  closed. For `HistoryIsTrue` without damage: what is before a view was published before it (`PastIsEarlier`) and has fewer views before it
  (`DepthGrows`), so where all pairs are linked, depth is the order of publication; within a generation rows are, being linked themselves.

The theorems `ClockOrder`, `PublishesOnlyChanges`, `CommandsKeepKeys` and `RulesLastForever` state properties that
no run repeats: TLC agreed with them on the instances of `store`, `reconcile`, `notes` and `forget` before they were proved.

**Recursion.** The provers have no induction over data, and the library's induction theorems cannot be instantiated by them. `Induction` goes around
that with sets: a set of numbers that has 0 and with each number the next one has them all (`ReachesAll`), so a proof shows that of the set
of numbers for which its claim holds. A recursive function is defined by CHOOSE, so that it computes what its body says has to be proved
too: there is a function for each number of steps (`ReadingsRecursion`, `ConsideredIs`, `WalkIs` and others). No module uses a RECURSIVE operator.

**Only model-checked:** the liveness of `Reconcile` (`Terminates`), `Process` (`CallEnds`) and `Embed` (`EmbedReady`), which is
outside what the installed provers can do. Every safety property of a passing run is also a theorem.

## 6. What is not modelled, and the plan

Not modelled: *retrieval* (ranking arithmetic over a text index; no state a later command relies on), *repository
access*, *records and configuration* and *transports* (sequential, stateless parsing and
input/output). They appear as inputs, or not at all.

Within the modelled components: the migrations of older schemas (`store/schema.rs`) and notes from before them, staging in Git, the probe
for default paths, availability and freshness of evidence, the counting of tokens, lists and annotations in the references of
`policy.rs`, verification reports, tasks, the search side of `vectors.rs`, and processes on systems other than unix.

What is left of the plan, in this order:

1. `Memq`: the composition of `Store`, `Reconcile` and `Forget`, in which one command's order (open, purge, publish, answer)
   meets generations that appear and vanish. Each of the three has an abstraction of the other two now.
2. Proofs about `Memq`, from the invariants of its parts.
3. `Retrieval`: the fusion of ranks against a reference definition.
