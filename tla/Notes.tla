------------------------------- MODULE Notes -------------------------------
(***************************************************************************)
(* Saving a note exactly once (src/src/notes.rs, util.rs).                 *)
(*                                                                         *)
(* A caller names a piece of work with an idempotency key.  The key is      *)
(* reserved in the open index (table note_ops) together with the identity,  *)
(* text and worktree of the note; the note is written to a temporary file   *)
(* and published by a hard link, which never replaces a file; a retry with  *)
(* the same key must end with the same note whichever step the first        *)
(* command died in.  The index is replaceable: a new generation starts with *)
(* no reservations and gets them back from the authored files.  A rule      *)
(* (tombstone) that forgets notes erases their reservations from every      *)
(* generation, after their keys went to the permanent ledger.  Meanwhile    *)
(* people edit, copy, merge and delete note files.                          *)
(*                                                                         *)
(* One command runs at a time (MutationLock, see Store).  A note's item id  *)
(* is its native id here: the source it was reserved for is pinned in the   *)
(* row.  The column state of note_ops is written and never read.            *)
(*                                                                         *)
(* A definition named ...Mutant is the definition after it with a bug.      *)
(***************************************************************************)
EXTENDS Integers

CONSTANTS
    Key,       \* idempotency keys
    Text,      \* what a note says (its semantic hash)
    Id,        \* note identities (ulids)
    Worktree,  \* worktrees of the clone
    Gen,       \* index generations
    Rule,      \* predicates a tombstone may have, as the sets of ids they match
    MaxEdits,  \* bound on what people do to note files
    None       \* there is no such thing

ASSUME RuleAssumption == Rule \subseteq SUBSET Id
ASSUME MaxEditsAssumption == MaxEdits \in Nat

VARIABLES
    note,       \* the note files of every worktree, by id
    temp,       \* the temporary files .<id>.tmp
    ops,        \* table note_ops of every generation that exists
    current,    \* the generation CURRENT names
    remembered, \* ledger: forgotten_note_ops
    arrived,    \* ids matched by the tombstone files and ledger rows
    used,       \* ids that were ever given out
    edits,      \* how often people touched note files (history)
    binding,    \* answers a later answer must agree with (history)
    erased,     \* keys whose reservation a purge deleted (history)
    orphan,     \* ids whose reservation was lost with its index (history)
    pc,         \* where the command is
    request,    \* what it was asked to do
    open,       \* the generation it works on
    replacing,  \* Store.replacement
    rules,      \* Service.tombstones: the ids they match
    purging,    \* the reservation a purge is dealing with
    kept,       \* the reservations it dealt with
    found,      \* the authored note backfill read for a key
    todo,       \* keys backfill has not come to
    conflicts   \* keys whose notes contradict each other

files == <<note, temp>>
store == <<ops, current, remembered, arrived>>
history == <<used, edits, binding, erased, orphan>>
session == <<open, replacing, rules, purging, kept, found, todo, conflicts>>
vars == <<files, store, history, pc, request, session>>

\* A file that is no valid note is Broken.
Content == [key : Key, text : Text]
Broken == [key |-> None, text |-> None]
Reservation == [id : Id, text : Text, worktree : Worktree]
Identity == [id : Id, text : Text]

ASSUME NoneAssumption ==
    /\ None \notin Key \cup Gen \cup Reservation \cup Identity \cup Content \cup {Broken}
    /\ None \notin [Key -> Reservation \cup {None}]

Exists == {g \in Gen : ops[g] # None}
\* No reservation in a new generation.
EmptyTable == [k \in Key |-> None]
NoRequest == [kind |-> "other", key |-> None, text |-> None, worktree |-> None]

TypeOK ==
    /\ note \in [Worktree -> [Id -> Content \cup {None, Broken}]]
    /\ temp \in [Worktree -> [Id -> {"none", "partial", "full"}]]
    /\ ops \in [Gen -> [Key -> Reservation \cup {None}] \cup {None}]
    /\ current \in Exists \cup {None}
    /\ remembered \in [Key -> Identity \cup {None}]
    /\ arrived \subseteq Id
    /\ used \subseteq Id
    /\ edits \in 0..MaxEdits
    /\ binding \subseteq [key : Key, id : Id]
    /\ erased \subseteq Key
    /\ orphan \subseteq Id
    /\ pc \in {"idle", "load", "purge", "temp", "reconcile", "backfill", "decide",
               "write", "writing", "link", "unlink", "durable", "done", "failed",
               "blocked"}
    /\ request \in {NoRequest} \cup
           [kind : {"note"}, key : Key, text : Text, worktree : Worktree]
    /\ open \in Exists \cup {None}
    /\ replacing \in BOOLEAN
    /\ rules \subseteq Id
    /\ purging \in (Gen \X Key) \cup {None}
    /\ kept \subseteq Gen \X Key
    /\ found \in [Key -> Reservation \cup {None}]
    /\ todo \subseteq Key
    /\ conflicts \subseteq Key

Idle ==
    /\ pc = "idle"
    /\ request = NoRequest
    /\ open = None
    /\ replacing = FALSE
    /\ rules = {}
    /\ purging = None
    /\ kept = {}
    /\ found = EmptyTable
    /\ todo = {}
    /\ conflicts = {}

Init ==
    /\ note = [w \in Worktree |-> [i \in Id |-> None]]
    /\ temp = [w \in Worktree |-> [i \in Id |-> "none"]]
    /\ ops = [g \in Gen |-> None]
    /\ current = None
    /\ remembered = [k \in Key |-> None]
    /\ arrived = {}
    /\ used = {}
    /\ edits = 0
    /\ binding = {}
    /\ erased = {}
    /\ orphan = {}
    /\ Idle

\* The process ends, whether it is done or not.
Exit ==
    /\ pc' = "idle"
    /\ request' = NoRequest
    /\ open' = None
    /\ replacing' = FALSE
    /\ rules' = {}
    /\ purging' = None
    /\ kept' = {}
    /\ found' = EmptyTable
    /\ todo' = {}
    /\ conflicts' = {}

Goto(step) == pc' = step

-----------------------------------------------------------------------------
(* Opening: Store::open, tombstone::load and the purge.                    *)

\* Whether key k is known to stand for note i: by the selected index, by an
\* authored note, or by the ledger.  An answer binds later ones only as long as
\* that is so: memq cannot recover what has no surviving source.
Knows(k, i, table, current_, note_, remembered_) ==
    \/ current_ # None /\ table[current_][k] # None /\ table[current_][k].id = i
    \/ \E w \in Worktree : note_[w][i] # None /\ note_[w][i].key = k
    \/ remembered_[k] # None /\ remembered_[k].id = i

StillBinding(table, current_, note_) ==
    {b \in binding : Knows(b.key, b.id, table, current_, note_, remembered)}

\* The selected generation is opened, or a new one when there is none (or with
\* `memq rebuild`).
Begin(req, rebuild) ==
    /\ pc = "idle"
    /\ request' = req
    /\ IF current # None /\ ~rebuild
       THEN open' = current /\ UNCHANGED <<ops, replacing>>
       ELSE \E g \in Gen \ Exists :
                /\ open' = g
                /\ ops' = [ops EXCEPT ![g] = EmptyTable]
                /\ replacing' = TRUE
    /\ Goto("load")
    /\ UNCHANGED <<files, current, remembered, arrived, history,
                   rules, purging, kept, found, todo, conflicts>>

LoadRules ==
    /\ pc = "load"
    /\ rules' = arrived
    /\ Goto("purge")
    /\ UNCHANGED <<files, store, history, request, open, replacing,
                   purging, kept, found, todo, conflicts>>

\* Reservations the rules forget, in any generation; the open one comes first.
ToPurge(g) == {k \in Key : ops[g][k] # None /\ ops[g][k].id \in rules}
PurgedFirst(g) == g = open \/ ToPurge(open) = {}

Agrees(k, i, t) == remembered[k] = None \/ remembered[k] = [id |-> i, text |-> t]

\* INSERT OR IGNORE INTO forgotten_note_ops.
Remembered(k, i, t) == [remembered EXCEPT ![k] = [id |-> i, text |-> t]]

\* The key and identity of a reservation go to the ledger.
PurgeRemember(g, k) ==
    /\ pc = "purge"
    /\ g \in Exists
    /\ PurgedFirst(g)
    /\ k \in ToPurge(g)
    /\ <<g, k>> \notin kept
    /\ Agrees(k, ops[g][k].id, ops[g][k].text)
    /\ remembered' = Remembered(k, ops[g][k].id, ops[g][k].text)
    /\ purging' = <<g, k>>
    /\ Goto("temp")
    /\ UNCHANGED <<files, ops, current, arrived, history, request, open,
                   replacing, rules, kept, found, todo, conflicts>>

\* remember_forgotten finds another note under the key: the command fails.
PurgeConflict(g, k) ==
    /\ pc = "purge"
    /\ g \in Exists
    /\ PurgedFirst(g)
    /\ k \in ToPurge(g)
    /\ <<g, k>> \notin kept
    /\ ~Agrees(k, ops[g][k].id, ops[g][k].text)
    /\ Goto("blocked")
    /\ UNCHANGED <<files, store, history, request, session>>

\* The temporary file is left where it is.
WithoutTempMutant(w, i) == temp

WithoutTemp(w, i) == [temp EXCEPT ![w][i] = "none"]

\* Then the temporary file of the note is removed.
PurgeTemp ==
    /\ pc = "temp"
    /\ LET op == ops[purging[1]][purging[2]]
       IN  temp' = WithoutTemp(op.worktree, op.id)
    /\ kept' = kept \cup {purging}
    /\ purging' = None
    /\ Goto("purge")
    /\ UNCHANGED <<note, store, history, request, open, replacing, rules,
                   found, todo, conflicts>>

\* When all of them are safe, their rows are deleted.
PurgeRows(g) ==
    /\ pc = "purge"
    /\ g \in Exists
    /\ ToPurge(g) # {}
    /\ \A k \in ToPurge(g) : <<g, k>> \in kept
    /\ ops' = [ops EXCEPT ![g] = [k \in Key |->
                  IF k \in ToPurge(g) THEN None ELSE @[k]]]
    /\ erased' = erased \cup ToPurge(g)
    /\ kept' = {e \in kept : e[1] # g}
    /\ UNCHANGED <<files, current, remembered, arrived, used, edits, binding,
                   orphan, pc, request, open, replacing, rules, purging,
                   found, todo, conflicts>>

PurgeDone ==
    /\ pc = "purge"
    /\ \A g \in Exists : ToPurge(g) = {}
    /\ Goto("reconcile")
    /\ UNCHANGED <<files, store, history, request, session>>

\* Reconciling loads the rules again, and publishes a view: then a new
\* generation is selected.  When the sources cannot be read, `note` goes on
\* without a view, in a generation that stays unselected.
Reconcile(published) ==
    /\ pc = "reconcile"
    /\ rules = arrived
    /\ IF published /\ replacing
       THEN /\ current' = open
            /\ replacing' = FALSE
            /\ binding' = StillBinding(ops, open, note)
       ELSE UNCHANGED <<current, replacing, binding>>
    /\ Goto(IF request.kind = "note" THEN "backfill" ELSE "done")
    /\ UNCHANGED <<files, ops, remembered, arrived, used, edits, erased, orphan,
                   request, open, rules, purging, kept, found, todo, conflicts>>

ReloadRules ==
    /\ pc = "reconcile"
    /\ rules # arrived
    /\ Goto("load")
    /\ UNCHANGED <<files, store, history, request, session>>

-----------------------------------------------------------------------------
(* Backfill: reservations from the authored notes of all worktrees.        *)

\* Only the notes of the worktree the command runs in are read.
AuthoredMutant(k) ==
    {r \in Reservation :
        /\ r.worktree = request.worktree
        /\ note[r.worktree][r.id] = [key |-> k, text |-> r.text]}

Authored(k) ==
    {r \in Reservation :
        note[r.worktree][r.id] = [key |-> k, text |-> r.text]}

SameNote(r, s) == r.id = s.id /\ r.text = s.text

BrokenNote == \E w \in Worktree, i \in Id : note[w][i] = Broken

\* All files are read first.  A broken one fails the command; two different
\* notes with one key are a conflict.
ReadNotes ==
    /\ pc = "backfill"
    /\ ~BrokenNote
    /\ \E f \in [Key -> Reservation \cup {None}] :
        /\ \A k \in Key : IF Authored(k) = {} THEN f[k] = None
                                              ELSE f[k] \in Authored(k)
        /\ found' = f
    /\ conflicts' = {k \in Key :
                        \E r, s \in Authored(k) : ~SameNote(r, s)}
    /\ todo' = {k \in Key : Authored(k) # {}}
    /\ Goto("decide")
    /\ UNCHANGED <<files, store, history, request, open, replacing, rules,
                   purging, kept>>

RefuseBroken ==
    /\ pc = "backfill"
    /\ BrokenNote
    /\ Goto("failed")
    /\ UNCHANGED <<files, store, history, request, session>>

Contradicts(k) ==
    \/ k \in conflicts
    \/ ops[open][k] # None /\ ~SameNote(ops[open][k], found[k])
    \/ remembered[k] # None /\ ~SameNote(remembered[k], found[k])

\* Notes already reserved elsewhere are left alone.
BackfilledMutant(k) == ops[open]

\* INSERT ... ON CONFLICT DO UPDATE: an existing row keeps what it says.
Backfilled(k) ==
    IF ops[open][k] # None THEN ops[open]
    ELSE [ops[open] EXCEPT ![k] = found[k]]

\* One key: a contradiction leaves everything as it is; a forgotten note is
\* remembered; any other note becomes a reservation.
Backfill(k) ==
    /\ pc = "decide"
    /\ k \in todo
    /\ todo' = todo \ {k}
    /\ \/ /\ Contradicts(k)
          /\ conflicts' = conflicts \cup {k}
          /\ UNCHANGED <<ops, remembered>>
       \/ /\ ~Contradicts(k)
          /\ found[k].id \in rules \/ remembered[k] # None
          /\ remembered' = Remembered(k, found[k].id, found[k].text)
          /\ UNCHANGED <<ops, conflicts>>
       \/ /\ ~Contradicts(k)
          /\ found[k].id \notin rules
          /\ remembered[k] = None
          /\ ops' = [ops EXCEPT ![open] = Backfilled(k)]
          /\ UNCHANGED <<remembered, conflicts>>
    /\ UNCHANGED <<files, current, arrived, history, pc, request, open,
                   replacing, rules, purging, kept, found>>

-----------------------------------------------------------------------------
(* Writing.                                                                *)

Deciding == pc = "decide" /\ todo = {}
TheKey == request.key
Op == ops[open][TheKey]

\* A forgotten key is free again.
RetiredMutant(k) == FALSE

Retired(k) == remembered[k] # None

\* idempotency_conflict: the key stands for another text or for several notes.
Refuse ==
    /\ Deciding
    /\ \/ TheKey \in conflicts
       \/ Retired(TheKey) /\ remembered[TheKey].text # request.text
       \/ ~Retired(TheKey) /\ Op # None /\ Op.text # request.text
    /\ Goto("failed")
    /\ UNCHANGED <<files, store, history, request, session>>

Bind(i) == binding' = binding \cup {[key |-> TheKey, id |-> i]}

AnswerForgotten ==
    /\ Deciding
    /\ TheKey \notin conflicts
    /\ Retired(TheKey)
    /\ remembered[TheKey].text = request.text
    /\ Bind(remembered[TheKey].id)
    /\ Exit
    /\ UNCHANGED <<files, store, used, edits, erased, orphan>>

\* The note of a fresh or reserved key that a rule forgets is never written.
AnswerExcluded(i) ==
    /\ Deciding
    /\ TheKey \notin conflicts
    /\ ~Retired(TheKey)
    /\ i \in rules
    /\ IF Op = None THEN i \notin used
                    ELSE Op.id = i /\ Op.text = request.text
    /\ used' = used \cup {i}
    /\ remembered' = Remembered(TheKey, i, request.text)
    /\ Bind(i)
    /\ Exit
    /\ UNCHANGED <<files, ops, current, arrived, edits, erased, orphan>>

NewReservation(i) ==
    [id |-> i, text |-> request.text, worktree |-> request.worktree]

\* The identity is in the index before a byte of the note is written.
Reserve(i) ==
    /\ Deciding
    /\ TheKey \notin conflicts
    /\ ~Retired(TheKey)
    /\ Op = None
    /\ i \notin used \cup rules
    /\ used' = used \cup {i}
    /\ ops' = [ops EXCEPT ![open][TheKey] = NewReservation(i)]
    /\ Goto("write")
    /\ UNCHANGED <<files, current, remembered, arrived, edits, binding, erased,
                   orphan, request, session>>

Resume ==
    /\ Deciding
    /\ TheKey \notin conflicts
    /\ ~Retired(TheKey)
    /\ Op # None
    /\ Op.text = request.text
    /\ Op.id \notin rules
    /\ Goto("write")
    /\ UNCHANGED <<files, store, history, request, session>>

Final == note[Op.worktree][Op.id]
Temp == temp[Op.worktree][Op.id]
WithTemp(state) == [temp EXCEPT ![Op.worktree][Op.id] = state]

\* A file that is already there is taken for somebody else's.
FinalIsOursMutant == FALSE

FinalIsOurs == Final = [key |-> TheKey, text |-> Op.text]

\* The note was published before: what is left of its temporary file goes.
FinalThere ==
    /\ pc = "write"
    /\ Final # None
    /\ IF FinalIsOurs THEN temp' = WithTemp("none") /\ Goto("durable")
                      ELSE UNCHANGED temp /\ Goto("failed")
    /\ UNCHANGED <<note, store, history, request, session>>

\* Any temporary file is good enough.
TempIsWholeMutant == Temp # "none"

\* It parses and is the reserved note.
TempIsWhole == Temp = "full"

ClearTemp ==
    /\ pc = "write"
    /\ Final = None
    /\ Temp # "none"
    /\ ~TempIsWhole
    /\ temp' = WithTemp("none")
    /\ UNCHANGED <<note, store, history, pc, request, session>>

ReuseTemp ==
    /\ pc = "write"
    /\ Final = None
    /\ TempIsWhole
    /\ Goto("link")
    /\ UNCHANGED <<files, store, history, request, session>>

BeginTemp ==
    /\ pc = "write"
    /\ Final = None
    /\ Temp = "none"
    /\ temp' = WithTemp("partial")
    /\ Goto("writing")
    /\ UNCHANGED <<note, store, history, request, session>>

EndTemp ==
    /\ pc = "writing"
    /\ temp' = WithTemp("full")
    /\ Goto("link")
    /\ UNCHANGED <<note, store, history, request, session>>

\* rename() instead of link() replaces a file.
MayLinkMutant == TRUE

MayLink == Final = None

Published == IF Temp = "full" THEN [key |-> TheKey, text |-> Op.text] ELSE Broken

Link ==
    /\ pc = "link"
    /\ MayLink
    /\ note' = [note EXCEPT ![Op.worktree][Op.id] = Published]
    /\ Goto("unlink")
    /\ UNCHANGED <<temp, store, history, request, session>>

\* Somebody made the file in the meantime: note publication collision.
LinkFails ==
    /\ pc = "link"
    /\ ~MayLink
    /\ Goto("failed")
    /\ UNCHANGED <<files, store, history, request, session>>

Unlink ==
    /\ pc = "unlink"
    /\ temp' = WithTemp("none")
    /\ Goto("durable")
    /\ UNCHANGED <<note, store, history, request, session>>

\* The answer; an answer that nothing supports any more binds nobody.
AnswerDurable ==
    /\ pc = "durable"
    /\ IF Knows(TheKey, Op.id, ops, current, note, remembered)
       THEN Bind(Op.id)
       ELSE UNCHANGED binding
    /\ Exit
    /\ UNCHANGED <<files, store, used, edits, erased, orphan>>

Finish ==
    /\ pc \in {"done", "failed", "blocked"}
    /\ Exit
    /\ UNCHANGED <<files, store, history>>

Crash ==
    /\ pc # "idle"
    /\ Exit
    /\ UNCHANGED <<files, store, history>>

-----------------------------------------------------------------------------
(* The environment.                                                        *)

\* A note file is written, copied, merged, edited, broken or removed by hand.
EditNote(w, i, content) ==
    /\ edits < MaxEdits
    /\ note[w][i] # content
    /\ edits' = edits + 1
    /\ note' = [note EXCEPT ![w][i] = content]
    /\ used' = used \cup {i}
    /\ binding' = StillBinding(ops, current, note')
    /\ UNCHANGED <<temp, store, erased, orphan, pc, request, session>>

\* `memq forget` saves a rule, or one arrives with a pull.
Forget(rule) ==
    /\ ~(rule \subseteq arrived)
    /\ arrived' = arrived \cup rule
    /\ UNCHANGED <<files, ops, current, remembered, history, pc, request, session>>

\* An index cannot be read any more and is removed.
LoseIndex(g) ==
    /\ pc = "idle"
    /\ g \in Exists
    /\ ops' = [ops EXCEPT ![g] = None]
    /\ current' = IF current = g THEN None ELSE current
    /\ orphan' = orphan \cup {i \in Id : \E k \in Key :
                                  ops[g][k] # None /\ ops[g][k].id = i}
    /\ binding' = StillBinding(ops, current', note)
    /\ UNCHANGED <<files, remembered, arrived, used, edits, erased,
                   pc, request, session>>

Opening ==
    \/ LoadRules
    \/ \E g \in Gen, k \in Key : PurgeRemember(g, k) \/ PurgeConflict(g, k)
    \/ PurgeTemp
    \/ \E g \in Gen : PurgeRows(g)
    \/ PurgeDone \/ ReloadRules
    \/ \E published \in BOOLEAN : Reconcile(published)
    \/ ReadNotes \/ RefuseBroken
    \/ \E k \in Key : Backfill(k)

Writing ==
    \/ Refuse \/ AnswerForgotten \/ Resume
    \/ \E i \in Id : AnswerExcluded(i) \/ Reserve(i)
    \/ FinalThere \/ ClearTemp \/ ReuseTemp \/ BeginTemp \/ EndTemp
    \/ Link \/ LinkFails \/ Unlink \/ AnswerDurable

Requests == [kind : {"note"}, key : Key, text : Text, worktree : Worktree]

Command ==
    \/ \E req \in Requests : Begin(req, FALSE)
    \/ \E rebuild \in BOOLEAN : Begin(NoRequest, rebuild)
    \/ Opening \/ Writing \/ Finish \/ Crash

Environment ==
    \/ \E w \in Worktree, i \in Id, c \in Content \cup {None, Broken} :
           EditNote(w, i, c)
    \/ \E rule \in Rule : Forget(rule)
    \/ \E g \in Gen : LoseIndex(g)

Next == Command \/ Environment

Spec == Init /\ [][Next]_vars

-----------------------------------------------------------------------------
(* Properties.                                                             *)

\* People edit notes; memq only ever adds a file where there is none, however
\* late somebody else puts one there.
AuthoredKept ==
    [][\A w \in Worktree, i \in Id :
           edits' = edits /\ note'[w][i] # note[w][i] => note[w][i] = None]_vars

\* What it adds is a whole note, although a command may have died while it
\* wrote the temporary file.
OnlyWholeNotes ==
    [][\A w \in Worktree, i \in Id :
           edits' = edits /\ note'[w][i] # note[w][i] => note'[w][i] \in Content]_vars

\* The notes a key stands for in the indexes and the ledger.
Reserved(k) ==
    {i \in Id : \/ remembered[k] # None /\ remembered[k].id = i
                \/ \E g \in Exists : ops[g][k] # None /\ ops[g][k].id = i}

AtMostOne(S) == \A i, j \in S : i = j

\* A retry is the same note: two answers for one key never name two notes, as
\* long as the first one is known anywhere and older generations hold no other
\* reservation of the key.  Neither a crash, a lost index, nor a rule that
\* forgets the note changes that.
OneIdentity ==
    [][\A b \in binding' \ binding : AtMostOne(Reserved(b.key)) =>
           \A a \in binding : a.key = b.key => a.id = b.id]_vars

\* "If a command is interrupted, retry the same text and key" (docs/usage.md:66):
\* as long as nobody edits note files and one note has the key, a command with
\* the text of the key does not fail, whatever the one before left behind.
RetrySucceeds ==
    pc = "failed" /\ edits = 0
        /\ AtMostOne(Reserved(TheKey) \cup {r.id : r \in Authored(TheKey)})
        => \/ remembered[TheKey] # None /\ remembered[TheKey].text # request.text
           \/ Op # None /\ Op.text # request.text

\* A key that stands for a note keeps doing so through every step of a command,
\* its death and a purge included ("so a crash can never release a used key",
\* notes.rs:201); only removed files or another index can release it.
KeyNeverReleased ==
    [][edits' = edits /\ current' = current =>
           \A k \in Key, i \in Id :
               Knows(k, i, ops, current, note, remembered)
                   => Knows(k, i, ops', current, note', remembered')]_vars

\* Once a purge deleted the reservation of a key, no command publishes a note
\* under that key again.
ErasedStaysErased ==
    [][\A w \in Worktree, i \in Id :
           edits' = edits /\ note'[w][i] # note[w][i]
               => note'[w][i].key \notin erased]_vars

\* After a purge no temporary file holds a forgotten note, wherever the command
\* that wrote it, or an earlier purge, died.
PurgeLeavesNoTemp ==
    pc \notin {"idle", "load", "purge", "temp", "blocked"} =>
        \A w \in Worktree, i \in rules \ orphan : temp[w][i] = "none"

\* A rule can always be applied: forgetting notes does not make the commands
\* fail ("To remove a record from memq, run `memq forget`", docs/usage.md:349).
ForgetNeverBlocks == pc # "blocked"
=============================================================================
