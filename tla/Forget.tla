------------------------------- MODULE Forget -------------------------------
(***************************************************************************)
(* Forgetting evidence for good (src/src/tombstone.rs, Service::open and    *)
(* Service::forget).                                                       *)
(*                                                                         *)
(* A rule (tombstone) is a predicate on versions of evidence: an item, or   *)
(* everything recorded in an interval.  It is saved as a file in the        *)
(* worktree, mirrored in the permanent ledger, and applied whenever a       *)
(* command opens the store and whenever it reconciles.  Applying the rules  *)
(* first collects, over all generations, the items they identify, and puts  *)
(* those in the ledger: an item stays forgotten although its source is      *)
(* edited so that no rule matches it any more.  Only then rows are deleted, *)
(* generation by generation, and then the caches that hold copies of them.  *)
(* A command may die anywhere in between; the ledger says whether caches    *)
(* may still hold forgotten evidence (purge_progress).                      *)
(*                                                                         *)
(* The reservations of notes, which a purge erases as well, are in Notes.   *)
(*                                                                         *)
(* A definition named ...Mutant is the definition after it with a bug.      *)
(***************************************************************************)
EXTENDS Integers, FiniteSets

CONSTANTS
    Item,      \* evidence, by identity
    Time,      \* when a version says it was recorded
    Gen,       \* index generations
    Rule,      \* predicates, as the sets of versions they match
    None       \* there is no such thing

Version == Item \X Time

ASSUME RuleAssumption == Rule \subseteq SUBSET Version
ASSUME NoneAssumption == None \notin Gen \cup Time

VARIABLES
    source,    \* what the project's files say of every item
    ruleFiles, \* .memq/tombstones of the worktree
    ledger,    \* ledger: table tombstones
    begun,     \* ledger: the rules purge_progress has a row for
    pending,   \* ledger: some row of purge_progress is not complete
    forgotten, \* ledger: table forgotten_items
    frecency,  \* ledger: items with a row in table frecency
    index,     \* state of the index of every generation
    bodies,    \* versions stored in every generation
    results,   \* items in cached result sets of every generation
    vectors,   \* items in the vector caches of every generation
    current,   \* the generation CURRENT names
    pc,        \* where the command is
    request,   \* the rule it was asked to save, or None
    open,      \* the generation it works on
    replacing, \* Store.replacement
    rules,     \* Service.tombstones
    known,     \* the forgotten items it has in memory
    todo,      \* generations the present phase has not come to
    gone,      \* items a purge deleted versions of (history)
    obeyed     \* rules that were applied completely once (history)

files == <<source, ruleFiles>>
access == <<ledger, begun, pending, forgotten, frecency>>
tables == <<index, bodies, results, vectors>>
session == <<request, open, replacing, rules, known, todo>>
history == <<gone, obeyed>>
vars == <<files, access, tables, current, pc, session, history>>

Exists == {g \in Gen : index[g] # "none"}

TypeOK ==
    /\ source \in [Item -> Time \cup {None}]
    /\ ruleFiles \subseteq Rule
    /\ ledger \subseteq Rule
    /\ begun \subseteq Rule
    /\ pending \in BOOLEAN
    /\ forgotten \subseteq Item
    /\ frecency \subseteq Item
    /\ index \in [Gen -> {"none", "ok", "damaged", "corrupt"}]
    /\ bodies \in [Gen -> SUBSET Version]
    /\ results \in [Gen -> SUBSET Item]
    /\ vectors \in [Gen -> SUBSET Item]
    /\ current \in Exists \cup {None}
    /\ pc \in {"idle", "load", "begin", "collect", "purge", "frecency",
               "caches", "complete", "reconcile", "ready", "record", "failed"}
    /\ request \in Rule \cup {None}
    /\ open \in Exists \cup {None}
    /\ replacing \in BOOLEAN
    /\ rules \subseteq Rule
    /\ known \subseteq Item
    /\ todo \subseteq Exists
    /\ gone \subseteq Item
    /\ obeyed \subseteq Rule

Init ==
    /\ source \in [Item -> Time \cup {None}]
    /\ ruleFiles = {}
    /\ ledger = {}
    /\ begun = {}
    /\ pending = FALSE
    /\ forgotten = {}
    /\ frecency = {}
    /\ index = [g \in Gen |-> "none"]
    /\ bodies = [g \in Gen |-> {}]
    /\ results = [g \in Gen |-> {}]
    /\ vectors = [g \in Gen |-> {}]
    /\ current = None
    /\ pc = "idle"
    /\ request = None
    /\ open = None
    /\ replacing = FALSE
    /\ rules = {}
    /\ known = {}
    /\ todo = {}
    /\ gone = {}
    /\ obeyed = {}

ItemsOf(versions) == {v[1] : v \in versions}

Goto(step) == pc' = step

Exit ==
    /\ pc' = "idle"
    /\ request' = None
    /\ open' = None
    /\ replacing' = FALSE
    /\ rules' = {}
    /\ known' = {}
    /\ todo' = {}

-----------------------------------------------------------------------------
(* Opening and loading.                                                    *)

Begin(req, rebuild) ==
    /\ pc = "idle"
    /\ request' = req
    /\ IF current # None /\ index[current] = "ok" /\ ~rebuild
       THEN open' = current /\ UNCHANGED <<index, replacing>>
       ELSE \E g \in Gen \ Exists :
                /\ open' = g
                /\ index' = [index EXCEPT ![g] = "ok"]
                /\ replacing' = TRUE
    /\ Goto("load")
    /\ UNCHANGED <<files, access, bodies, results, vectors, current,
                   rules, known, todo, history>>

\* INSERT OR REPLACE INTO tombstones, for every rule that was found.
Mirrored == ledger \cup ruleFiles

\* tombstone::load: the rules of the ledger and those of the worktree.
LoadRules ==
    /\ pc = "load"
    /\ rules' = ledger \cup ruleFiles
    /\ ledger' = Mirrored
    /\ Goto("begin")
    /\ UNCHANGED <<files, begun, pending, forgotten, frecency, tables, current,
                   request, open, replacing, known, todo, history>>

-----------------------------------------------------------------------------
(* tombstone::apply.                                                       *)

ToVisit == Exists

\* A rule that is new, or was saved again with another epoch, is not complete.
BeginPurge ==
    /\ pc = "begin"
    /\ known' = forgotten
    /\ IF rules = {} /\ forgotten = {}
       THEN /\ Goto("reconcile")
            /\ UNCHANGED <<begun, pending, todo>>
       ELSE /\ begun' = begun \cup rules
            /\ \E renewed \in BOOLEAN :
                   pending' = (pending \/ renewed \/ ~(rules \subseteq begun))
            /\ todo' = ToVisit
            /\ Goto("collect")
    /\ UNCHANGED <<files, ledger, forgotten, frecency, tables, current,
                   request, open, replacing, rules, history>>

\* Items of a generation that are forgotten or that some rule identifies.
Identified(g) ==
    {i \in ItemsOf(bodies[g]) :
        i \in known \/ \E r \in rules : \E t \in Time :
                           <<i, t>> \in bodies[g] \cap r}

\* The identities stay in memory.
RecordedMutant(items) == forgotten

\* INSERT OR IGNORE INTO forgotten_items.
Recorded(items) == forgotten \cup items

\* Nothing is said of the caches before rows are deleted.
PendingWithMutant(items) == pending

\* mark_purge_pending, in the same transaction.
PendingWith(items) == pending \/ items # {}

\* remember_matching_ids: the open generation first, then every other one.
CollectFirst(g) == g = open \/ open \notin todo

Collect(g) ==
    /\ pc = "collect"
    /\ g \in todo
    /\ CollectFirst(g)
    /\ index[g] = "ok"
    /\ forgotten' = Recorded(Identified(g))
    /\ pending' = PendingWith(Identified(g))
    /\ known' = known \cup Identified(g)
    /\ todo' = todo \ {g}
    /\ UNCHANGED <<files, ledger, begun, frecency, tables, current, pc,
                   request, open, replacing, rules, history>>

\* An index nobody can read cannot be purged: it is removed with its caches.
RemoveCorrupt(g) ==
    /\ pc = "collect"
    /\ g \in todo
    /\ CollectFirst(g)
    /\ index[g] = "corrupt"
    /\ pending' = TRUE
    /\ index' = [index EXCEPT ![g] = "none"]
    /\ bodies' = [bodies EXCEPT ![g] = {}]
    /\ results' = [results EXCEPT ![g] = {}]
    /\ vectors' = [vectors EXCEPT ![g] = {}]
    /\ current' = IF current = g THEN None ELSE current
    /\ todo' = todo \ {g}
    /\ UNCHANGED <<files, ledger, begun, forgotten, frecency, pc,
                   request, open, replacing, rules, known, history>>

\* purge_failed: one that has lost a table is neither used nor removed.
RefuseDamaged(g) ==
    /\ pc = "collect"
    /\ g \in todo
    /\ CollectFirst(g)
    /\ index[g] = "damaged"
    /\ Goto("failed")
    /\ UNCHANGED <<files, access, tables, current, session, history>>

\* Rows are deleted as soon as the open generation was looked at.
MayDeleteMutant == open \notin todo

\* An old version in an archive may identify a newer one in the open index.
MayDelete == todo = {}

StartDeleting ==
    /\ pc = "collect"
    /\ MayDelete
    /\ todo' = ToVisit
    /\ Goto("purge")
    /\ UNCHANGED <<files, access, tables, current, request, open, replacing,
                   rules, known, history>>

\* purge_db: one transaction deletes the rows of every forgotten item, and the
\* result sets when some cache may hold copies.  The marker commits before it.
Purge(g) ==
    /\ pc = "purge"
    /\ g \in todo
    /\ g = open \/ open \notin todo
    /\ LET removed == {v \in bodies[g] : v[1] \in known}
       IN  /\ pending' = PendingWith(ItemsOf(removed))
           /\ bodies' = [bodies EXCEPT ![g] = @ \ removed]
           /\ gone' = gone \cup ItemsOf(removed)
    /\ results' = IF pending' THEN [results EXCEPT ![g] = {}] ELSE results
    /\ todo' = todo \ {g}
    /\ UNCHANGED <<files, ledger, begun, forgotten, frecency, index, vectors,
                   current, pc, request, open, replacing, rules, known, obeyed>>

PurgeFrecency ==
    /\ pc = "purge"
    /\ todo = {}
    /\ frecency' = frecency \ known
    /\ Goto("caches")
    /\ todo' = {g \in ToVisit : pending}
    /\ UNCHANGED <<files, ledger, begun, pending, forgotten, tables, current,
                   request, open, replacing, rules, known, history>>

\* The vector files of all generations are removed one by one.
PurgeVectors(g) ==
    /\ pc = "caches"
    /\ g \in todo
    /\ vectors' = [vectors EXCEPT ![g] = {}]
    /\ todo' = todo \ {g}
    /\ UNCHANGED <<files, access, index, bodies, results, current, pc,
                   request, open, replacing, rules, known, history>>

Complete ==
    /\ pc = "caches"
    /\ todo = {}
    /\ pending' = FALSE
    /\ obeyed' = obeyed \cup rules
    /\ Goto("reconcile")
    /\ UNCHANGED <<files, ledger, begun, forgotten, frecency, tables, current,
                   session, gone>>

-----------------------------------------------------------------------------
(* After the purge.                                                        *)

\* excludes_record and the check in Store::publish.
Importable == {i \in Item : source[i] # None /\ i \notin forgotten
                  /\ \A r \in rules : <<i, source[i]>> \notin r}

\* Reconciling loads and applies the rules again when they changed ...
ReloadRules ==
    /\ pc = "reconcile"
    /\ request = None
    /\ rules # ledger \cup ruleFiles
    /\ Goto("load")
    /\ UNCHANGED <<files, access, tables, current, session, history>>

\* ... and publishes what the sources hold and no rule excludes.
Publish ==
    /\ pc = "reconcile"
    /\ request = None
    /\ rules = ledger \cup ruleFiles
    /\ bodies' = [bodies EXCEPT ![open] =
                     @ \cup {<<i, source[i]>> : i \in Importable}]
    /\ current' = open
    /\ replacing' = FALSE
    /\ Goto("ready")
    /\ UNCHANGED <<files, access, index, results, vectors, request, open,
                   rules, known, todo, history>>

\* A search caches its result and a vector index; show and search count uses.
Search ==
    /\ pc = "ready"
    /\ results' = [results EXCEPT ![open] = ItemsOf(bodies[open])]
    /\ vectors' = [vectors EXCEPT ![open] = ItemsOf(bodies[open])]
    /\ frecency' = frecency \cup ItemsOf(bodies[open])
    /\ Exit
    /\ UNCHANGED <<files, ledger, begun, pending, forgotten, index, bodies,
                   current, history>>

\* `memq forget` opens the store as well.  It publishes the rule as a file,
\* then writes the ledger row, then applies the rules once more.
SaveRuleFile ==
    /\ pc = "reconcile"
    /\ request # None
    /\ request \notin ledger
    /\ ruleFiles' = ruleFiles \cup {request}
    /\ Goto("record")
    /\ UNCHANGED <<source, access, tables, current, session, history>>

RecordRule ==
    /\ pc = "record"
    /\ ledger' = ledger \cup {request}
    /\ Goto("load")
    /\ UNCHANGED <<files, begun, pending, forgotten, frecency, tables, current,
                   session, history>>

Finish ==
    /\ \/ pc \in {"ready", "failed"}
       \/ pc = "reconcile" /\ request \in ledger
    /\ Exit
    /\ UNCHANGED <<files, access, tables, current, history>>

Crash ==
    /\ pc # "idle"
    /\ Exit
    /\ UNCHANGED <<files, access, tables, current, history>>

-----------------------------------------------------------------------------
(* The environment.                                                        *)

\* Sources come, go, and have their timestamps edited.
EditSource(i, t) ==
    /\ source[i] # t
    /\ source' = [source EXCEPT ![i] = t]
    /\ UNCHANGED <<ruleFiles, access, tables, current, pc, session, history>>

\* Rules arrive and leave with the branch that is checked out.
SwitchBranch(rs) ==
    /\ ruleFiles # rs
    /\ ruleFiles' = rs
    /\ UNCHANGED <<source, access, tables, current, pc, session, history>>

Damage(g, state) ==
    /\ pc = "idle"
    /\ index[g] = "ok"
    /\ index' = [index EXCEPT ![g] = state]
    /\ UNCHANGED <<files, access, bodies, results, vectors, current, pc,
                   session, history>>

\* Rows of a backup are put back into an index.
Restore(g, v) ==
    /\ pc = "idle"
    /\ index[g] = "ok"
    /\ v \notin bodies[g]
    /\ bodies' = [bodies EXCEPT ![g] = @ \cup {v}]
    /\ UNCHANGED <<files, access, index, results, vectors, current, pc,
                   session, history>>

Applying ==
    \/ LoadRules \/ BeginPurge
    \/ \E g \in Gen : Collect(g) \/ RemoveCorrupt(g) \/ RefuseDamaged(g)
    \/ StartDeleting
    \/ \E g \in Gen : Purge(g) \/ PurgeVectors(g)
    \/ PurgeFrecency \/ Complete

Command ==
    \/ \E req \in Rule \cup {None}, rebuild \in BOOLEAN :
           (req = None \/ ~rebuild) /\ Begin(req, rebuild)
    \/ Applying
    \/ ReloadRules \/ Publish \/ Search
    \/ SaveRuleFile \/ RecordRule \/ Finish \/ Crash

Environment ==
    \/ \E i \in Item, t \in Time \cup {None} : EditSource(i, t)
    \/ \E rs \in SUBSET Rule : SwitchBranch(rs)
    \/ \E g \in Gen, state \in {"damaged", "corrupt"} : Damage(g, state)
    \/ \E g \in Gen, v \in Version : Restore(g, v)

Next == Command \/ Environment

Spec == Init /\ [][Next]_vars

-----------------------------------------------------------------------------
(* Properties.                                                             *)

\* Once the rules were applied nothing of what they forget is left in any
\* generation, archives included: no version of an item one of them identified
\* anywhere, no cached result, no vector, no usage count; whatever an earlier
\* command left behind when it died.
PurgedEverywhere ==
    pc \in {"reconcile", "ready", "record"} =>
        /\ frecency \cap forgotten = {}
        /\ \A g \in Gen :
            /\ (ItemsOf(bodies[g]) \cup results[g] \cup vectors[g])
                   \cap forgotten = {}
            /\ \A r \in rules : bodies[g] \cap r = {}

\* The ledger never says that a purge is complete while a cache still holds a
\* copy of a forgotten item, at no moment and after no crash ("it must survive
\* even when a restart finds no rows left", tombstone.rs:305).
CompleteMeansClean ==
    ~pending => \A g \in Gen : (results[g] \cup vectors[g]) \cap forgotten = {}

\* An item of which a purge deleted anything is never published again, although
\* its source was edited out of reach of every rule, a command died between
\* purge and completion, or the index was rebuilt ("an edited timestamp must not
\* release an identity during recovery of an interrupted purge",
\* tombstone.rs:248).
NoResurrection ==
    [][pc = "reconcile" /\ pc' = "ready" =>
           ItemsOf(bodies'[open] \ bodies[open]) \cap gone = {}]_vars

\* A rule that was applied once is known to every later command of the clone,
\* on whatever branch its file is.
RulesLast ==
    pc \notin {"idle", "load"} => obeyed \subseteq rules
=============================================================================
