------------------------------- MODULE Embed -------------------------------
(***************************************************************************)
(* Embedding what the current view holds (src/src/embedding.rs,            *)
(* store/embeddings.rs, vectors.rs).                                       *)
(*                                                                         *)
(* A command refreshes the view, collects the texts of the versions that   *)
(* have no vector of the configured model yet, and works through them in   *)
(* batches: the model answers for a batch, the view is refreshed again,    *)
(* and the vectors of the versions that are still eligible are published   *)
(* in one transaction.  Between any two steps people edit and delete what  *)
(* memq reads, rules that forget items arrive, the configuration changes,  *)
(* and the command may fail or die.                                        *)
(*                                                                         *)
(* A refresh is one step: module Reconcile shows that it is true at one    *)
(* moment.  A version is an item with a content; its text never changes.   *)
(* The model is a bounded child (Process): it answers for every text in    *)
(* order, or the call fails; a truncated text is not told from a whole     *)
(* one.  The table embed_queue is written and never read.  The index is    *)
(* not lost while embeddings are made.                                     *)
(* A definition named ...Mutant is the definition after it with a bug.      *)
(***************************************************************************)
EXTENDS Integers, FiniteSets, Sequences, Functions

CONSTANTS
    Item,       \* what memq captures
    Content,    \* what an item may say
    Model,      \* configured models, with dimensions and preprocessing
    BatchSize,  \* how many texts the model gets at once (32 in the code)
    MaxChanges, \* bound on what people change and on failures
    None        \* no content, no vector

ASSUME FiniteAssumption == IsFiniteSet(Item) /\ IsFiniteSet(Content)
ASSUME BatchAssumption == BatchSize \in Nat \ {0}
ASSUME MaxChangesAssumption == MaxChanges \in Nat
ASSUME NoneAssumption == None \notin Content /\ \A m \in Model, v \in Item \X Content :
                           None # [model |-> m, of |-> v]

VARIABLES
    authored,  \* what every item says in its source
    arrived,   \* items a rule says to forget, applied or not
    config,    \* the configured model
    changes,   \* how often something changed or failed
    forgotten, \* items the ledger says to forget; their versions are purged
    versions,  \* table item_versions
    published, \* the members of the newest view
    meta,      \* table vector_meta
    embedAt,   \* where the command is
    using,     \* its copy of the configuration
    view,      \* the members it may use
    pending,   \* versions whose texts it holds and has not given to the model
    batch,     \* the versions the model works on
    vectors    \* what the model answered

input == <<authored, arrived, config>>
embedVars == <<input, changes, forgotten, versions, published, meta, embedAt, using, view,
               pending, batch, vectors>>

Version == Item \X Content
Vector == [model : Model, of : Version]

EmbedTypeOK ==
    /\ authored \in [Item -> Content \cup {None}]
    /\ arrived \subseteq Item /\ forgotten \subseteq arrived
    /\ config \in Model /\ using \in Model
    /\ changes \in 0 .. MaxChanges
    /\ versions \subseteq Version /\ published \subseteq Version
    /\ view \subseteq Version /\ pending \subseteq Version
    /\ meta \in [Version -> Vector \cup {None}]
    /\ embedAt \in {"idle", "refresh", "chunk", "call", "recheck", "publish"}
    /\ batch \in Seq(Version) /\ vectors \in Seq(Vector)

EmbedInit ==
    /\ authored \in [Item -> Content \cup {None}]
    /\ arrived = {} /\ forgotten = {}
    /\ config \in Model /\ using = config
    /\ changes = 0
    /\ versions = {} /\ published = {} /\ view = {} /\ pending = {}
    /\ meta = [v \in Version |-> None]
    /\ embedAt = "idle"
    /\ batch = <<>> /\ vectors = <<>>

----------------------------------------------------------------------------
(* What changes around the command *)

Change ==
    /\ changes < MaxChanges
    /\ changes' = changes + 1

\* An item is edited, deleted or written again.
Author(i) ==
    /\ Change
    /\ \E c \in Content \cup {None} : authored' = [authored EXCEPT ![i] = c]
    /\ UNCHANGED <<arrived, config, forgotten, versions, published, meta, embedAt, using,
                   view, pending, batch, vectors>>

\* A rule arrives: its file is pulled or merged.
RuleArrives(i) ==
    /\ Change
    /\ arrived' = arrived \cup {i}
    /\ UNCHANGED <<authored, config, forgotten, versions, published, meta, embedAt, using,
                   view, pending, batch, vectors>>

ChangeConfig(m) ==
    /\ Change
    /\ config' = m
    /\ UNCHANGED <<authored, arrived, forgotten, versions, published, meta, embedAt, using,
                   view, pending, batch, vectors>>

----------------------------------------------------------------------------
(* Refreshing the view *)

\* Every refresh first loads the rules and applies them; the rows of
\* vector_meta go with their versions.
ApplyRules ==
    /\ forgotten' = arrived
    /\ meta' = [v \in Version |-> IF v[1] \in arrived THEN None ELSE meta[v]]

Unforgotten(vs) == {v \in vs : v[1] \notin arrived}

Captured == Unforgotten({v \in Version : authored[v[1]] = v[2]})

\* The view is what the sources say; what it does not know yet is stored.
Fresh ==
    /\ ApplyRules
    /\ versions' = Unforgotten(versions) \cup Captured
    /\ published' = Captured
    /\ view' = Captured

\* The sources are gone: the last view stays.
Stale ==
    /\ ApplyRules
    /\ \A i \in Item : authored[i] = None
    /\ versions' = Unforgotten(versions)
    /\ view' = Unforgotten(published)
    /\ UNCHANGED published

Refresh == Fresh \/ Stale

\* Sources change during every attempt, or an input cannot be read: the rules
\* were applied all the same.
RefreshFails ==
    /\ embedAt \in {"refresh", "recheck"}
    /\ Change
    /\ ApplyRules
    /\ versions' = Unforgotten(versions)
    /\ embedAt' = "idle"
    /\ pending' = {} /\ batch' = <<>> /\ vectors' = <<>> /\ view' = {}
    /\ UNCHANGED <<input, published, using>>

----------------------------------------------------------------------------
(* embed_pending *)

Start ==
    /\ embedAt = "idle"
    /\ embedAt' = "refresh"
    /\ using' = config
    /\ UNCHANGED <<input, changes, forgotten, versions, published, meta, view, pending,
                   batch, vectors>>

MissingMutant(vs, ms, model) == {v \in vs : ms[v] = None}

\* The versions of the view without a vector of this model.
Missing(vs, ms, model) ==
    {v \in vs : ms[v] # None => ms[v].model # model}

Collect ==
    /\ embedAt = "refresh"
    /\ Refresh
    /\ pending' = Missing(view', meta', using)
    /\ embedAt' = "chunk"
    /\ UNCHANGED <<input, changes, using, batch, vectors>>

\* The ways to take the next batch: the order is that of the hashes.
Chunks(vs) ==
    LET n == IF Cardinality(vs) < BatchSize THEN Cardinality(vs) ELSE BatchSize
    IN  {b \in [1 .. n -> vs] : IsInjective(b)}

Chunk ==
    /\ embedAt = "chunk"
    /\ pending # {}
    /\ batch' \in Chunks(pending)
    /\ pending' = pending \ Range(batch')
    /\ embedAt' = "call"
    /\ UNCHANGED <<input, changes, forgotten, versions, published, meta, using, view, vectors>>

Finish ==
    /\ embedAt = "chunk"
    /\ pending = {}
    /\ embedAt' = "idle"
    /\ batch' = <<>> /\ vectors' = <<>> /\ view' = {}
    /\ UNCHANGED <<input, changes, forgotten, versions, published, meta, using, pending>>

\* The model has the texts and answers.
Answers ==
    /\ embedAt = "call"
    /\ vectors' = [k \in DOMAIN batch |-> [model |-> using, of |-> batch[k]]]
    /\ embedAt' = "recheck"
    /\ UNCHANGED <<input, changes, forgotten, versions, published, meta, using, view,
                   pending, batch>>

\* A timeout, a failure or an answer that does not match the request.
CallFails ==
    /\ embedAt = "call"
    /\ Change
    /\ embedAt' = "idle"
    /\ pending' = {} /\ batch' = <<>> /\ vectors' = <<>> /\ view' = {}
    /\ UNCHANGED <<input, forgotten, versions, published, meta, using>>

Recheck ==
    /\ embedAt = "recheck"
    /\ Refresh
    /\ embedAt' = "publish"
    /\ UNCHANGED <<input, changes, using, pending, batch, vectors>>

\* Discards before it pairs.
UpdatesMutant ==
    LET kept == SelectSeq(batch, LAMBDA v : v \in view)
    IN  {<<kept[k], vectors[k]>> : k \in DOMAIN kept}

UpdatesUncheckedMutant == {<<batch[k], vectors[k]>> : k \in DOMAIN batch}

\* The updates: each version of the batch with its vector, if it is eligible.
Updates ==
    {<<batch[k], vectors[k]>> : k \in {j \in DOMAIN batch : batch[j] \in view}}

Publish ==
    /\ embedAt = "publish"
    /\ meta' = [v \in Version |->
                  IF \E x \in Vector : <<v, x>> \in Updates
                    THEN CHOOSE x \in Vector : <<v, x>> \in Updates
                    ELSE meta[v]]
    /\ embedAt' = "chunk"
    /\ batch' = <<>> /\ vectors' = <<>>
    /\ UNCHANGED <<input, changes, forgotten, versions, published, using, view, pending>>

\* The command dies.  A transaction that was not committed leaves nothing.
EmbedDies ==
    /\ embedAt # "idle"
    /\ Change
    /\ embedAt' = "idle"
    /\ pending' = {} /\ batch' = <<>> /\ vectors' = <<>> /\ view' = {}
    /\ UNCHANGED <<input, forgotten, versions, published, meta, using>>

Work == Start \/ Collect \/ Chunk \/ Finish \/ Answers \/ Recheck \/ Publish

EmbedNext ==
    \/ \E i \in Item : Author(i) \/ RuleArrives(i)
    \/ \E m \in Model : ChangeConfig(m)
    \/ RefreshFails \/ CallFails \/ EmbedDies
    \/ Work

EmbedSpec == EmbedInit /\ [][EmbedNext]_embedVars

----------------------------------------------------------------------------
(* Properties *)

\* A vector belongs to the text of the version it is stored for, whichever
\* versions of its batch were discarded.
VectorsMatch ==
    \A v \in Version : meta[v] # None => meta[v].of = v

\* Nothing is embedded that a rule applied by then forgets, and no vector is
\* stored for a version that is not: the model may take minutes, and its
\* answer must not bring back what was purged meanwhile.
ForgottenUnembedded ==
    \A v \in Version : meta[v] # None => v \in versions /\ v[1] \notin forgotten

\* The model never gets a text that a rule applied by then forgets.
NothingForgottenIsSent ==
    embedAt = "call" => \A k \in DOMAIN batch : batch[k][1] \notin forgotten

\* Once nothing changes and nothing fails any more, every current item that is
\* not forgotten gets its vector of the configured model, although commands
\* failed or died on the way.
EmbedReady ==
    <>[](\A i \in Item : authored[i] # None /\ i \notin arrived =>
            LET v == <<i, authored[i]>> IN meta[v] # None /\ meta[v].model = config)
=============================================================================
