--------------------------- MODULE LegacyHistory ---------------------------
(***************************************************************************)
(* The history of an item as of a view (src/src/store.rs, history_at and   *)
(* legacy_view_predecessors).                                              *)
(*                                                                         *)
(* Views carry the number of their publication since there is a clock.     *)
(* Before, only the rows of one generation were in order, and a view may   *)
(* name the one it was compared with (its baseline), which may be in       *)
(* another generation.  An interrupted switch could leave two generations  *)
(* writable, so that their rows interleave.  What the links do not order   *)
(* must not be guessed: the answer is then history_order_unavailable.      *)
(*                                                                         *)
(* The id of a view is when it was published; the code compares no ids.    *)
(* A view holds the item or does not; which version and rank it has is     *)
(* left out.  Metadata may be corrupted, so that links form a cycle.       *)
(* A definition named ...Mutant is the definition after it with a bug.     *)
(***************************************************************************)
EXTENDS Integers, FiniteSets, SequencesExt

CONSTANTS
    Generation,  \* index generations
    MaxViews,    \* bound on publications
    NoView,      \* no baseline, no number
    Unavailable  \* the error history_order_unavailable

ASSUME MaxViewsAssumption == MaxViews \in Nat
ASSUME NoViewAssumption == NoView \notin Nat

VARIABLES
    tables,   \* table views of every generation, in the order of rowid
    clocked,  \* whether the clock exists
    count,    \* how many views were published
    corrupted \* whether a baseline names a later view (history)

legacyVars == <<tables, clocked, count, corrupted>>

Ids == 1 .. MaxViews
ViewRow == [id : Ids, baseline : Ids \cup {NoView}, seq : Ids \cup {NoView}, holds : BOOLEAN]

LegacyTypeOK ==
    /\ tables \in [Generation -> Seq(ViewRow)]
    /\ clocked \in BOOLEAN /\ corrupted \in BOOLEAN
    /\ count \in 0 .. MaxViews

----------------------------------------------------------------------------
(* legacy_view_predecessors *)

\* Every row with where it is.
Rows ==
    UNION {{[gen |-> g, row |-> n, view |-> tables[g][n]] : n \in DOMAIN tables[g]} :
           g \in Generation}

\* A view follows its baseline and the row before it.
Parents(id) ==
    UNION {({h.view.baseline} \ {NoView})
             \cup (IF h.row = 1 THEN {} ELSE {tables[h.gen][h.row - 1].id}) :
           h \in {x \in Rows : x.view.id = id}}

Marked(ids, finished) == [n \in DOMAIN ids |-> <<ids[n], finished>>]

\* Does not take a finished view off the path.
LeaveMutant(active, id) == active

Leave(active, id) == active \ {id}

\* A walk has a stack of views to enter and to leave, the path it is on and
\* what it has left.  It begins with one view to enter.
WalkStart(id) ==
    [pending |-> <<<<id, FALSE>>>>, active |-> {}, visited |-> {}, ancestors |-> {},
     cyclic |-> FALSE]

\* What becomes of the view on top of the stack.
WalkStep(w) ==
    LET id == Last(w.pending)[1]
        finished == Last(w.pending)[2]
        rest == Front(w.pending)
    IN CASE finished ->
              [pending |-> rest, active |-> Leave(w.active, id), visited |-> w.visited \cup {id},
               ancestors |-> w.ancestors, cyclic |-> FALSE]
         [] ~finished /\ id \in w.active ->
              [pending |-> <<>>, active |-> w.active, visited |-> w.visited,
               ancestors |-> w.ancestors, cyclic |-> TRUE]
         [] ~finished /\ id \notin w.active /\ id \in w.visited ->
              [pending |-> rest, active |-> w.active, visited |-> w.visited,
               ancestors |-> w.ancestors, cyclic |-> FALSE]
         [] OTHER ->
              [pending |-> Append(rest, <<id, TRUE>>) \o Marked(SetToSeq(Parents(id)), FALSE),
               active |-> w.active \cup {id}, visited |-> w.visited,
               ancestors |-> w.ancestors \cup Parents(id), cyclic |-> FALSE]

\* A walk has ended by then: it enters no view twice, and pushes no more than
\* the view and all others.
WalkSteps == 1 + MaxViews * (MaxViews + 1)

\* The walk from a view, step by step, until nothing is pending.
Walk(id) ==
    LET after[n \in 0 .. WalkSteps] ==
            IF n = 0 THEN WalkStart(id)
            ELSE LET w == after[n - 1] IN IF w.pending = <<>> THEN w ELSE WalkStep(w)
    IN  after

Predecessors(id) ==
    LET w == Walk(id)[WalkSteps] IN IF w.cyclic THEN Unavailable ELSE w.ancestors

----------------------------------------------------------------------------
(* history_at *)

Holding == {h \in Rows : h.view.holds}

Legacy(h) == h.view.seq = NoView

\* The legacy views whose order matters, and whether they are in one generation.
Requested(bound) == {h \in Holding \cup {bound} : Legacy(h)}

OneGeneration(bound) == \A a, b \in Requested(bound) : a.gen = b.gen

\* The map of predecessors, which is empty when one generation orders all.
PredecessorsFor(bound) ==
    [id \in {h.view.id : h \in Requested(bound)} |->
        IF OneGeneration(bound) THEN {} ELSE Predecessors(id)]

Earlier(before, a, b) == a.view.id \in before[b.view.id]

\* Orders the views of different generations by their places in them.
NewerMutant(before, a, b) ==
    CASE ~Legacy(a) /\ ~Legacy(b) -> a.view.seq > b.view.seq
      [] Legacy(a) # Legacy(b)    -> Legacy(b)
      [] OTHER -> a.row > b.row

\* The order of the answer: by number, by how many views come before, by row.
Newer(before, a, b) ==
    CASE ~Legacy(a) /\ ~Legacy(b) -> a.view.seq > b.view.seq
      [] Legacy(a) # Legacy(b)    -> Legacy(b)
      [] OTHER ->
           LET depth(h) == Cardinality(before[h.view.id])
           IN depth(a) > depth(b) \/ (depth(a) = depth(b) /\ a.row > b.row)

\* Not later than the bound, as far as that is known.
Eligible(before, bound, h) ==
    CASE ~Legacy(h) -> ~Legacy(bound) /\ h.view.seq <= bound.view.seq
      [] Legacy(h) /\ ~Legacy(bound) -> TRUE
      [] Legacy(h) /\ Legacy(bound) /\ h.gen = bound.gen -> h.row <= bound.row
      [] OTHER -> Earlier(before, h, bound)

\* Across generations a legacy view must be linked with the bound, if that is
\* one too, and with every other legacy view of the answer.
Ordered(before, bound) ==
    LET linked(a, b) == a.gen = b.gen \/ Earlier(before, a, b) \/ Earlier(before, b, a)
        answer == {h \in Holding : Legacy(h) /\ Eligible(before, bound, h)}
    IN /\ Legacy(bound) => \A h \in Holding : Legacy(h) => linked(h, bound)
       /\ \A a, b \in answer : linked(a, b)

\* The answer: its views, and which of two comes first.
HistoryAt(bound) ==
    LET before == PredecessorsFor(bound)
        answer == {h \in Holding : Eligible(before, bound, h)}
    IN IF Unavailable \in {before[id] : id \in DOMAIN before} \/ ~Ordered(before, bound)
         THEN Unavailable
         ELSE [views |-> answer,
               newer |-> {pair \in answer \X answer : Newer(before, pair[1], pair[2])}]

----------------------------------------------------------------------------

LegacyInit ==
    /\ tables = [g \in Generation |-> <<>>]
    /\ clocked = FALSE /\ corrupted = FALSE
    /\ count = 0

\* A view is published.  Its baseline is the view before it of its scope, if
\* that was found.
PublishView(g, baseline, holds) ==
    /\ count < MaxViews
    /\ count' = count + 1
    /\ tables' = [tables EXCEPT ![g] = Append(@, [id |-> count', baseline |-> baseline,
                     seq |-> IF clocked THEN count' ELSE NoView, holds |-> holds])]
    /\ UNCHANGED <<clocked, corrupted>>

StartClock ==
    /\ ~clocked
    /\ clocked' = TRUE
    /\ UNCHANGED <<tables, count, corrupted>>

\* An archive is deleted.
DropGeneration(g) ==
    /\ tables[g] # <<>>
    /\ tables' = [tables EXCEPT ![g] = <<>>]
    /\ UNCHANGED <<clocked, count, corrupted>>

\* The baseline of a view is damaged.
Corrupt(g, n, id) ==
    /\ ~corrupted
    /\ n \in DOMAIN tables[g]
    /\ id >= tables[g][n].id
    /\ tables' = [tables EXCEPT ![g][n].baseline = id]
    /\ corrupted' = TRUE
    /\ UNCHANGED <<clocked, count>>

LegacyNext ==
    \/ \E g \in Generation, baseline \in (1 .. count) \cup {NoView}, holds \in BOOLEAN :
          PublishView(g, baseline, holds)
    \/ StartClock
    \/ \E g \in Generation : DropGeneration(g)
    \/ \E g \in Generation, n \in Ids, id \in 1 .. count : Corrupt(g, n, id)

LegacySpec == LegacyInit /\ [][LegacyNext]_legacyVars

----------------------------------------------------------------------------
(* Properties *)

\* Whatever generations the views are in and whichever links are missing, the
\* history as of a view either is what was published until then, newest first,
\* or is refused: a session never sees evidence from its future.
HistoryIsTrue ==
    ~corrupted =>
        \A bound \in Rows :
            LET past == {h \in Holding : h.view.id <= bound.view.id} IN
            HistoryAt(bound) \in
                {Unavailable,
                 [views |-> past,
                  newer |-> {pair \in past \X past : pair[1].view.id > pair[2].view.id}]}

Links == UNION {{<<id, parent>> : parent \in Parents(id)} : id \in Ids}

\* The views before a view: those in every set that has the parents of the view
\* and of its own members.
Before(links, id) ==
    {x \in Ids :
        \A ids \in SUBSET Ids :
            (\A link \in links : link[1] \in ids \cup {id} => link[2] \in ids) => x \in ids}

\* The walk over the links finds every view before another one, ends, and
\* refuses exactly when a cycle can be reached, although many paths meet.
WalkIsClosure ==
    LET links == Links
        cycles == {x \in Ids : x \in Before(links, x)}
    IN \A h \in Rows :
          LET id == h.view.id
              before == Before(links, id)
          IN  Predecessors(id) =
                  IF (before \cup {id}) \cap cycles # {} THEN Unavailable ELSE before
=============================================================================
