---------------------------- MODULE NotesProofs ----------------------------
(***************************************************************************)
(* Proofs about Notes for any keys, texts, ids, worktrees, generations and  *)
(* rules.  The invariant comes in layers, each inductive relative to the    *)
(* ones before it: Base (types, and what the command's position says of its *)
(* memory), Ledger (what is remembered before anything is erased), Temps    *)
(* (every temporary file has a reservation that leads a purge to it), Bound *)
(* (what binds an answer is met by the command that gives it) and Story     *)
(* (index, ledger and unedited note files say the same of a note).          *)
(***************************************************************************)
EXTENDS Notes, TLAPS

WritingSteps == {"write", "writing", "link", "unlink", "durable"}
NoteSteps == {"backfill", "decide"} \cup WritingSteps

\* A command has a generation open, and once it works on a note it has a request.
OpenOK == IF pc = "idle" THEN open = None ELSE open \in Gen /\ ops[open] # None
RequestOK == pc \in NoteSteps => request \in Requests
\* A note is only written under a reservation, and only from a whole file.
WriteOK == /\ pc \in WritingSteps => Op # None
           /\ pc = "link" => Temp = "full"
PurgingOK ==
    pc = "temp" => /\ purging \in Gen \X Key
                   /\ ops[purging[1]] # None
                   /\ ops[purging[1]][purging[2]] # None
TodoOK == pc = "decide" => \A k \in todo : found[k] # None

Base == TypeOK /\ OpenOK /\ RequestOK /\ WriteOK /\ PurgingOK /\ TodoOK

USE RuleAssumption, NoneAssumption, MaxEditsAssumption
    DEF Content, Reservation, Identity

LEMMA InitBase == Init => Base
<1>1. ASSUME Init PROVE TypeOK
  <2>1. /\ note \in [Worktree -> [Id -> Content \cup {None, Broken}]]
        /\ temp \in [Worktree -> [Id -> {"none", "partial", "full"}]]
    BY <1>1 DEF Init
  <2>2. /\ ops \in [Gen -> [Key -> Reservation \cup {None}] \cup {None}]
        /\ current \in Exists \cup {None}
        /\ remembered \in [Key -> Identity \cup {None}]
    BY <1>1 DEF Init
  <2>3. found \in [Key -> Reservation \cup {None}]
    BY <1>1 DEF Init, Idle, EmptyTable
  <2>4. edits \in 0..MaxEdits
    BY <1>1 DEF Init
  <2>5. QED
    BY <1>1, <2>1, <2>2, <2>3, <2>4 DEF Init, Idle, TypeOK
<1>2. ASSUME Init PROVE pc = "idle" /\ open = None
  BY <1>2 DEF Init, Idle
<1>3. QED
  BY <1>1, <1>2 DEF Init, Idle, Base, OpenOK, RequestOK, WriteOK, PurgingOK, TodoOK, NoteSteps,
     WritingSteps

LEMMA OpTypes ==
    ASSUME Base, pc \in WritingSteps
    PROVE  /\ TheKey \in Key /\ Op \in Reservation
           /\ Op.id \in Id /\ Op.worktree \in Worktree /\ Op.text \in Text
<1>1. request \in Requests /\ pc # "idle"
  BY DEF Base, RequestOK, NoteSteps, WritingSteps
<1>2. TheKey \in Key /\ open \in Gen /\ ops[open] # None
  BY <1>1 DEF Base, OpenOK, Requests, TheKey
<1>3. Op \in Reservation
  BY <1>2 DEF Base, TypeOK, WriteOK, Op
<1>4. QED
  BY <1>2, <1>3

LEMMA WithTempType ==
    ASSUME Base, pc \in WritingSteps, NEW state \in {"none", "partial", "full"}
    PROVE  /\ WithTemp(state) \in [Worktree -> [Id -> {"none", "partial", "full"}]]
           /\ WithTemp(state)[Op.worktree][Op.id] = state
           /\ \A w \in Worktree, i \in Id :
                  w # Op.worktree \/ i # Op.id => WithTemp(state)[w][i] = temp[w][i]
BY OpTypes DEF Base, TypeOK, WithTemp

\* The answer of a command binds later ones.
LEMMA BindType ==
    ASSUME Base, TheKey \in Key, NEW i \in Id, Bind(i)
    PROVE  binding' \subseteq [key : Key, id : Id]
BY DEF Base, TypeOK, Bind

LEMMA ExitKeepsBase ==
    ASSUME Base, Exit, UNCHANGED <<note, ops, current, arrived, edits, erased, orphan>>,
           temp' \in [Worktree -> [Id -> {"none", "partial", "full"}]],
           remembered' \in [Key -> Identity \cup {None}],
           used' \subseteq Id,
           binding' \subseteq [key : Key, id : Id]
    PROVE  Base'
<1>1. TypeOK'
  BY DEF Exit, Base, TypeOK, Exists, EmptyTable
<1>2. pc' = "idle" /\ open' = None
  BY DEF Exit
<1>3. QED
  BY <1>1, <1>2 DEF Base, OpenOK, RequestOK, WriteOK, PurgingOK, TodoOK, NoteSteps,
     WritingSteps

LEMMA OpeningKeepsBase ==
    ASSUME Base, Opening
    PROVE  Base'
<1> USE DEF Goto, files, store, history, session
<1>1. CASE LoadRules \/ PurgeDone \/ ReloadRules
  BY <1>1 DEF LoadRules, PurgeDone, ReloadRules, Base, TypeOK, Exists, OpenOK, RequestOK,
     WriteOK, PurgingOK, TodoOK, NoteSteps, WritingSteps
<1>2. ASSUME NEW g \in Gen, NEW k \in Key, PurgeRemember(g, k)
      PROVE  Base'
  <2>1. ops[g] # None /\ ops[g][k] # None
    BY <1>2 DEF PurgeRemember, Exists, ToPurge
  <2>2. ops[g][k] \in Reservation
    BY <2>1 DEF Base, TypeOK
  <2>3. remembered' \in [Key -> Identity \cup {None}]
    BY <1>2, <2>2 DEF PurgeRemember, Remembered, Base, TypeOK
  <2>4. TypeOK'
    BY <1>2, <2>3 DEF PurgeRemember, Base, TypeOK, Exists
  <2>5. QED
    BY <1>2, <2>1, <2>4 DEF PurgeRemember, Base, OpenOK, RequestOK, WriteOK, PurgingOK,
       TodoOK, NoteSteps, WritingSteps
<1>3. ASSUME NEW g \in Gen, NEW k \in Key, PurgeConflict(g, k)
      PROVE  Base'
  BY <1>3 DEF PurgeConflict, Base, TypeOK, Exists, OpenOK, RequestOK,
     WriteOK, PurgingOK, TodoOK, NoteSteps, WritingSteps
<1>4. CASE PurgeTemp
  <2>1. purging \in Gen \X Key /\ ops[purging[1]][purging[2]] \in Reservation
    BY <1>4 DEF PurgeTemp, Base, TypeOK, PurgingOK
  <2>2. temp' \in [Worktree -> [Id -> {"none", "partial", "full"}]]
    BY <1>4, <2>1 DEF PurgeTemp, WithoutTemp, Base, TypeOK
  <2>3. TypeOK'
    BY <1>4, <2>1, <2>2 DEF PurgeTemp, Base, TypeOK, Exists
  <2>4. QED
    BY <1>4, <2>3 DEF PurgeTemp, Base, OpenOK, RequestOK, WriteOK, PurgingOK,
       TodoOK, NoteSteps, WritingSteps
<1>5. ASSUME NEW g \in Gen, PurgeRows(g)
      PROVE  Base'
  <2> DEFINE table == [k \in Key |-> IF k \in ToPurge(g) THEN None ELSE ops[g][k]]
  <2>1. ops[g] # None /\ ops[g] \in [Key -> Reservation \cup {None}]
    BY <1>5 DEF PurgeRows, Exists, Base, TypeOK
  <2>2. table \in [Key -> Reservation \cup {None}] /\ table # None
    BY <2>1
  <2>3. ops' = [ops EXCEPT ![g] = table]
    BY <1>5 DEF PurgeRows
  <2> HIDE DEF table
  <2>4. /\ ops' \in [Gen -> [Key -> Reservation \cup {None}] \cup {None}]
        /\ \A h \in Gen : ops[h] # None <=> ops'[h] # None
    BY <2>1, <2>2, <2>3 DEF Base, TypeOK
  <2>5. ToPurge(g) \subseteq Key /\ kept' \subseteq kept
    BY <1>5 DEF PurgeRows, ToPurge
  <2>6. TypeOK'
    BY <1>5, <2>4, <2>5 DEF PurgeRows, Base, TypeOK, Exists
  <2>7. QED
    BY <1>5, <2>4, <2>6 DEF PurgeRows, Base, TypeOK, OpenOK, RequestOK, WriteOK, PurgingOK,
       TodoOK, NoteSteps, WritingSteps
<1>6. ASSUME NEW published \in BOOLEAN, Reconcile(published)
      PROVE  Base'
  <2>1. binding' \subseteq binding
    BY <1>6 DEF Reconcile, StillBinding
  <2>2. TypeOK'
    BY <1>6, <2>1 DEF Reconcile, Base, TypeOK, Exists, OpenOK
  <2>3. request.kind = "note" => request \in Requests
    BY DEF Base, TypeOK, NoRequest, Requests
  <2>4. QED
    BY <1>6, <2>2, <2>3 DEF Reconcile, Base, OpenOK, RequestOK, WriteOK, PurgingOK,
       TodoOK, NoteSteps, WritingSteps
<1>7. CASE ReadNotes
  <2>1. /\ found' \in [Key -> Reservation \cup {None}]
        /\ \A k \in todo' : k \in Key /\ found'[k] \in Authored(k)
        /\ todo' \subseteq Key /\ conflicts' \subseteq Key
    BY <1>7 DEF ReadNotes
  <2>2. \A k \in todo' : found'[k] # None
    BY <2>1 DEF Authored
  <2>3. TypeOK'
    BY <1>7, <2>1 DEF ReadNotes, Base, TypeOK, Exists
  <2>4. QED
    BY <1>7, <2>2, <2>3 DEF ReadNotes, Base, OpenOK, RequestOK, WriteOK, PurgingOK,
       TodoOK, NoteSteps, WritingSteps
<1>8. CASE RefuseBroken
  BY <1>8 DEF RefuseBroken, Base, TypeOK, Exists, OpenOK, RequestOK,
     WriteOK, PurgingOK, TodoOK, NoteSteps, WritingSteps
<1>9. ASSUME NEW k \in Key, Backfill(k)
      PROVE  Base'
  <2>1. open \in Gen /\ ops[open] \in [Key -> Reservation \cup {None}] /\ found[k] \in Reservation
    BY <1>9 DEF Backfill, Base, TypeOK, OpenOK, TodoOK
  <2>2. Backfilled(k) \in [Key -> Reservation \cup {None}]
    BY <2>1 DEF Backfilled
  <2>3. /\ ops' \in [Gen -> [Key -> Reservation \cup {None}] \cup {None}]
        /\ \A h \in Gen : ops[h] # None <=> ops'[h] # None
    <3>1. CASE UNCHANGED ops
      BY <3>1 DEF Base, TypeOK
    <3>2. CASE ops' = [ops EXCEPT ![open] = Backfilled(k)]
      <4>1. Backfilled(k) # None /\ ops[open] # None
        BY <1>9, <2>2 DEF Backfill, Base, OpenOK
      <4>2. QED
        BY <2>1, <2>2, <3>2, <4>1 DEF Base, TypeOK
    <3>3. QED
      BY <1>9, <3>1, <3>2 DEF Backfill
  <2>4. remembered' \in [Key -> Identity \cup {None}] /\ conflicts' \subseteq Key
    BY <1>9, <2>1 DEF Backfill, Remembered, Base, TypeOK
  <2>5. TypeOK'
    BY <1>9, <2>3, <2>4 DEF Backfill, Base, TypeOK, Exists
  <2>6. QED
    BY <1>9, <2>3, <2>5 DEF Backfill, Base, TypeOK, OpenOK, RequestOK, WriteOK, PurgingOK,
       TodoOK, NoteSteps, WritingSteps
<1>10. QED
  BY <1>1, <1>2, <1>3, <1>4, <1>5, <1>6, <1>7, <1>8, <1>9 DEF Opening

LEMMA WritingKeepsBase ==
    ASSUME Base, Writing
    PROVE  Base'
<1> USE DEF Goto, files, store, history, session
<1>0. ASSUME Deciding
      PROVE  /\ TheKey \in Key /\ open \in Gen /\ request \in Requests
             /\ ops[open] \in [Key -> Reservation \cup {None}] /\ pc = "decide"
  BY <1>0 DEF Deciding, TheKey, Requests, Base, TypeOK, OpenOK, RequestOK, NoteSteps
<1>1. CASE Refuse
  <2>1. pc' = "failed" /\ UNCHANGED <<files, store, history, request, session>>
    BY <1>1 DEF Refuse
  <2>2. TypeOK'
    BY <2>1 DEF Base, TypeOK, Exists
  <2>3. open' \in Gen /\ ops'[open'] # None
    BY <1>0, <1>1, <2>1 DEF Refuse, Base, OpenOK
  <2>4. QED
    BY <2>1, <2>2, <2>3 DEF Base, OpenOK, RequestOK, WriteOK, PurgingOK, TodoOK,
       NoteSteps, WritingSteps
<1>2. CASE AnswerForgotten
  <2>1. TheKey \in Key /\ remembered[TheKey] \in Identity
    BY <1>0, <1>2 DEF AnswerForgotten, Retired, Base, TypeOK
  <2>2. binding' \subseteq [key : Key, id : Id]
    BY <1>2, <2>1, BindType DEF AnswerForgotten
  <2>3. QED
    BY <1>2, <2>2, ExitKeepsBase DEF AnswerForgotten, Base, TypeOK
<1>3. CASE Resume
  BY <1>3, <1>0 DEF Resume, Base, TypeOK, Exists, OpenOK, RequestOK, WriteOK, PurgingOK,
     TodoOK, NoteSteps, WritingSteps, Op, TheKey
<1>4. ASSUME NEW i \in Id, AnswerExcluded(i)
      PROVE  Base'
  <2>1. TheKey \in Key /\ request.text \in Text
    BY <1>0, <1>4 DEF AnswerExcluded, Requests
  <2>2. remembered' \in [Key -> Identity \cup {None}]
    BY <1>4, <2>1 DEF AnswerExcluded, Remembered, Base, TypeOK
  <2>3. binding' \subseteq [key : Key, id : Id]
    BY <1>4, <2>1, BindType DEF AnswerExcluded
  <2>4. QED
    BY <1>4, <2>2, <2>3, ExitKeepsBase DEF AnswerExcluded, Base, TypeOK
<1>5. ASSUME NEW i \in Id, Reserve(i)
      PROVE  Base'
  <2>1. /\ TheKey \in Key /\ open \in Gen /\ NewReservation(i) \in Reservation
        /\ ops[open] \in [Key -> Reservation \cup {None}]
        /\ request \in Requests
    BY <1>0, <1>5 DEF Reserve, Requests, NewReservation
  <2> DEFINE table == [ops[open] EXCEPT ![TheKey] = NewReservation(i)]
  <2>2. table \in [Key -> Reservation \cup {None}] /\ table # None /\ table[TheKey] # None
    BY <2>1
  <2>3. ops' = [ops EXCEPT ![open] = table]
    BY <1>5 DEF Reserve
  <2> HIDE DEF table
  <2>4. /\ ops' \in [Gen -> [Key -> Reservation \cup {None}] \cup {None}]
        /\ \A h \in Gen : ops[h] # None => ops'[h] # None
        /\ ops'[open][TheKey] # None
    BY <2>1, <2>2, <2>3 DEF Base, TypeOK
  <2>5. TypeOK'
    BY <1>5, <2>4 DEF Reserve, Base, TypeOK, Exists
  <2>6. QED
    BY <1>5, <2>1, <2>4, <2>5 DEF Reserve, Base, TypeOK, OpenOK, RequestOK, WriteOK,
       PurgingOK, TodoOK, NoteSteps, WritingSteps, Op, TheKey
<1>6. CASE FinalThere \/ ClearTemp \/ BeginTemp \/ EndTemp \/ Unlink
  <2>1. /\ pc \in WritingSteps /\ pc' \in WritingSteps \cup {"failed"}
        /\ pc' = "link" => temp' = WithTemp("full")
        /\ UNCHANGED <<note, store, history, request, session>>
        /\ \/ temp' = temp
           \/ \E state \in {"none", "partial", "full"} : temp' = WithTemp(state)
    BY <1>6 DEF FinalThere, ClearTemp, BeginTemp, EndTemp, Unlink, WritingSteps
  <2>2. /\ temp' \in [Worktree -> [Id -> {"none", "partial", "full"}]]
        /\ temp' = WithTemp("full") => temp'[Op.worktree][Op.id] = "full"
    BY <2>1, WithTempType DEF Base, TypeOK
  <2>3. TypeOK'
    BY <2>1, <2>2 DEF Base, TypeOK, Exists, WritingSteps
  <2>4. QED
    BY <2>1, <2>2, <2>3 DEF Base, OpenOK, RequestOK, WriteOK, PurgingOK,
       TodoOK, NoteSteps, WritingSteps, Op, Temp, TheKey
<1>7. CASE ReuseTemp \/ LinkFails
  BY <1>7 DEF ReuseTemp, TempIsWhole, LinkFails, Base, TypeOK, Exists, OpenOK, RequestOK,
     WriteOK, PurgingOK, TodoOK, NoteSteps, WritingSteps, Op, Temp, TheKey
<1>8. CASE Link
  <2>1. /\ TheKey \in Key /\ Op.id \in Id /\ Op.worktree \in Worktree /\ Op.text \in Text
    BY <1>8, OpTypes DEF Link, WritingSteps
  <2>2. note' \in [Worktree -> [Id -> Content \cup {None, Broken}]]
    BY <1>8, <2>1 DEF Link, Published, Base, TypeOK
  <2>3. TypeOK'
    BY <1>8, <2>2 DEF Link, Base, TypeOK, Exists
  <2>4. QED
    BY <1>8, <2>3 DEF Link, Base, OpenOK, RequestOK, WriteOK, PurgingOK,
       TodoOK, NoteSteps, WritingSteps, Op, Temp, TheKey
<1>9. CASE AnswerDurable
  <2>1. binding' \subseteq [key : Key, id : Id]
    BY <1>9, OpTypes, BindType DEF AnswerDurable, WritingSteps, Base, TypeOK
  <2>2. QED
    BY <1>9, <2>1, ExitKeepsBase DEF AnswerDurable, Base, TypeOK
<1>10. QED
  BY <1>1, <1>2, <1>3, <1>4, <1>5, <1>6, <1>7, <1>8, <1>9 DEF Writing

LEMMA BeginKeepsBase ==
    ASSUME Base, NEW req \in Requests \cup {NoRequest}, NEW rebuild \in BOOLEAN,
           Begin(req, rebuild)
    PROVE  Base'
<1> USE DEF Goto, files, store, history, session
<1>1. /\ ops' \in [Gen -> [Key -> Reservation \cup {None}] \cup {None}]
      /\ \A h \in Gen : ops[h] # None => ops'[h] # None
      /\ open' \in Gen /\ ops'[open'] # None
  <2>1. CASE UNCHANGED ops /\ open' = current /\ current # None
    BY <2>1 DEF Base, TypeOK, Exists
  <2>2. ASSUME NEW g \in Gen \ Exists, open' = g, ops' = [ops EXCEPT ![g] = EmptyTable]
        PROVE  /\ ops' \in [Gen -> [Key -> Reservation \cup {None}] \cup {None}]
               /\ \A h \in Gen : ops[h] # None => ops'[h] # None
               /\ open' \in Gen /\ ops'[open'] # None
    <3>1. EmptyTable \in [Key -> Reservation \cup {None}] /\ EmptyTable # None
      BY DEF EmptyTable
    <3>2. QED
      BY <2>2, <3>1 DEF Base, TypeOK
  <2>3. QED
    BY <2>1, <2>2 DEF Begin
<1>2. replacing' \in BOOLEAN /\ request' = req /\ pc = "idle" /\ pc' = "load"
  BY DEF Begin, Base, TypeOK
<1>3. TypeOK'
  BY <1>1, <1>2 DEF Begin, Base, TypeOK, Exists, Requests
<1>4. QED
  BY <1>1, <1>2, <1>3 DEF Base, OpenOK, RequestOK, WriteOK, PurgingOK, TodoOK, NoteSteps,
     WritingSteps

LEMMA EnvironmentKeepsBase ==
    ASSUME Base, Environment
    PROVE  Base'
<1> USE DEF files, store, history, session
<1>1. ASSUME NEW w \in Worktree, NEW i \in Id, NEW c \in Content \cup {None, Broken},
             EditNote(w, i, c)
      PROVE  Base'
  <2>1. note' \in [Worktree -> [Id -> Content \cup {None, Broken}]]
    BY <1>1 DEF EditNote, Base, TypeOK
  <2>2. binding' \subseteq binding /\ edits' \in 0..MaxEdits
    BY <1>1 DEF EditNote, StillBinding, Base, TypeOK
  <2>3. binding' \subseteq [key : Key, id : Id] /\ used' \subseteq Id
    BY <1>1, <2>2 DEF EditNote, Base, TypeOK
  <2>4. UNCHANGED <<temp, store, erased, orphan, pc, request, session>>
    BY <1>1 DEF EditNote
  <2>5. TypeOK'
    <3>1. TypeOK
      BY DEF Base
    <3>2. Exists' = Exists
      BY <2>4 DEF Exists
    <3>3. QED
      BY <2>1, <2>2, <2>3, <2>4, <3>1, <3>2 DEF TypeOK
  <2>6. UNCHANGED <<temp, ops, open, pc, request, purging, found, todo>>
    BY <2>4
  <2>7. QED
    BY <2>5, <2>6 DEF Base, OpenOK, RequestOK, WriteOK, PurgingOK, TodoOK, Op, Temp, TheKey
<1>2. ASSUME NEW rule \in Rule, Forget(rule)
      PROVE  Base'
  BY <1>2 DEF Forget, Base, TypeOK, Exists, OpenOK, RequestOK, WriteOK, PurgingOK,
     TodoOK, NoteSteps, WritingSteps, Op, Temp, TheKey
<1>3. ASSUME NEW g \in Gen, LoseIndex(g)
      PROVE  Base'
  <2>1. /\ ops' \in [Gen -> [Key -> Reservation \cup {None}] \cup {None}]
        /\ \A h \in Gen : h # g => ops'[h] = ops[h]
        /\ current' \in Exists' \cup {None}
    BY <1>3 DEF LoseIndex, Base, TypeOK, Exists
  <2>2. binding' \subseteq binding /\ orphan' \subseteq Id
    BY <1>3 DEF LoseIndex, StillBinding, Base, TypeOK
  <2>3. pc = "idle" /\ UNCHANGED <<files, remembered, arrived, used, edits, erased, pc,
                                     request, session>>
    BY <1>3 DEF LoseIndex
  <2>4. open' \in Exists' \cup {None}
    BY <1>3 DEF LoseIndex, Base, OpenOK
  <2>5. TypeOK'
    BY <2>1, <2>2, <2>3, <2>4 DEF Base, TypeOK
  <2>6. QED
    BY <2>3, <2>5 DEF Base, OpenOK, RequestOK, WriteOK, PurgingOK, TodoOK, NoteSteps,
       WritingSteps
<1>4. QED
  BY <1>1, <1>2, <1>3 DEF Environment

LEMMA BaseStep ==
    ASSUME Base, [Next]_vars
    PROVE  Base'
<1>1. CASE Finish \/ Crash
  BY <1>1, ExitKeepsBase DEF Finish, Crash, Base, TypeOK, files, store, history
<1>2. CASE UNCHANGED vars
  BY <1>2 DEF vars, files, store, history, session, Base, TypeOK, Exists, OpenOK, RequestOK,
     WriteOK, PurgingOK, TodoOK, Op, Temp, TheKey
<1>3. QED
  BY <1>1, <1>2, BeginKeepsBase, OpeningKeepsBase, WritingKeepsBase,
     EnvironmentKeepsBase DEF Next, Command

\* Every variable of Notes has its type in every reachable state.
THEOREM TypeCorrect == Spec => []TypeOK
<1>1. Base => TypeOK
  BY DEF Base
<1>2. QED
  BY <1>1, InitBase, BaseStep, PTL DEF Spec

-----------------------------------------------------------------------------
(* Published notes: only Link adds one, and only where there is none.       *)

LEMMA OnlyLinkPublishes ==
    ASSUME Base, [Next]_vars, edits' = edits
    PROVE  note' = note \/ Link
<1> USE DEF files, store, history, session
<1>1. ASSUME NEW w \in Worktree, NEW i \in Id, NEW c, EditNote(w, i, c)
      PROVE  FALSE
  BY <1>1 DEF EditNote, Base, TypeOK
<1>2. CASE Opening
  BY <1>2 DEF Opening, LoadRules, PurgeRemember, PurgeConflict, PurgeTemp, PurgeRows,
     PurgeDone, ReloadRules, Reconcile, ReadNotes, RefuseBroken, Backfill
<1>3. CASE Writing
  BY <1>3 DEF Writing, Refuse, AnswerForgotten, Resume, AnswerExcluded, Reserve, FinalThere,
     ClearTemp, ReuseTemp, BeginTemp, EndTemp, LinkFails, Unlink, AnswerDurable
<1>4. CASE Environment
  BY <1>1, <1>4 DEF Environment, Forget, LoseIndex
<1>5. QED
  BY <1>2, <1>3, <1>4 DEF Next, Command, Begin, Finish, Crash, vars

\* Where a link lands there was no file, and there is the whole note now.
LEMMA LinkPublishes ==
    ASSUME Base, Link, NEW w \in Worktree, NEW i \in Id, note'[w][i] # note[w][i]
    PROVE  /\ note[w][i] = None
           /\ note'[w][i] = [key |-> TheKey, text |-> Op.text]
           /\ note'[w][i] \in Content
<1>1. /\ TheKey \in Key /\ Op.id \in Id /\ Op.worktree \in Worktree /\ Op.text \in Text
      /\ Temp = "full"
  BY OpTypes DEF Link, WritingSteps, Base, WriteOK
<1>2. note' = [note EXCEPT ![Op.worktree][Op.id] = [key |-> TheKey, text |-> Op.text]]
  BY <1>1 DEF Link, Published
<1>3. w = Op.worktree /\ i = Op.id /\ note'[w][i] = [key |-> TheKey, text |-> Op.text]
  BY <1>1, <1>2 DEF Base, TypeOK
<1>4. QED
  BY <1>1, <1>3 DEF Link, MayLink, Final

\* memq never changes or removes a note file: it adds one where there is none,
\* however late somebody else puts one there (publish_note's hard link).
THEOREM PublishingKeepsFiles == Spec => AuthoredKept
<1>1. ASSUME Base, [Next]_vars
      PROVE  [\A w \in Worktree, i \in Id :
                 edits' = edits /\ note'[w][i] # note[w][i] => note[w][i] = None]_vars
  BY <1>1, OnlyLinkPublishes, LinkPublishes
<1>2. QED
  BY <1>1, InitBase, BaseStep, PTL DEF Spec, AuthoredKept

\* What memq adds is a whole note, although commands die while they write the
\* temporary file and later ones find what they left.
THEOREM PublishingIsWhole == Spec => OnlyWholeNotes
<1>1. ASSUME Base, [Next]_vars
      PROVE  [\A w \in Worktree, i \in Id :
                 edits' = edits /\ note'[w][i] # note[w][i] => note'[w][i] \in Content]_vars
  BY <1>1, OnlyLinkPublishes, LinkPublishes
<1>2. QED
  BY <1>1, InitBase, BaseStep, PTL DEF Spec, OnlyWholeNotes

-----------------------------------------------------------------------------
(* Ledger: a reservation is remembered before it is erased.                 *)

IsKept(g, k) == <<g, k>> \in kept \/ (pc = "temp" /\ purging = <<g, k>>)
Row(g, k) == ops[g] # None /\ ops[g][k] # None
\* The purge works on a reservation the rules forget, whose note the ledger has.
Safe(g, k) ==
    /\ Row(g, k)
    /\ ops[g][k].id \in rules
    /\ remembered[k] = [id |-> ops[g][k].id, text |-> ops[g][k].text]

KeptOK == \A g \in Gen, k \in Key : IsKept(g, k) => Safe(g, k)
KeptOnlyInPurge == pc \notin {"purge", "temp", "blocked"} => kept = {}
RulesOK == rules \subseteq arrived
ErasedOK == \A k \in erased : remembered[k] # None
\* A command that writes a note found its key free of forgotten notes.
FreshOK == pc \in WritingSteps => remembered[TheKey] = None

Ledger == KeptOK /\ KeptOnlyInPurge /\ RulesOK /\ ErasedOK /\ FreshOK

\* The ledger keeps its first word on a key.
LEMMA RememberedStays ==
    ASSUME Base, [Next]_vars, NEW k \in Key, remembered[k] # None
    PROVE  remembered'[k] = remembered[k]
<1> USE DEF files, store, history, session
<1>1. ASSUME NEW g \in Gen, NEW l \in Key, PurgeRemember(g, l)
      PROVE  remembered'[k] = remembered[k]
  BY <1>1 DEF PurgeRemember, Remembered, Agrees, Base, TypeOK
<1>2. ASSUME NEW l \in Key, Backfill(l)
      PROVE  remembered'[k] = remembered[k]
  <2>1. CASE UNCHANGED remembered
    BY <2>1
  <2>2. CASE ~Contradicts(l) /\ remembered' = Remembered(l, found[l].id, found[l].text)
    <3>1. l = k => remembered[k] = [id |-> found[l].id, text |-> found[l].text]
      BY <2>2 DEF Contradicts, SameNote, Base, TypeOK
    <3>2. QED
      BY <2>2, <3>1 DEF Remembered, Base, TypeOK
  <2>3. QED
    BY <1>2, <2>1, <2>2 DEF Backfill
<1>3. ASSUME NEW i \in Id, AnswerExcluded(i)
      PROVE  remembered'[k] = remembered[k]
  BY <1>3 DEF AnswerExcluded, Retired, Remembered, Base, TypeOK
<1>4. CASE Opening
  BY <1>1, <1>2, <1>4 DEF Opening, LoadRules, PurgeConflict, PurgeTemp, PurgeRows,
     PurgeDone, ReloadRules, Reconcile, ReadNotes, RefuseBroken
<1>5. CASE Writing
  BY <1>3, <1>5 DEF Writing, Refuse, AnswerForgotten, Resume, Reserve, FinalThere,
     ClearTemp, ReuseTemp, BeginTemp, EndTemp, Link, LinkFails, Unlink, AnswerDurable
<1>6. CASE Environment
  BY <1>6 DEF Environment, EditNote, Forget, LoseIndex
<1>7. QED
  BY <1>4, <1>5, <1>6 DEF Next, Command, Begin, Finish, Crash, vars

\* Only a purge, or the loss of the index, takes a reservation away, and nothing
\* changes what one says.
LEMMA RowStays ==
    ASSUME Base, [Next]_vars, NEW g \in Gen, NEW k \in Key, Row(g, k)
    PROVE  \/ ops'[g] # None /\ ops'[g][k] = ops[g][k]
           \/ PurgeRows(g) /\ k \in ToPurge(g)
           \/ LoseIndex(g)
<1> DEFINE Goal == \/ ops'[g] # None /\ ops'[g][k] = ops[g][k]
                   \/ PurgeRows(g) /\ k \in ToPurge(g)
                   \/ LoseIndex(g)
<1> USE DEF files, store, history, session
<1>1. CASE UNCHANGED ops
  BY <1>1 DEF Row
<1>2. ASSUME NEW h \in Gen, PurgeRows(h)
      PROVE  Goal
  <2> DEFINE table == [l \in Key |-> IF l \in ToPurge(h) THEN None ELSE ops[h][l]]
  <2>1. ops' = [ops EXCEPT ![h] = table]
    BY <1>2 DEF PurgeRows
  <2>2. CASE h # g
    BY <2>1, <2>2 DEF Row, Base, TypeOK
  <2>3. CASE h = g /\ k \notin ToPurge(g)
    <3>1. ops'[g] = table
      BY <2>1, <2>3 DEF Base, TypeOK
    <3>2. table \in [Key -> Reservation \cup {None}]
      BY <2>3 DEF Row, Base, TypeOK
    <3>3. table # None /\ table[k] = ops[g][k]
      BY <2>3, <3>2
    <3>4. QED
      BY <3>1, <3>3
  <2>4. QED
    BY <1>2, <2>2, <2>3
<1>3. ASSUME NEW l \in Key, Backfill(l), ops' # ops
      PROVE  Goal
  <2>1. open \in Gen /\ ops[open] \in [Key -> Reservation \cup {None}]
    BY <1>3 DEF Backfill, Base, TypeOK, OpenOK
  <2>2. found[l] \in Reservation /\ ops' = [ops EXCEPT ![open] = Backfilled(l)]
    BY <1>3 DEF Backfill, Base, TypeOK, TodoOK
  <2>3. Backfilled(l) \in [Key -> Reservation \cup {None}]
    BY <2>1, <2>2 DEF Backfilled
  <2>4. Backfilled(l) # None /\ (open = g => Backfilled(l)[k] = ops[g][k])
    BY <2>1, <2>2, <2>3 DEF Backfilled, Row
  <2>5. QED
    BY <2>1, <2>2, <2>4 DEF Row, Base, TypeOK
<1>4. ASSUME NEW i \in Id, Reserve(i)
      PROVE  Goal
  <2>1. open \in Gen /\ ops[open] \in [Key -> Reservation \cup {None}] /\ TheKey \in Key
    BY <1>4 DEF Reserve, Deciding, TheKey, Requests, NoteSteps, Base, TypeOK, OpenOK, RequestOK
  <2> DEFINE table == [ops[open] EXCEPT ![TheKey] = NewReservation(i)]
  <2>2. ops' = [ops EXCEPT ![open] = table] /\ ops[open][TheKey] = None
    BY <1>4 DEF Reserve, Op
  <2>3. NewReservation(i) \in Reservation
    BY <1>4 DEF Reserve, NewReservation, Deciding, Requests, NoteSteps, Base, RequestOK
  <2>4. table \in [Key -> Reservation \cup {None}]
    BY <2>1, <2>3
  <2>5. table # None /\ (open = g => table[k] = ops[g][k])
    BY <2>1, <2>2, <2>4 DEF Row
  <2>6. QED
    BY <2>1, <2>2, <2>5 DEF Row, Base, TypeOK
<1>5. ASSUME NEW req, NEW rebuild, Begin(req, rebuild), ops' # ops
      PROVE  Goal
  <2>1. PICK h \in Gen \ Exists : ops' = [ops EXCEPT ![h] = EmptyTable]
    BY <1>5 DEF Begin
  <2>2. h # g
    BY DEF Exists, Row
  <2>3. QED
    BY <2>1, <2>2 DEF Row, Base, TypeOK
<1>6. ASSUME NEW h \in Gen, LoseIndex(h)
      PROVE  Goal
  <2>1. CASE h = g
    BY <1>6, <2>1
  <2>2. CASE h # g
    <3>1. ops' = [ops EXCEPT ![h] = None]
      BY <1>6 DEF LoseIndex
    <3>2. QED
      BY <2>2, <3>1 DEF Row, Base, TypeOK
  <2>3. QED
    BY <2>1, <2>2
<1>7. CASE Opening
  BY <1>1, <1>2, <1>3, <1>7 DEF Opening, LoadRules, PurgeRemember, PurgeConflict, PurgeTemp,
     PurgeDone, ReloadRules, Reconcile, ReadNotes, RefuseBroken
<1>8. CASE Writing
  BY <1>1, <1>4, <1>8 DEF Writing, Refuse, AnswerForgotten, AnswerExcluded, Resume, FinalThere,
     ClearTemp, ReuseTemp, BeginTemp, EndTemp, Link, LinkFails, Unlink, AnswerDurable
<1>9. CASE Environment
  BY <1>1, <1>6, <1>9 DEF Environment, EditNote, Forget
<1>10. CASE Finish \/ Crash \/ UNCHANGED vars
  BY <1>1, <1>10 DEF Finish, Crash, vars
<1>11. CASE \/ \E req \in Requests : Begin(req, FALSE)
            \/ \E rebuild \in BOOLEAN : Begin(NoRequest, rebuild)
  BY <1>1, <1>5, <1>11
<1>12. QED
  BY <1>7, <1>8, <1>9, <1>10, <1>11 DEF Next, Command

\* What a step does to the reservations the purge works on.
LEMMA KeptStep ==
    ASSUME Base, Ledger, [Next]_vars,
           NEW g \in Gen, NEW k \in Key, IsKept(g, k)'
    PROVE  \/ PurgeRemember(g, k)
           \/ IsKept(g, k) /\ rules' = rules /\ ops'[g] = ops[g]
<1> DEFINE Goal == \/ PurgeRemember(g, k)
                   \/ IsKept(g, k) /\ rules' = rules /\ ops'[g] = ops[g]
<1> USE DEF files, store, history, session, Goto, IsKept, Ledger, KeptOnlyInPurge
<1>1. CASE LoadRules \/ PurgeDone \/ ReloadRules \/ ReadNotes \/ RefuseBroken
  BY <1>1 DEF LoadRules, PurgeDone, ReloadRules, ReadNotes, RefuseBroken
<1>2. ASSUME NEW h \in Gen, NEW l \in Key, PurgeRemember(h, l) PROVE Goal
  <2>1. CASE <<g, k>> \in kept
    BY <1>2, <2>1 DEF PurgeRemember
  <2>2. CASE <<g, k>> \notin kept
    <3>1. <<h, l>> = <<g, k>>
      BY <1>2, <2>2 DEF PurgeRemember
    <3>2. h = g /\ l = k
      BY <3>1
    <3>3. QED
      BY <1>2, <3>2
  <2>3. QED
    BY <2>1, <2>2
<1>3. ASSUME NEW h \in Gen, NEW l \in Key, PurgeConflict(h, l) PROVE Goal
  BY <1>3 DEF PurgeConflict
<1>4. CASE PurgeTemp
  BY <1>4 DEF PurgeTemp
<1>5. ASSUME NEW h \in Gen, PurgeRows(h) PROVE Goal
  <2>1. g # h /\ <<g, k>> \in kept
    BY <1>5 DEF PurgeRows
  <2>2. ops'[g] = ops[g]
    BY <1>5, <2>1 DEF PurgeRows, Base, TypeOK
  <2>3. QED
    BY <1>5, <2>1, <2>2 DEF PurgeRows
<1>6. ASSUME NEW published \in BOOLEAN, Reconcile(published) PROVE Goal
  BY <1>6 DEF Reconcile
<1>7. ASSUME NEW l \in Key, Backfill(l) PROVE Goal
  BY <1>7 DEF Backfill
<1>8. CASE Writing
  BY <1>8 DEF Writing, Refuse, AnswerForgotten, Resume, AnswerExcluded, Reserve, FinalThere,
     ClearTemp, ReuseTemp, BeginTemp, EndTemp, Link, LinkFails, Unlink, AnswerDurable,
     Deciding, Exit
<1>9. CASE Environment
  BY <1>9 DEF Environment, EditNote, Forget, LoseIndex
<1>10. CASE Finish \/ Crash \/ UNCHANGED vars
  BY <1>10 DEF Finish, Crash, Exit, vars
<1>11. ASSUME NEW req, NEW rebuild, Begin(req, rebuild) PROVE Goal
  BY <1>11 DEF Begin
<1>12. CASE Opening
  BY <1>1, <1>2, <1>3, <1>4, <1>5, <1>6, <1>7, <1>12 DEF Opening
<1>13. QED
  BY <1>8, <1>9, <1>10, <1>11, <1>12 DEF Next, Command

LEMMA LedgerStep ==
    ASSUME Base, Ledger, [Next]_vars
    PROVE  Ledger'
<1> USE DEF files, store, history, session, Goto
<1>1. ASSUME NEW g \in Gen, NEW k \in Key, IsKept(g, k)'
      PROVE  Safe(g, k)'
  <2>1. CASE PurgeRemember(g, k)
    <3>1. Row(g, k) /\ ops[g][k].id \in rules
      BY <2>1 DEF PurgeRemember, ToPurge, Exists, Row
    <3>2. remembered'[k] = [id |-> ops[g][k].id, text |-> ops[g][k].text]
      BY <2>1 DEF PurgeRemember, Remembered, Base, TypeOK
    <3>3. QED
      BY <2>1, <3>1, <3>2 DEF PurgeRemember, Safe, Row
  <2>2. CASE IsKept(g, k) /\ rules' = rules /\ ops'[g] = ops[g]
    <3>1. Safe(g, k)
      BY <2>2 DEF Ledger, KeptOK
    <3>2. remembered[k] # None
      BY <3>1 DEF Safe, Row, Base, TypeOK
    <3>3. remembered'[k] = remembered[k]
      BY <3>2, RememberedStays
    <3>4. QED
      BY <2>2, <3>1, <3>3 DEF Safe, Row
  <2>3. QED
    BY <1>1, <2>1, <2>2, KeptStep
<1>2. KeptOnlyInPurge'
  <2>1. CASE PurgeDone
    <3>1. \A e \in kept : e = <<e[1], e[2]>> /\ e[1] \in Gen /\ e[2] \in Key
      BY DEF Base, TypeOK
    <3>2. \A e \in kept : Safe(e[1], e[2])
      BY <3>1 DEF Ledger, KeptOK, IsKept
    <3>3. \A e \in kept : e[1] \in Exists /\ e[2] \in ToPurge(e[1])
      BY <3>1, <3>2 DEF Safe, Row, Exists, ToPurge
    <3>4. QED
      BY <2>1, <3>3 DEF PurgeDone, KeptOnlyInPurge
  <2>2. CASE Opening /\ ~PurgeDone
    BY <2>2 DEF Ledger, KeptOnlyInPurge, Opening, LoadRules, PurgeRemember, PurgeConflict,
       PurgeTemp, PurgeRows, ReloadRules, Reconcile, ReadNotes, RefuseBroken, Backfill
  <2>3. CASE Writing
    BY <2>3 DEF Ledger, KeptOnlyInPurge, Writing, Refuse, AnswerForgotten, Resume,
       AnswerExcluded, Reserve, FinalThere, ClearTemp, ReuseTemp, BeginTemp, EndTemp, Link,
       LinkFails, Unlink, AnswerDurable, Deciding, Exit
  <2>4. CASE Environment
    BY <2>4 DEF Ledger, KeptOnlyInPurge, Environment, EditNote, Forget, LoseIndex
  <2>5. QED
    BY <2>1, <2>2, <2>3, <2>4 DEF Ledger, KeptOnlyInPurge, Next, Command, Begin, Finish,
       Crash, Exit, vars
<1>3. RulesOK'
  <2>1. CASE Opening
    BY <2>1 DEF Ledger, RulesOK, Opening, LoadRules, PurgeRemember, PurgeConflict, PurgeTemp,
       PurgeRows, PurgeDone, ReloadRules, Reconcile, ReadNotes, RefuseBroken, Backfill
  <2>2. CASE Writing
    BY <2>2 DEF Ledger, RulesOK, Writing, Refuse, AnswerForgotten, Resume,
       AnswerExcluded, Reserve, FinalThere, ClearTemp, ReuseTemp, BeginTemp, EndTemp, Link,
       LinkFails, Unlink, AnswerDurable, Exit
  <2>3. CASE Environment
    BY <2>3 DEF Ledger, RulesOK, Environment, EditNote, Forget, LoseIndex
  <2>4. QED
    BY <2>1, <2>2, <2>3 DEF Ledger, RulesOK, Next, Command, Begin, Finish, Crash, Exit, vars
<1>4. ErasedOK'
  <2>1. \A k \in Key : remembered[k] # None => remembered'[k] # None
    BY RememberedStays
  <2>2. ASSUME NEW g \in Gen, PurgeRows(g), NEW k \in ToPurge(g)
        PROVE  remembered[k] # None
    <3>1. k \in Key /\ Safe(g, k)
      BY <2>2 DEF PurgeRows, ToPurge, Ledger, KeptOK, IsKept
    <3>2. QED
      BY <3>1 DEF Safe, Row, Base, TypeOK
  <2>3. ASSUME NEW k \in erased' PROVE k \in Key /\ remembered[k] # None
    <3>1. CASE k \in erased
      BY <3>1 DEF Ledger, ErasedOK, Base, TypeOK
    <3>2. CASE k \notin erased
      <4>1. PICK g \in Gen : PurgeRows(g)
        BY <2>3, <3>2 DEF Next, Command, Begin, Finish, Crash, Exit, vars, Opening, LoadRules,
           PurgeRemember, PurgeConflict, PurgeTemp, PurgeDone, ReloadRules, Reconcile,
           ReadNotes, RefuseBroken, Backfill, Writing, Refuse, AnswerForgotten, Resume,
           AnswerExcluded, Reserve, FinalThere, ClearTemp, ReuseTemp, BeginTemp, EndTemp, Link,
           LinkFails, Unlink, AnswerDurable, Environment, EditNote, Forget, LoseIndex
      <4>2. k \in ToPurge(g)
        BY <2>3, <3>2, <4>1 DEF PurgeRows
      <4>3. QED
        BY <2>2, <4>1, <4>2 DEF ToPurge
    <3>3. QED
      BY <3>1, <3>2
  <2>4. QED
    BY <2>1, <2>3 DEF ErasedOK
<1>5. FreshOK'
  <2>1. CASE Opening
    BY <2>1, ZenonT(40) DEF FreshOK, WritingSteps, Opening, LoadRules, PurgeRemember, PurgeConflict,
       PurgeTemp, PurgeRows, PurgeDone, ReloadRules, Reconcile, ReadNotes, RefuseBroken,
       Backfill
  <2>2. CASE Writing
    BY <2>2 DEF Ledger, FreshOK, WritingSteps, Writing, Refuse, AnswerForgotten, Resume,
       AnswerExcluded, Reserve, FinalThere, ClearTemp, ReuseTemp, BeginTemp, EndTemp, Link,
       LinkFails, Unlink, AnswerDurable, Exit, Deciding, Retired, TheKey
  <2>3. CASE Environment
    BY <2>3 DEF Ledger, FreshOK, Environment, EditNote, Forget, LoseIndex, TheKey
  <2>4. QED
    BY <2>1, <2>2, <2>3 DEF Ledger, FreshOK, Next, Command, Begin, Finish, Crash, Exit, vars,
       TheKey, WritingSteps
<1>6. QED
  BY <1>1, <1>2, <1>3, <1>4, <1>5 DEF Ledger, KeptOK

LEMMA InitLedger == Init => Ledger
BY DEF Init, Idle, Ledger, KeptOK, IsKept, KeptOnlyInPurge, RulesOK, ErasedOK, FreshOK,
   WritingSteps

\* What is known of a key stays known: in its row, which goes only when the
\* ledger has it, in an authored note, or in the ledger.
LEMMA KnownStays ==
    ASSUME Base, Ledger, [Next]_vars, edits' = edits, current' = current,
           NEW k \in Key, NEW i \in Id, Knows(k, i, ops, current, note, remembered)
    PROVE  Knows(k, i, ops', current, note', remembered')
<1>1. CASE remembered[k] # None /\ remembered[k].id = i
  BY <1>1, RememberedStays DEF Knows
<1>2. ASSUME NEW w \in Worktree, note[w][i] # None, note[w][i].key = k
      PROVE  Knows(k, i, ops', current, note', remembered')
  <2>1. note'[w][i] = note[w][i]
    BY <1>2, OnlyLinkPublishes, LinkPublishes
  <2>2. QED
    BY <1>2, <2>1 DEF Knows
<1>3. CASE current # None /\ ops[current][k] # None /\ ops[current][k].id = i
  <2>1. current \in Gen /\ Row(current, k)
    BY <1>3 DEF Base, TypeOK, Exists, Row
  <2>2. CASE ops'[current][k] = ops[current][k]
    BY <1>3, <2>2 DEF Knows
  <2>3. CASE PurgeRows(current) /\ k \in ToPurge(current)
    <3>1. IsKept(current, k)
      BY <2>3 DEF PurgeRows, IsKept
    <3>2. Safe(current, k)
      BY <2>1, <3>1 DEF Ledger, KeptOK
    <3>3. remembered[k] # None /\ remembered[k].id = i
      BY <1>3, <2>1, <3>2 DEF Safe, Row, Base, TypeOK
    <3>4. QED
      BY <1>1, <3>3
  <2>4. CASE LoseIndex(current)
    BY <1>3, <2>4 DEF LoseIndex
  <2>5. QED
    BY <2>1, <2>2, <2>3, <2>4, RowStays
<1>4. QED
  BY <1>1, <1>2, <1>3 DEF Knows

\* No step of a command, no death of one and no purge releases a key that stands
\* for a note (purge_note_ops remembers before it deletes).
THEOREM CommandsKeepKeys == Spec => KeyNeverReleased
<1>1. ASSUME Base, Ledger, [Next]_vars
      PROVE  [edits' = edits /\ current' = current =>
                 \A k \in Key, i \in Id :
                     Knows(k, i, ops, current, note, remembered)
                         => Knows(k, i, ops', current, note', remembered')]_vars
  BY <1>1, KnownStays
<1>2. QED
  BY <1>1, InitBase, BaseStep, InitLedger, LedgerStep, PTL DEF Spec, KeyNeverReleased

\* Once a purge deleted the reservation of a key, no command publishes a note
\* under that key again (forgotten_note_ops outlives every index).
THEOREM PurgedKeysStayPurged == Spec => ErasedStaysErased
<1>1. ASSUME Base, Ledger, [Next]_vars, NEW w \in Worktree, NEW i \in Id,
             edits' = edits, note'[w][i] # note[w][i]
      PROVE  note'[w][i].key \notin erased
  <2>1. Link
    BY <1>1, OnlyLinkPublishes
  <2>2. note'[w][i].key = TheKey
    BY <1>1, <2>1, LinkPublishes
  <2>3. remembered[TheKey] = None
    BY <1>1, <2>1 DEF Link, Ledger, FreshOK, WritingSteps
  <2>4. QED
    BY <1>1, <2>2, <2>3 DEF Ledger, ErasedOK
<1>2. ASSUME Base, Ledger, [Next]_vars
      PROVE  [\A w \in Worktree, i \in Id :
                 edits' = edits /\ note'[w][i] # note[w][i]
                     => note'[w][i].key \notin erased]_vars
  BY <1>1, <1>2
<1>3. QED
  BY <1>2, InitBase, BaseStep, InitLedger, LedgerStep, PTL DEF Spec, ErasedStaysErased

-----------------------------------------------------------------------------
(* Temps: every temporary file has a reservation that leads a purge to it.  *)

LeadsTo(g, k, w, i) ==
    Row(g, k) /\ ops[g][k].worktree = w /\ ops[g][k].id = i
TempOwned ==
    \A w \in Worktree, i \in Id : temp[w][i] # "none" =>
        i \in orphan \/ \E g \in Gen, k \in Key : LeadsTo(g, k, w, i)
\* The reservations a purge dealt with have no temporary file any more.
KeptClean ==
    \A g \in Gen, k \in Key : <<g, k>> \in kept =>
        temp[ops[g][k].worktree][ops[g][k].id] = "none"
\* Behind the purge no reservation is forgotten by the rules it worked with.
BeforePurge == {"idle", "load", "purge", "temp", "blocked"}
RowsClean ==
    pc \notin BeforePurge => \A g \in Gen, k \in Key :
        Row(g, k) => ops[g][k].id \notin rules

Temps == TempOwned /\ KeptClean /\ RowsClean

LEMMA InitTemps == Init => Temps
BY DEF Init, Idle, Temps, TempOwned, KeptClean, RowsClean, BeforePurge

\* Only the command that writes a note and the purge touch temporary files.
LEMMA TempStep ==
    ASSUME Base, [Next]_vars
    PROVE  \/ temp' = temp
           \/ PurgeTemp
           \/ /\ pc \in WritingSteps /\ ops' = ops
              /\ \E state \in {"none", "partial", "full"} : temp' = WithTemp(state)
<1> USE DEF files, store, history, session
<1>1. CASE Opening
  BY <1>1 DEF Opening, LoadRules, PurgeRemember, PurgeConflict, PurgeRows,
     PurgeDone, ReloadRules, Reconcile, ReadNotes, RefuseBroken, Backfill
<1>2. CASE Writing
  BY <1>2 DEF Writing, Refuse, AnswerForgotten, Resume, AnswerExcluded, Reserve, FinalThere,
     ClearTemp, ReuseTemp, BeginTemp, EndTemp, Link, LinkFails, Unlink, AnswerDurable,
     WritingSteps
<1>3. CASE Environment
  BY <1>3 DEF Environment, EditNote, Forget, LoseIndex
<1>4. QED
  BY <1>1, <1>2, <1>3 DEF Next, Command, Begin, Finish, Crash, vars

LEMMA TempsStep ==
    ASSUME Base, Ledger, Temps, [Next]_vars
    PROVE  Temps'
<1> USE DEF files, store, history, session, Goto
<1>1. TempOwned'
  <2>1. orphan \subseteq orphan'
    <3>1. CASE Opening
      BY <3>1 DEF Opening, LoadRules, PurgeRemember, PurgeConflict, PurgeTemp, PurgeRows,
         PurgeDone, ReloadRules, Reconcile, ReadNotes, RefuseBroken, Backfill
    <3>2. CASE Writing
      BY <3>2 DEF Writing, Refuse, AnswerForgotten, Resume, AnswerExcluded, Reserve,
         FinalThere, ClearTemp, ReuseTemp, BeginTemp, EndTemp, Link, LinkFails, Unlink,
         AnswerDurable
    <3>3. CASE Environment
      BY <3>3 DEF Environment, EditNote, Forget, LoseIndex
    <3>4. QED
      BY <3>1, <3>2, <3>3 DEF Next, Command, Begin, Finish, Crash, vars
  <2>2. ASSUME NEW w \in Worktree, NEW i \in Id, temp'[w][i] # "none"
        PROVE  i \in orphan \/ \E g \in Gen, k \in Key : LeadsTo(g, k, w, i)
    <3>1. CASE temp[w][i] # "none"
      BY <3>1 DEF Temps, TempOwned
    <3>2. CASE temp[w][i] = "none"
      <4>1. ~PurgeTemp
        <5>1. ASSUME PurgeTemp PROVE FALSE
          <6>1. ops[purging[1]][purging[2]] \in Reservation
            BY <5>1 DEF PurgeTemp, Base, TypeOK, PurgingOK
          <6>2. QED
            BY <2>2, <3>2, <5>1, <6>1 DEF PurgeTemp, WithoutTemp, Base, TypeOK
        <5>2. QED
          BY <5>1
      <4>2. /\ pc \in WritingSteps /\ w = Op.worktree /\ i = Op.id
        BY <2>2, <3>2, <4>1, TempStep, WithTempType
      <4>3. open \in Gen /\ TheKey \in Key /\ LeadsTo(open, TheKey, w, i)
        BY <4>2, OpTypes DEF Base, OpenOK, WriteOK, LeadsTo, Row, Op, WritingSteps
      <4>4. QED
        BY <4>3
    <3>3. QED
      BY <3>1, <3>2
  <2>3. ASSUME NEW w \in Worktree, NEW i \in Id, temp'[w][i] # "none",
               NEW g \in Gen, NEW k \in Key, LeadsTo(g, k, w, i)
        PROVE  LeadsTo(g, k, w, i)' \/ i \in orphan'
    <3>1. CASE ops'[g] # None /\ ops'[g][k] = ops[g][k]
      BY <2>3, <3>1 DEF LeadsTo, Row
    <3>2. CASE PurgeRows(g) /\ k \in ToPurge(g)
      <4>1. temp[w][i] = "none" /\ temp' = temp
        BY <2>3, <3>2 DEF PurgeRows, Temps, KeptClean, LeadsTo
      <4>2. QED
        BY <2>3, <4>1
    <3>3. CASE LoseIndex(g)
      BY <2>3, <3>3 DEF LoseIndex, LeadsTo, Row
    <3>4. QED
      BY <2>3, <3>1, <3>2, <3>3, RowStays DEF LeadsTo
  <2>4. QED
    BY <2>1, <2>2, <2>3 DEF TempOwned
<1>2. KeptClean'
  <2> SUFFICES ASSUME NEW g \in Gen, NEW k \in Key, (<<g, k>> \in kept)'
               PROVE  (temp[ops[g][k].worktree][ops[g][k].id] = "none")'
    BY DEF KeptClean
  <2>1. IsKept(g, k)'
    BY DEF IsKept
  <2>2. CASE PurgeRemember(g, k)
    <3>1. <<g, k>> \in kept /\ UNCHANGED <<kept, temp, ops>>
      BY <2>2 DEF PurgeRemember
    <3>2. QED
      BY <3>1 DEF Temps, KeptClean
  <2>3. CASE IsKept(g, k) /\ rules' = rules /\ ops'[g] = ops[g]
    <3>1. Row(g, k) /\ ops[g][k] \in Reservation
      BY <2>3 DEF Ledger, KeptOK, Safe, Row, Base, TypeOK
    <3>2. CASE PurgeTemp
      <4>1. CASE purging = <<g, k>>
        BY <3>1, <3>2, <4>1 DEF PurgeTemp, WithoutTemp, Base, TypeOK
      <4>2. CASE purging # <<g, k>>
        <5>1. <<g, k>> \in kept /\ temp[ops[g][k].worktree][ops[g][k].id] = "none"
          BY <3>2, <4>2 DEF PurgeTemp, Temps, KeptClean
        <5>2. ops[purging[1]][purging[2]] \in Reservation
          BY <3>2, SMTT(30) DEF PurgeTemp, Base, TypeOK, PurgingOK
        <5>3. temp'[ops[g][k].worktree][ops[g][k].id] = "none"
          BY <3>1, <3>2, <5>1, <5>2 DEF PurgeTemp, WithoutTemp, Base, TypeOK
        <5>4. QED
          BY <2>3, <5>3
      <4>3. QED
        BY <4>1, <4>2
    <3>3. CASE temp' = temp
      <4>1. CASE <<g, k>> \in kept
        BY <2>3, <3>3, <4>1 DEF Temps, KeptClean
      <4>2. CASE <<g, k>> \notin kept
        <5>1. pc = "temp"
          BY <2>3, <4>2 DEF IsKept
        <5>2. PurgeTemp
          BY <4>2, <5>1 DEF Next, Command, Begin, Finish, Crash, Exit, vars, Opening, LoadRules,
             PurgeRemember, PurgeConflict, PurgeRows, PurgeDone, ReloadRules, Reconcile,
             ReadNotes, RefuseBroken, Backfill, Writing, Refuse, AnswerForgotten, Resume,
             AnswerExcluded, Reserve, FinalThere, ClearTemp, ReuseTemp, BeginTemp, EndTemp,
             Link, LinkFails, Unlink, AnswerDurable, Environment, EditNote, Forget, LoseIndex
        <5>3. QED
          BY <3>2, <5>2
      <4>3. QED
        BY <4>1, <4>2
    <3>4. pc \notin WritingSteps
      BY <2>3 DEF IsKept, Ledger, KeptOnlyInPurge, WritingSteps
    <3>5. QED
      BY <3>2, <3>3, <3>4, TempStep
  <2>4. QED
    BY <2>1, <2>2, <2>3, KeptStep
<1>3. RowsClean'
  <2> SUFFICES ASSUME pc' \notin BeforePurge, NEW g \in Gen, NEW k \in Key, Row(g, k)'
               PROVE  ops'[g][k].id \notin rules'
    BY DEF RowsClean
  <2>1. CASE PurgeDone
    <3>1. Row(g, k) /\ UNCHANGED <<ops, rules>>
      BY <2>1 DEF PurgeDone, Row
    <3>2. g \in Exists /\ k \notin ToPurge(g)
      BY <2>1, <3>1 DEF PurgeDone, Row, Exists
    <3>3. QED
      BY <3>1, <3>2 DEF ToPurge, Row
  <2>2. ASSUME NEW l \in Key, Backfill(l)
        PROVE  ops'[g][k].id \notin rules'
    <3>1. /\ pc \notin BeforePurge /\ rules' = rules
          /\ open \in Gen /\ ops[open] \in [Key -> Reservation \cup {None}]
          /\ found[l] \in Reservation
      BY <2>2 DEF Backfill, BeforePurge, Base, TypeOK, OpenOK, TodoOK
    <3>2. CASE ops' = ops
      BY <3>1, <3>2 DEF Temps, RowsClean, Row
    <3>3. CASE ops' = [ops EXCEPT ![open] = Backfilled(l)] /\ found[l].id \notin rules
      <4>1. CASE g # open \/ k # l \/ ops[open][l] # None
        <5>1. ops'[g] # None /\ ops'[g][k] # None /\ ops'[g][k] = ops[g][k] /\ ops[g] # None
          BY <3>1, <3>3, <4>1 DEF Backfilled, Row, Base, TypeOK, OpenOK
        <5>2. QED
          BY <3>1, <5>1 DEF Temps, RowsClean, Row
      <4>2. CASE g = open /\ k = l /\ ops[open][l] = None
        <5>1. ops'[g][k] = found[l]
          BY <3>1, <3>3, <4>2 DEF Backfilled, Base, TypeOK
        <5>2. QED
          BY <3>1, <3>3, <5>1
      <4>3. QED
        BY <4>1, <4>2
    <3>4. QED
      BY <2>2, <3>2, <3>3 DEF Backfill
  <2>3. ASSUME NEW i \in Id, Reserve(i)
        PROVE  ops'[g][k].id \notin rules'
    <3>1. /\ pc \notin BeforePurge /\ rules' = rules /\ i \notin rules
          /\ open \in Gen /\ ops[open] \in [Key -> Reservation \cup {None}]
          /\ TheKey \in Key /\ ops[open] # None
          /\ ops' = [ops EXCEPT ![open][TheKey] = NewReservation(i)]
      BY <2>3 DEF Reserve, Deciding, BeforePurge, TheKey, Requests, NoteSteps, Base, TypeOK,
         OpenOK, RequestOK
    <3>2. CASE g = open /\ k = TheKey
      <4>1. ops'[g][k] = NewReservation(i)
        BY <3>1, <3>2 DEF Base, TypeOK
      <4>2. QED
        BY <3>1, <4>1 DEF NewReservation
    <3>3. CASE g # open \/ k # TheKey
      <4>1. ops'[g][k] = ops[g][k] /\ ops[g] # None
        BY <3>1, <3>3 DEF Row, Base, TypeOK
      <4>2. QED
        BY <3>1, <4>1 DEF Temps, RowsClean, Row
    <3>4. QED
      BY <3>2, <3>3
  <2>4. CASE pc \notin BeforePurge /\ UNCHANGED <<ops, rules>>
    BY <2>4 DEF Temps, RowsClean, Row
  <2>5. CASE Opening
    BY <2>1, <2>2, <2>4, <2>5 DEF BeforePurge, Opening, LoadRules, PurgeRemember,
       PurgeConflict, PurgeTemp, PurgeRows, ReloadRules, Reconcile, ReadNotes, RefuseBroken
  <2>6. CASE Writing
    BY <2>3, <2>4, <2>6 DEF BeforePurge, Writing, Refuse, AnswerForgotten, Resume,
       AnswerExcluded, FinalThere, ClearTemp, ReuseTemp, BeginTemp, EndTemp, Link, LinkFails,
       Unlink, AnswerDurable, Deciding, Exit
  <2>7. CASE Environment
    BY <2>4, <2>7 DEF BeforePurge, Environment, EditNote, Forget, LoseIndex
  <2>8. QED
    BY <2>4, <2>5, <2>6, <2>7 DEF BeforePurge, Next, Command, Begin, Finish, Crash, Exit, vars
<1>4. QED
  BY <1>1, <1>2, <1>3 DEF Temps

\* Wherever the command that wrote it, or an earlier purge, died: behind a purge
\* no temporary file holds a note the rules forget (purge_note_ops removes the
\* file before it deletes the reservation that names it).
THEOREM PurgeIsComplete == Spec => []PurgeLeavesNoTemp
<1>1. ASSUME Base, Temps, pc \notin BeforePurge,
             NEW w \in Worktree, NEW i \in rules \ orphan
      PROVE  temp[w][i] = "none"
  <2>1. i \in Id
    BY <1>1 DEF Base, TypeOK
  <2>2. ~\E g \in Gen, k \in Key : LeadsTo(g, k, w, i)
    BY <1>1 DEF Temps, RowsClean, LeadsTo
  <2>3. QED
    BY <1>1, <2>1, <2>2 DEF Temps, TempOwned
<1>2. Base /\ Temps => PurgeLeavesNoTemp
  BY <1>1 DEF PurgeLeavesNoTemp, BeforePurge
<1>3. QED
  BY <1>2, InitBase, BaseStep, InitLedger, LedgerStep, InitTemps, TempsStep, PTL DEF Spec

-----------------------------------------------------------------------------
(* Bound: what an answer said is held where the next command looks.         *)

BindingKnown ==
    \A a \in binding : Knows(a.key, a.id, ops, current, note, remembered)
\* A command that writes notes works on the selected index if there is one.
SelectedOK == /\ pc = "idle" => request = NoRequest
              /\ request # NoRequest => current \in {open, None}
HeldHere(k, i) ==
    \/ ops[open][k] # None /\ ops[open][k].id = i
    \/ remembered[k] # None /\ remembered[k].id = i
\* Backfill makes the command meet every answer that binds it, or the key is in conflict.
BoundOK ==
    pc \in {"decide"} \cup WritingSteps => \A a \in binding :
        \/ HeldHere(a.key, a.id)
        \/ a.key \in conflicts
        \/ a.key \in todo /\ found[a.key].id = a.id
SettledOK == pc \in WritingSteps => todo = {} /\ TheKey \notin conflicts

Bound == BindingKnown /\ SelectedOK /\ BoundOK /\ SettledOK

LEMMA InitBound == Init => Bound
BY DEF Init, Idle, Bound, BindingKnown, SelectedOK, BoundOK, SettledOK, WritingSteps

\* Which answers bind after a step: those that still do, or the one just given.
LEMMA BindingStep ==
    ASSUME Base, [Next]_vars
    PROVE  \/ binding' \subseteq binding
           \/ AnswerForgotten
           \/ \E i \in Id : AnswerExcluded(i)
           \/ AnswerDurable
<1> USE DEF files, store, history, session
<1>1. CASE Opening
  BY <1>1 DEF Opening, LoadRules, PurgeRemember, PurgeConflict, PurgeTemp, PurgeRows,
     PurgeDone, ReloadRules, Reconcile, StillBinding, ReadNotes, RefuseBroken, Backfill
<1>2. CASE Writing
  BY <1>2 DEF Writing, Refuse, Resume, Reserve, FinalThere, ClearTemp, ReuseTemp, BeginTemp,
     EndTemp, Link, LinkFails, Unlink
<1>3. CASE Environment
  BY <1>3 DEF Environment, EditNote, Forget, LoseIndex, StillBinding
<1>4. QED
  BY <1>1, <1>2, <1>3 DEF Next, Command, Begin, Finish, Crash, vars

\* An answer is given from what is known.
LEMMA AnswersKnown ==
    ASSUME Base, [Next]_vars, NEW a \in binding', a \notin binding
    PROVE  /\ Knows(a.key, a.id, ops', current', note', remembered')
           /\ a.key = TheKey
<1> USE DEF files, store, history, session
<1>1. CASE AnswerForgotten
  BY <1>1 DEF AnswerForgotten, Bind, Knows, Retired
<1>2. ASSUME NEW i \in Id, AnswerExcluded(i)
      PROVE  a.key = TheKey /\ Knows(a.key, a.id, ops', current', note', remembered')
  <2>1. a = [key |-> TheKey, id |-> i]
    BY <1>2 DEF AnswerExcluded, Bind
  <2>2. TheKey \in Key
    BY <1>2 DEF AnswerExcluded, Deciding, TheKey, Requests, Base, RequestOK, NoteSteps
  <2>3. remembered'[TheKey] = [id |-> i, text |-> request.text] /\ request.text \in Text
    BY <1>2, <2>2 DEF AnswerExcluded, Remembered, Deciding, Requests, Base, TypeOK, RequestOK,
       NoteSteps
  <2>4. QED
    BY <2>1, <2>3 DEF Knows
<1>3. CASE AnswerDurable
  BY <1>3 DEF AnswerDurable, Bind, Knows
<1>4. QED
  BY <1>1, <1>2, <1>3, BindingStep

LEMMA BindingKnownStep ==
    ASSUME Base, Ledger, BindingKnown, [Next]_vars
    PROVE  BindingKnown'
<1> USE DEF files, store, history, session
<1> SUFFICES ASSUME NEW a \in binding', a \in binding
             PROVE  Knows(a.key, a.id, ops', current', note', remembered')
  BY AnswersKnown DEF BindingKnown
<1>1. a.key \in Key /\ a.id \in Id /\ Knows(a.key, a.id, ops, current, note, remembered)
  BY DEF BindingKnown, Base, TypeOK
<1>2. CASE edits' = edits /\ current' = current
  BY <1>1, <1>2, KnownStays
<1>3. ASSUME NEW published \in BOOLEAN, Reconcile(published), current' # current
      PROVE  Knows(a.key, a.id, ops', current', note', remembered')
  BY <1>3 DEF Reconcile, StillBinding
<1>4. ASSUME NEW w \in Worktree, NEW i \in Id, NEW c, EditNote(w, i, c)
      PROVE  Knows(a.key, a.id, ops', current', note', remembered')
  BY <1>4 DEF EditNote, StillBinding
<1>5. ASSUME NEW g \in Gen, LoseIndex(g)
      PROVE  Knows(a.key, a.id, ops', current', note', remembered')
  <2>1. Knows(a.key, a.id, ops, current', note, remembered)
    BY <1>5 DEF LoseIndex, StillBinding
  <2>2. current' # None => current' \in Gen /\ ops'[current'] = ops[current']
    BY <1>5 DEF LoseIndex, Base, TypeOK, Exists
  <2>3. QED
    BY <1>5, <2>1, <2>2 DEF LoseIndex, Knows
<1>6. CASE Opening
  BY <1>2, <1>3, <1>6 DEF Opening, LoadRules, PurgeRemember, PurgeConflict, PurgeTemp,
     PurgeRows, PurgeDone, ReloadRules, ReadNotes, RefuseBroken, Backfill, Reconcile
<1>7. CASE Writing
  BY <1>2, <1>7 DEF Writing, Refuse, AnswerForgotten, Resume, AnswerExcluded, Reserve,
     FinalThere, ClearTemp, ReuseTemp, BeginTemp, EndTemp, Link, LinkFails, Unlink,
     AnswerDurable
<1>8. CASE Environment
  BY <1>2, <1>4, <1>5, <1>8 DEF Environment, Forget
<1>9. QED
  BY <1>2, <1>6, <1>7, <1>8 DEF Next, Command, Begin, Finish, Crash, vars

LEMMA SelectedStep ==
    ASSUME Base, SelectedOK, [Next]_vars
    PROVE  SelectedOK'
<1> USE DEF files, store, history, session, SelectedOK, Goto
<1>1. CASE Opening
  BY <1>1 DEF Opening, LoadRules, PurgeRemember, PurgeConflict, PurgeTemp, PurgeRows,
     PurgeDone, ReloadRules, Reconcile, ReadNotes, RefuseBroken, Backfill
<1>2. CASE Writing
  BY <1>2 DEF Writing, Refuse, AnswerForgotten, Resume, AnswerExcluded, Reserve, FinalThere,
     ClearTemp, ReuseTemp, BeginTemp, EndTemp, Link, LinkFails, Unlink, AnswerDurable, Exit,
     Deciding
<1>3. CASE Environment
  BY <1>3 DEF Environment, EditNote, Forget, LoseIndex
<1>4. ASSUME NEW req \in Requests, Begin(req, FALSE) PROVE SelectedOK'
  BY <1>4 DEF Begin
<1>5. ASSUME NEW rebuild, Begin(NoRequest, rebuild) PROVE SelectedOK'
  BY <1>5 DEF Begin
<1>6. QED
  BY <1>1, <1>2, <1>3, <1>4, <1>5 DEF Next, Command, Finish, Crash, Exit, vars

\* What is held in the open index or the ledger stays there while the command works.
LEMMA HeldStays ==
    ASSUME Base, Ledger, [Next]_vars, NEW k \in Key, NEW i \in Id, HeldHere(k, i),
           pc \in {"backfill", "decide"} \cup WritingSteps,
           pc' \in {"decide"} \cup WritingSteps
    PROVE  HeldHere(k, i)'
<1>1. open \in Gen /\ ops[open] # None /\ pc # "idle" /\ pc # "purge"
  BY DEF Base, OpenOK, WritingSteps
<1>2. open' = open
  BY DEF files, store, history, session, Goto, WritingSteps, Next, Command, Begin, Finish, Crash,
     Exit, vars, Opening, LoadRules, PurgeRemember, PurgeConflict, PurgeTemp, PurgeRows, PurgeDone,
     ReloadRules, Reconcile, ReadNotes, RefuseBroken, Backfill, Writing, Refuse, AnswerForgotten,
     Resume, AnswerExcluded, Reserve, FinalThere, ClearTemp, ReuseTemp, BeginTemp, EndTemp, Link,
     LinkFails, Unlink, AnswerDurable, Environment, EditNote, Forget, LoseIndex
<1>3. CASE remembered[k] # None /\ remembered[k].id = i
  BY <1>3, RememberedStays DEF HeldHere
<1>4. CASE Row(open, k) /\ ops[open][k].id = i
  <2>1. ~PurgeRows(open) /\ ~LoseIndex(open)
    BY <1>1 DEF PurgeRows, LoseIndex
  <2>2. QED
    BY <1>1, <1>2, <1>4, <2>1, RowStays DEF HeldHere, Row
<1>5. QED
  BY <1>1, <1>3, <1>4 DEF HeldHere, Row

\* Backfill reads whatever makes an answer bind and is neither in the index nor in
\* the ledger: an authored note of the key.
LEMMA ReadMeets ==
    ASSUME Base, Bound, ReadNotes, NEW a \in binding
    PROVE  \/ HeldHere(a.key, a.id)
           \/ a.key \in conflicts'
           \/ a.key \in todo' /\ found'[a.key].id = a.id
<1>1. a.key \in Key /\ a.id \in Id /\ Knows(a.key, a.id, ops, current, note, remembered)
  BY DEF Bound, BindingKnown, Base, TypeOK
<1>2. current \in {open, None}
  BY DEF ReadNotes, Bound, SelectedOK, Base, RequestOK, NoteSteps, Requests, NoRequest
<1>3. ASSUME NEW w \in Worktree, note[w][a.id] # None, note[w][a.id].key = a.key
      PROVE  \/ a.key \in conflicts'
             \/ a.key \in todo' /\ found'[a.key].id = a.id
  <2>1. note[w][a.id] \in Content
    BY <1>1, <1>3 DEF ReadNotes, BrokenNote, Base, TypeOK
  <2> DEFINE r == [id |-> a.id, text |-> note[w][a.id].text, worktree |-> w]
  <2>2. r \in Reservation /\ note[w][a.id] = [key |-> a.key, text |-> r.text]
    BY <1>1, <1>3, <2>1
  <2>3. r \in Authored(a.key)
    BY <2>2 DEF Authored
  <2>4. found'[a.key] \in Authored(a.key) /\ a.key \in todo'
    BY <1>1, <2>3 DEF ReadNotes
  <2>5. a.key \in conflicts' \/ SameNote(r, found'[a.key])
    BY <1>1, <2>3, <2>4 DEF ReadNotes
  <2>6. QED
    BY <2>4, <2>5 DEF SameNote
<1>4. QED
  BY <1>1, <1>2, <1>3 DEF Knows, HeldHere

\* Dealing with one key of the backfill.
LEMMA BackfillMeets ==
    ASSUME Base, Ledger, Bound, NEW l \in Key, Backfill(l), NEW a \in binding
    PROVE  \/ HeldHere(a.key, a.id)'
           \/ a.key \in conflicts'
           \/ a.key \in todo' /\ found'[a.key].id = a.id
<1> DEFINE Goal == \/ HeldHere(a.key, a.id)'
                   \/ a.key \in conflicts'
                   \/ a.key \in todo' /\ found'[a.key].id = a.id
<1>1. a.key \in Key /\ a.id \in Id
  BY DEF Base, TypeOK
<1>2. CASE HeldHere(a.key, a.id)
  BY <1>1, <1>2, HeldStays DEF Backfill, Next, Command, Opening
<1>3. CASE a.key \in conflicts \/ (a.key \in todo /\ a.key # l /\ found[a.key].id = a.id)
  BY <1>3 DEF Backfill
<1>4. CASE a.key = l /\ found[l].id = a.id
  <2>1. /\ open \in Gen /\ ops[open] \in [Key -> Reservation \cup {None}] /\ found[l] \in Reservation
        /\ open' = open
    BY DEF Backfill, session, Base, TypeOK, OpenOK, TodoOK
  <2>2. CASE conflicts' = conflicts \cup {l}
    BY <1>4, <2>2
  <2>3. CASE remembered' = Remembered(l, found[l].id, found[l].text)
    <3>1. remembered'[l] = [id |-> found[l].id, text |-> found[l].text]
      BY <2>1, <2>3 DEF Remembered, Base, TypeOK
    <3>2. remembered'[l] # None
      BY <2>1, <3>1
    <3>3. QED
      BY <1>4, <3>1, <3>2 DEF HeldHere
  <2>4. CASE ~Contradicts(l) /\ ops' = [ops EXCEPT ![open] = Backfilled(l)]
    <3>1. ops'[open] = Backfilled(l)
      BY <2>1, <2>4 DEF Base, TypeOK
    <3>2. Backfilled(l)[l] # None /\ Backfilled(l)[l].id = found[l].id
      BY <2>1, <2>4 DEF Backfilled, Contradicts, SameNote
    <3>3. QED
      BY <1>4, <2>1, <3>1, <3>2 DEF HeldHere
  <2>5. QED
    BY <2>2, <2>3, <2>4 DEF Backfill
<1>5. pc = "decide"
  BY DEF Backfill
<1>6. QED
  BY <1>2, <1>3, <1>4, <1>5 DEF Bound, BoundOK

LEMMA BoundOKStep ==
    ASSUME Base, Ledger, Bound, [Next]_vars
    PROVE  BoundOK'
<1> USE DEF files, store, history, session, Goto
<1>1. CASE ReadNotes
  <2>1. UNCHANGED <<binding, ops, open, remembered>>
    BY <1>1 DEF ReadNotes
  <2>2. QED
    BY <1>1, <2>1, ReadMeets DEF BoundOK, HeldHere
<1>2. ASSUME NEW l \in Key, Backfill(l)
      PROVE  BoundOK'
  BY <1>2, BackfillMeets DEF BoundOK, Backfill
<1>3. ASSUME pc \in {"decide"} \cup WritingSteps, pc' \in {"decide"} \cup WritingSteps,
             binding' \subseteq binding, UNCHANGED <<conflicts, todo, found>>
      PROVE  BoundOK'
  <2>1. \A a \in binding : a.key \in Key /\ a.id \in Id
    BY DEF Base, TypeOK
  <2>2. QED
    BY <1>3, <2>1, HeldStays DEF Bound, BoundOK
<1>4. CASE pc' \notin {"decide"} \cup WritingSteps
  BY <1>4 DEF BoundOK
<1>5. CASE Opening
  BY <1>1, <1>2, <1>4, <1>5, ZenonT(40) DEF Opening, LoadRules, PurgeRemember, PurgeConflict, PurgeTemp,
     PurgeRows, PurgeDone, ReloadRules, Reconcile, RefuseBroken, WritingSteps
<1>6. CASE Writing
  BY <1>3, <1>4, <1>6 DEF Writing, Refuse, AnswerForgotten, Resume, AnswerExcluded, Reserve,
     FinalThere, ClearTemp, ReuseTemp, BeginTemp, EndTemp, Link, LinkFails, Unlink, AnswerDurable,
     Exit, Deciding, WritingSteps
<1>7. CASE Environment
  BY <1>3, <1>4, <1>7 DEF Environment, EditNote, StillBinding, Forget, LoseIndex, WritingSteps
<1>8. CASE UNCHANGED vars
  BY <1>3, <1>4, <1>8 DEF vars
<1>9. QED
  BY <1>4, <1>5, <1>6, <1>7, <1>8 DEF Next, Command, Begin, Finish, Crash, Exit, WritingSteps

LEMMA SettledStep ==
    ASSUME Base, SettledOK, [Next]_vars
    PROVE  SettledOK'
<1> USE DEF files, store, history, session, Goto, SettledOK, WritingSteps, TheKey
<1>1. CASE Opening
  BY <1>1, ZenonT(40) DEF Opening, LoadRules, PurgeRemember, PurgeConflict, PurgeTemp, PurgeRows,
     PurgeDone, ReloadRules, Reconcile, ReadNotes, RefuseBroken, Backfill
<1>2. CASE Writing
  BY <1>2 DEF Writing, Refuse, AnswerForgotten, Resume, AnswerExcluded, Reserve, FinalThere,
     ClearTemp, ReuseTemp, BeginTemp, EndTemp, Link, LinkFails, Unlink, AnswerDurable, Exit,
     Deciding
<1>3. CASE Environment
  BY <1>3 DEF Environment, EditNote, Forget, LoseIndex
<1>4. QED
  BY <1>1, <1>2, <1>3 DEF Next, Command, Begin, Finish, Crash, Exit, vars

LEMMA BoundStep ==
    ASSUME Base, Ledger, Bound, [Next]_vars
    PROVE  Bound'
BY BindingKnownStep, SelectedStep, BoundOKStep, SettledStep DEF Bound

\* A retry is the same note: an answer names the note that every binding answer for
\* its key named, unless generations disagree about the key (note_commit, backfill).
THEOREM RetryIsSameNote == Spec => OneIdentity
<1> DEFINE Same == \A b \in binding' \ binding : AtMostOne(Reserved(b.key)) =>
                      \A a \in binding : a.key = b.key => a.id = b.id
<1>1. ASSUME Base, Ledger, Bound, [Next]_vars, NEW b \in binding', b \notin binding,
             AtMostOne(Reserved(b.key)), NEW a \in binding, a.key = b.key
      PROVE  a.id = b.id
  <2>1. b.key = TheKey /\ a.key \in Key /\ a.id \in Id
    BY <1>1, AnswersKnown DEF Base, TypeOK
  <2>2. pc \in {"decide", "durable"} /\ todo = {} /\ TheKey \notin conflicts
    BY <1>1, BindingStep DEF AnswerForgotten, AnswerExcluded, AnswerDurable, Deciding, Bound,
       SettledOK, WritingSteps
  <2>3. HeldHere(a.key, a.id)
    BY <1>1, <2>1, <2>2 DEF Bound, BoundOK, WritingSteps
  <2>4. open \in Exists
    BY <1>1, <2>2 DEF Base, OpenOK, Exists
  <2>5. CASE AnswerForgotten
    <3>1. remembered[TheKey] \in Identity /\ b = [key |-> TheKey, id |-> remembered[TheKey].id]
      BY <1>1, <2>1, <2>5 DEF AnswerForgotten, Retired, Bind, Base, TypeOK
    <3>2. a.id \in Reserved(TheKey) /\ remembered[TheKey].id \in Reserved(TheKey)
      BY <1>1, <2>1, <2>3, <2>4, <3>1 DEF Reserved, HeldHere
    <3>3. QED
      BY <1>1, <2>1, <3>1, <3>2 DEF AtMostOne
  <2>6. ASSUME NEW i \in Id, AnswerExcluded(i)
        PROVE  a.id = b.id
    <3>1. b = [key |-> TheKey, id |-> i]
      BY <1>1, <2>6 DEF AnswerExcluded, Bind
    <3>2. QED
      BY <1>1, <2>1, <2>3, <2>6, <3>1 DEF AnswerExcluded, Retired, HeldHere, Op
  <2>7. CASE AnswerDurable
    <3>1. b = [key |-> TheKey, id |-> Op.id] /\ remembered[TheKey] = None
      BY <1>1, <2>7 DEF AnswerDurable, Bind, Ledger, FreshOK, WritingSteps
    <3>2. QED
      BY <1>1, <2>1, <2>3, <3>1 DEF HeldHere, Op
  <2>8. QED
    BY <1>1, <2>5, <2>6, <2>7, BindingStep
<1>2. ASSUME Base, Ledger, Bound, [Next]_vars
      PROVE  [Same]_vars
  BY <1>1, <1>2
<1>3. QED
  BY <1>2, InitBase, BaseStep, InitLedger, LedgerStep, InitBound, BoundStep, PTL
     DEF Spec, OneIdentity

-----------------------------------------------------------------------------
(* Story: while nobody edits note files, everything says the same of a note. *)

Told(i, k, t) ==
    \/ \E g \in Gen : Row(g, k) /\ ops[g][k].id = i /\ ops[g][k].text = t
    \/ \E w \in Worktree : note[w][i] = [key |-> k, text |-> t]
    \/ remembered[k] = [id |-> i, text |-> t]
Several(k) == ~AtMostOne(Reserved(k) \cup {r.id : r \in Authored(k)})

NoBroken == ~BrokenNote
OneStory == \A i \in Id, k, l \in Key, t, u \in Text :
                Told(i, k, t) /\ Told(i, l, u) => k = l /\ t = u
ToldUsed == \A i \in Id, k \in Key, t \in Text : Told(i, k, t) => i \in used
FoundOK == pc = "decide" => \A k \in todo : found[k] \in Authored(k)
ConflictsOK == pc = "decide" => \A k \in conflicts : Several(k)
FinalFree == pc \in {"writing", "link"} => Final = None
FailedOK ==
    pc = "failed" => \/ Several(TheKey)
                     \/ remembered[TheKey] # None /\ remembered[TheKey].text # request.text
                     \/ Op # None /\ Op.text # request.text

Story == edits = 0 => NoBroken /\ OneStory /\ ToldUsed /\ FoundOK /\ ConflictsOK /\ FinalFree
                         /\ FailedOK

LEMMA InitStory == Init => Story
<1>1. ASSUME Init, NEW i \in Id, NEW k \in Key, NEW t \in Text
      PROVE  ~Told(i, k, t)
  <2>1. [key |-> k, text |-> t] # None /\ [id |-> i, text |-> t] # None
    OBVIOUS
  <2>2. QED
    BY <1>1, <2>1 DEF Init, Told, Row
<1>2. ASSUME Init PROVE NoBroken
  <2>1. Broken # None
    BY DEF Broken
  <2>2. QED
    BY <1>2 DEF Init, NoBroken, BrokenNote
<1>3. ASSUME Init PROVE pc = "idle"
  BY <1>3 DEF Init, Idle
<1>4. QED
  BY <1>1, <1>2, <1>3 DEF Story, OneStory, ToldUsed, FoundOK, ConflictsOK, FinalFree, FailedOK

\* A note whose identity was just made.
Fresh(i, k, t) == i \notin used /\ i \in used' /\ k = TheKey /\ t = request.text

\* A row of a reservation tells something only if it was told before, or is new.
LEMMA RowTold ==
    ASSUME Base, [Next]_vars, pc = "decide" => FoundOK, NEW g \in Gen, NEW k \in Key,
           ops'[g] # None, ops'[g][k] # None
    PROVE  LET i == ops'[g][k].id
               t == ops'[g][k].text
           IN Told(i, k, t) \/ Fresh(i, k, t)
<1> USE DEF files, store, history, session
<1> DEFINE Goal == \/ Told(ops'[g][k].id, k, ops'[g][k].text)
                   \/ Fresh(ops'[g][k].id, k, ops'[g][k].text)
<1>1. CASE ops[g] # None /\ ops'[g][k] = ops[g][k]
  BY <1>1 DEF Told, Row
<1>2. ASSUME NEW h \in Gen, PurgeRows(h) PROVE Goal
  <2> DEFINE table == [l \in Key |-> IF l \in ToPurge(h) THEN None ELSE ops[h][l]]
  <2>1. ops' = [ops EXCEPT ![h] = table] /\ ops[h] # None
    BY <1>2 DEF PurgeRows, Exists
  <2>2. ops[g] # None /\ ops'[g][k] = ops[g][k]
    BY <2>1 DEF Base, TypeOK
  <2>3. QED
    BY <1>1, <2>2
<1>3. ASSUME NEW l \in Key, Backfill(l), ops' # ops PROVE Goal
  <2>1. open \in Gen /\ ops[open] \in [Key -> Reservation \cup {None}] /\ ops[open] # None
    BY <1>3 DEF Backfill, Base, TypeOK, OpenOK
  <2>2. found[l] \in Reservation /\ ops' = [ops EXCEPT ![open] = Backfilled(l)]
    BY <1>3 DEF Backfill, Base, TypeOK, TodoOK
  <2>3. found[l] \in Authored(l)
    BY <1>3 DEF Backfill, FoundOK
  <2>4. CASE g = open /\ k = l /\ ops[open][l] = None
    <3>1. ops'[g][k] = found[l]
      BY <2>1, <2>2, <2>4 DEF Backfilled, Base, TypeOK
    <3>2. note[found[l].worktree][found[l].id] = [key |-> l, text |-> found[l].text]
      BY <2>3 DEF Authored
    <3>3. QED
      BY <2>2, <2>4, <3>1, <3>2 DEF Told
  <2>5. CASE g # open \/ k # l \/ ops[open][l] # None
    <3>1. ops[g] # None /\ ops'[g][k] = ops[g][k]
      BY <2>1, <2>2, <2>5 DEF Backfilled, Base, TypeOK
    <3>2. QED
      BY <1>1, <3>1
  <2>6. QED
    BY <2>4, <2>5
<1>4. ASSUME NEW i \in Id, Reserve(i) PROVE Goal
  <2>1. open \in Gen /\ ops[open] \in [Key -> Reservation \cup {None}] /\ TheKey \in Key
        /\ ops[open] # None
    BY <1>4 DEF Reserve, Deciding, TheKey, Requests, NoteSteps, Base, TypeOK, OpenOK, RequestOK
  <2>2. ops' = [ops EXCEPT ![open][TheKey] = NewReservation(i)]
    BY <1>4 DEF Reserve
  <2>3. CASE g = open /\ k = TheKey
    <3>1. ops'[g][k] = NewReservation(i)
      BY <2>1, <2>2, <2>3 DEF Base, TypeOK
    <3>2. QED
      BY <1>4, <2>3, <3>1 DEF Reserve, NewReservation, Fresh
  <2>4. CASE g # open \/ k # TheKey
    <3>1. ops[g] # None /\ ops'[g][k] = ops[g][k]
      BY <2>1, <2>2, <2>4 DEF Base, TypeOK
    <3>2. QED
      BY <1>1, <3>1
  <2>5. QED
    BY <2>3, <2>4
<1>5. ASSUME NEW req, NEW rebuild, Begin(req, rebuild), ops' # ops PROVE Goal
  <2>1. PICK h \in Gen \ Exists : ops' = [ops EXCEPT ![h] = EmptyTable]
    BY <1>5 DEF Begin
  <2>2. ops[g] # None /\ ops'[g][k] = ops[g][k]
    BY <2>1 DEF EmptyTable, Base, TypeOK
  <2>3. QED
    BY <1>1, <2>2
<1>6. ASSUME NEW h \in Gen, LoseIndex(h) PROVE Goal
  <2>1. ops[g] # None /\ ops'[g][k] = ops[g][k]
    BY <1>6 DEF LoseIndex, Base, TypeOK
  <2>2. QED
    BY <1>1, <2>1
<1>7. CASE ops' = ops
  BY <1>1, <1>7
<1>8. CASE Opening
  BY <1>2, <1>3, <1>7, <1>8 DEF Opening, LoadRules, PurgeRemember, PurgeConflict, PurgeTemp,
     PurgeDone, ReloadRules, Reconcile, ReadNotes, RefuseBroken
<1>9. CASE Writing
  BY <1>4, <1>7, <1>9 DEF Writing, Refuse, AnswerForgotten, AnswerExcluded, Resume, FinalThere,
     ClearTemp, ReuseTemp, BeginTemp, EndTemp, Link, LinkFails, Unlink, AnswerDurable
<1>10. CASE Environment
  BY <1>6, <1>7, <1>10 DEF Environment, EditNote, Forget
<1>11. QED
  BY <1>5, <1>7, <1>8, <1>9, <1>10 DEF Next, Command, Finish, Crash, vars

\* The same of a row of the ledger.
LEMMA LedgerTold ==
    ASSUME Base, [Next]_vars, pc = "decide" => FoundOK, NEW k \in Key, NEW i \in Id, NEW t \in Text,
           remembered'[k] = [id |-> i, text |-> t]
    PROVE  Told(i, k, t) \/ Fresh(i, k, t)
<1> USE DEF files, store, history, session
<1> DEFINE Goal == Told(i, k, t) \/ Fresh(i, k, t)
<1>1. CASE remembered'[k] = remembered[k]
  BY <1>1 DEF Told
<1>2. ASSUME NEW g \in Gen, NEW l \in Key, PurgeRemember(g, l) PROVE Goal
  <2>1. CASE l = k
    <3>1. Row(g, k)
      BY <1>2, <2>1 DEF PurgeRemember, ToPurge, Exists, Row
    <3>2. remembered'[k] = [id |-> ops[g][k].id, text |-> ops[g][k].text]
      BY <1>2, <2>1 DEF PurgeRemember, Remembered, Base, TypeOK
    <3>3. QED
      BY <3>1, <3>2 DEF Told
  <2>2. CASE l # k
    BY <1>1, <1>2, <2>2 DEF PurgeRemember, Remembered, Base, TypeOK
  <2>3. QED
    BY <2>1, <2>2
<1>3. ASSUME NEW l \in Key, Backfill(l) PROVE Goal
  <2>1. found[l] \in Reservation /\ found[l] \in Authored(l)
    BY <1>3 DEF Backfill, FoundOK, Base, TypeOK, TodoOK
  <2>2. CASE remembered' = remembered \/ l # k
    BY <1>1, <1>3, <2>2 DEF Backfill, Remembered, Base, TypeOK
  <2>3. CASE l = k /\ remembered' = Remembered(l, found[l].id, found[l].text)
    <3>1. i = found[l].id /\ t = found[l].text
      BY <2>3 DEF Remembered, Base, TypeOK
    <3>2. note[found[l].worktree][i] = [key |-> k, text |-> t]
      BY <2>1, <2>3, <3>1 DEF Authored
    <3>3. QED
      BY <2>1, <3>2 DEF Told
  <2>4. QED
    BY <1>3, <2>2, <2>3 DEF Backfill
<1>4. ASSUME NEW j \in Id, AnswerExcluded(j) PROVE Goal
  <2>1. TheKey \in Key /\ request.text \in Text /\ open \in Gen /\ ops[open] # None
    BY <1>4 DEF AnswerExcluded, Deciding, TheKey, Requests, NoteSteps, Base, OpenOK, RequestOK
  <2>2. CASE k # TheKey
    BY <1>1, <1>4, <2>2 DEF AnswerExcluded, Remembered, Base, TypeOK
  <2>3. CASE k = TheKey
    <3>1. i = j /\ t = request.text
      BY <1>4, <2>1, <2>3 DEF AnswerExcluded, Remembered, Base, TypeOK
    <3>2. CASE Op = None
      BY <1>4, <2>3, <3>1, <3>2 DEF AnswerExcluded, Fresh
    <3>3. CASE Op # None
      BY <1>4, <2>1, <2>3, <3>1, <3>3 DEF AnswerExcluded, Told, Row, Op
    <3>4. QED
      BY <3>2, <3>3
  <2>4. QED
    BY <2>2, <2>3
<1>5. CASE Opening
  BY <1>1, <1>2, <1>3, <1>5 DEF Opening, LoadRules, PurgeConflict, PurgeTemp, PurgeRows,
     PurgeDone, ReloadRules, Reconcile, ReadNotes, RefuseBroken
<1>6. CASE Writing
  BY <1>1, <1>4, <1>6 DEF Writing, Refuse, AnswerForgotten, Resume, Reserve, FinalThere,
     ClearTemp, ReuseTemp, BeginTemp, EndTemp, Link, LinkFails, Unlink, AnswerDurable
<1>7. CASE Environment
  BY <1>1, <1>7 DEF Environment, EditNote, Forget, LoseIndex
<1>8. QED
  BY <1>1, <1>5, <1>6, <1>7 DEF Next, Command, Begin, Finish, Crash, vars

\* And of a note file, while nobody edits one.
LEMMA NoteTold ==
    ASSUME Base, [Next]_vars, edits' = edits, NEW w \in Worktree, NEW i \in Id, NEW k \in Key,
           NEW t \in Text, note'[w][i] = [key |-> k, text |-> t]
    PROVE  Told(i, k, t)
<1>1. CASE note'[w][i] = note[w][i]
  BY <1>1 DEF Told
<1>2. CASE note'[w][i] # note[w][i]
  <2>1. Link
    BY <1>2, OnlyLinkPublishes
  <2>2. w = Op.worktree /\ i = Op.id /\ k = TheKey /\ t = Op.text
    <3>1. note'[w][i] = [key |-> TheKey, text |-> Op.text]
      BY <1>2, <2>1, LinkPublishes
    <3>2. w = Op.worktree /\ i = Op.id
      BY <1>2, <2>1, OpTypes DEF Link, WritingSteps, Base, TypeOK
    <3>3. QED
      BY <3>1, <3>2
  <2>3. open \in Gen /\ Row(open, TheKey)
    BY <2>1 DEF Link, WritingSteps, Base, OpenOK, WriteOK, Row, Op
  <2>4. QED
    BY <2>2, <2>3 DEF Told, Op
<1>3. QED
  BY <1>1, <1>2

\* Nothing is told of a note that was not told of it before, unless it is new.
LEMMA ToldStep ==
    ASSUME Base, [Next]_vars, edits' = edits, pc = "decide" => FoundOK,
           NEW i \in Id, NEW k \in Key, NEW t \in Text, Told(i, k, t)'
    PROVE  Told(i, k, t) \/ Fresh(i, k, t)
<1>1. ASSUME NEW g \in Gen, Row(g, k)', ops'[g][k].id = i, ops'[g][k].text = t
      PROVE  Told(i, k, t) \/ Fresh(i, k, t)
  BY <1>1, RowTold DEF Row
<1>2. QED
  BY <1>1, LedgerTold, NoteTold DEF Told

\* Two stories about one note would have to be told of it already.
LEMMA OneStoryStep ==
    ASSUME Base, Story, [Next]_vars, edits = 0, edits' = 0
    PROVE  (OneStory /\ ToldUsed)'
<1>1. pc = "decide" => FoundOK
  BY DEF Story
<1>2. \A i \in Id, k \in Key, t \in Text : Told(i, k, t)' => Told(i, k, t) \/ Fresh(i, k, t)
  BY <1>1, ToldStep
<1>3. \A i \in Id, k \in Key, t \in Text : Told(i, k, t) => i \in used
  BY DEF Story, ToldUsed
<1>4. used \subseteq used'
  <2> USE DEF files, store, history, session
  <2>1. CASE Opening
    BY <2>1 DEF Opening, LoadRules, PurgeRemember, PurgeConflict, PurgeTemp, PurgeRows,
       PurgeDone, ReloadRules, Reconcile, ReadNotes, RefuseBroken, Backfill
  <2>2. CASE Writing
    BY <2>2 DEF Writing, Refuse, AnswerForgotten, Resume, AnswerExcluded, Reserve, FinalThere,
       ClearTemp, ReuseTemp, BeginTemp, EndTemp, Link, LinkFails, Unlink, AnswerDurable
  <2>3. CASE Environment
    BY <2>3 DEF Environment, EditNote, Forget, LoseIndex
  <2>4. QED
    BY <2>1, <2>2, <2>3 DEF Next, Command, Begin, Finish, Crash, vars
<1>5. ToldUsed'
  <2>1. \A i \in Id, k \in Key, t \in Text : Told(i, k, t)' => i \in used'
    BY <1>2, <1>3, <1>4 DEF Fresh
  <2>2. QED
    BY <2>1 DEF ToldUsed
<1>6. OneStory'
  <2> SUFFICES ASSUME NEW i \in Id, NEW k \in Key, NEW l \in Key, NEW t \in Text, NEW u \in Text,
                      Told(i, k, t)', Told(i, l, u)'
               PROVE  k = l /\ t = u
    BY DEF OneStory
  <2>1. /\ Told(i, k, t) \/ Fresh(i, k, t)
        /\ Told(i, l, u) \/ Fresh(i, l, u)
    BY <1>2
  <2>2. CASE i \in used
    <3>1. Told(i, k, t) /\ Told(i, l, u)
      BY <2>1, <2>2 DEF Fresh
    <3>2. QED
      BY <3>1 DEF Story, OneStory
  <2>3. CASE i \notin used
    BY <1>3, <2>1, <2>3 DEF Fresh
  <2>4. QED
    BY <2>2, <2>3
<1>7. QED
  BY <1>5, <1>6

\* Two authored notes of a key, or one beside a reservation of another note.
LEMMA TwoNotes ==
    ASSUME NEW k, NEW r \in Authored(k), NEW i, i # r.id,
           i \in Reserved(k) \/ \E s \in Authored(k) : i = s.id
    PROVE  Several(k)
BY DEF Several, AtMostOne

LEMMA AuthoredTold ==
    ASSUME NEW k \in Key, NEW r \in Authored(k)
    PROVE  r \in Reservation /\ Told(r.id, k, r.text)
BY DEF Authored, Told

\* While nobody edits notes, what the command reads is what it refuses: a conflict is
\* one of several notes with the key.
LEMMA SeveralStays ==
    ASSUME Base, Ledger, [Next]_vars, edits' = edits, pc = "decide", pc' # "idle",
           NEW k \in Key, Several(k)
    PROVE  Several(k)'
<1>1. Authored(k) \subseteq Authored(k)'
  <2>1. note' = note
    BY OnlyLinkPublishes DEF Link
  <2>2. QED
    BY <2>1 DEF Authored
<1>2. Reserved(k) \subseteq Reserved(k)'
  <2> SUFFICES ASSUME NEW i \in Id, i \in Reserved(k)
               PROVE  i \in Reserved(k)'
    BY DEF Reserved
  <2>1. CASE remembered[k] # None /\ remembered[k].id = i
    BY <2>1, RememberedStays DEF Reserved
  <2>2. ASSUME NEW g \in Gen, Row(g, k), ops[g][k].id = i
        PROVE  i \in Reserved(k)'
    <3>1. ~PurgeRows(g) /\ ~LoseIndex(g)
      BY DEF PurgeRows, LoseIndex
    <3>2. ops'[g] # None /\ ops'[g][k] = ops[g][k]
      BY <2>2, <3>1, RowStays
    <3>3. QED
      BY <2>2, <3>2 DEF Reserved, Row, Exists
  <2>3. QED
    BY <2>1, <2>2 DEF Reserved, Exists, Row
<1>3. QED
  BY <1>1, <1>2 DEF Several, AtMostOne

LEMMA NoBrokenStep ==
    ASSUME Base, NoBroken, [Next]_vars, edits' = edits
    PROVE  NoBroken'
<1> SUFFICES ASSUME NEW w \in Worktree, NEW i \in Id, note'[w][i] = Broken
             PROVE  FALSE
  BY DEF NoBroken, BrokenNote
<1>1. note[w][i] # Broken
  BY DEF NoBroken, BrokenNote
<1>2. note'[w][i] \in Content
  BY <1>1, OnlyLinkPublishes, LinkPublishes
<1>3. QED
  BY <1>2 DEF Broken

LEMMA ReadingStep ==
    ASSUME Base, Ledger, Story, [Next]_vars, edits = 0, edits' = 0
    PROVE  (FoundOK /\ ConflictsOK)'
<1> USE DEF files, store, history, session, Goto
<1> SUFFICES ASSUME pc' = "decide" PROVE (FoundOK /\ ConflictsOK)'
  BY DEF FoundOK, ConflictsOK
<1>1. CASE ReadNotes
  <2>1. /\ note' = note /\ ops' = ops /\ remembered' = remembered
        /\ \A k \in Key : Authored(k)' = Authored(k)
    BY <1>1 DEF ReadNotes, Authored
  <2>2. \A k \in todo' : k \in Key /\ found'[k] \in Authored(k)
    BY <1>1 DEF ReadNotes
  <2>3. ASSUME NEW k \in conflicts' PROVE Several(k)'
    <3>1. PICK r, s \in Authored(k) : ~SameNote(r, s)
      BY <1>1, <2>3 DEF ReadNotes
    <3>2. k \in Key
      BY <1>1, <2>3 DEF ReadNotes
    <3>3. r.id # s.id
      <4>1. Told(r.id, k, r.text) /\ Told(s.id, k, s.text) /\ r \in Reservation /\ s \in Reservation
        BY <3>1, <3>2, AuthoredTold
      <4>2. QED
        BY <3>1, <3>2, <4>1 DEF SameNote, Story, OneStory
    <3>4. Several(k)
      BY <3>1, <3>3, TwoNotes
    <3>5. Reserved(k)' = Reserved(k) /\ Authored(k)' = Authored(k)
      BY <2>1, <3>2 DEF Reserved, Exists
    <3>6. QED
      BY <3>4, <3>5 DEF Several, AtMostOne
  <2>4. QED
    BY <2>1, <2>2, <2>3 DEF FoundOK, ConflictsOK
<1>2. ASSUME NEW l \in Key, Backfill(l)
      PROVE  (FoundOK /\ ConflictsOK)'
  <2>1. /\ note' = note /\ found' = found /\ pc = "decide" /\ todo' = todo \ {l} /\ l \in todo
        /\ \A k \in Key : Authored(k)' = Authored(k)
        /\ conflicts' \subseteq conflicts \cup {l}
        /\ l \in conflicts' => l \in conflicts \/ Contradicts(l)
    BY <1>2 DEF Backfill, Authored
  <2>2. FoundOK'
    <3>1. \A k \in todo' : k \in Key /\ k \in todo
      BY <2>1 DEF Base, TypeOK
    <3>2. QED
      BY <2>1, <3>1 DEF Story, FoundOK
  <2>3. conflicts \subseteq Key /\ \A k \in conflicts : Several(k)
    BY <2>1 DEF Story, ConflictsOK, Base, TypeOK
  <2>4. ASSUME Contradicts(l), l \notin conflicts PROVE Several(l)
    <3>1. found[l] \in Authored(l)
      BY <2>1 DEF Story, FoundOK
    <3>2. found[l] \in Reservation /\ Told(found[l].id, l, found[l].text)
      BY <3>1, AuthoredTold
    <3>3. open \in Exists
      BY <2>1 DEF Base, OpenOK, Exists
    <3>4. CASE ops[open][l] # None /\ ~SameNote(ops[open][l], found[l])
      <4>1. ops[open][l] \in Reservation /\ Told(ops[open][l].id, l, ops[open][l].text)
        BY <3>3, <3>4 DEF Told, Row, Exists, Base, TypeOK
      <4>2. ops[open][l].id # found[l].id
        BY <3>2, <3>4, <4>1 DEF SameNote, Story, OneStory
      <4>3. ops[open][l].id \in Reserved(l)
        BY <3>3, <3>4, <4>1 DEF Reserved
      <4>4. QED
        BY <3>1, <4>2, <4>3, TwoNotes
    <3>5. CASE remembered[l] # None /\ ~SameNote(remembered[l], found[l])
      <4>1. remembered[l] \in Identity /\ Told(remembered[l].id, l, remembered[l].text)
        BY <3>5 DEF Told, Base, TypeOK
      <4>2. remembered[l].id # found[l].id
        BY <3>2, <3>5, <4>1 DEF SameNote, Story, OneStory
      <4>3. remembered[l].id \in Reserved(l)
        BY <3>5, <4>1 DEF Reserved
      <4>4. QED
        BY <3>1, <4>2, <4>3, TwoNotes
    <3>6. QED
      BY <2>4, <3>4, <3>5 DEF Contradicts
  <2>5. \A k \in conflicts' : k \in Key /\ Several(k)
    BY <2>1, <2>3, <2>4
  <2>6. \A k \in conflicts' : Several(k)'
    BY <2>1, <2>5, SeveralStays
  <2>7. QED
    BY <2>2, <2>6 DEF ConflictsOK
<1>3. ASSUME pc = "decide", UNCHANGED <<note, found, todo, conflicts>>
      PROVE  (FoundOK /\ ConflictsOK)'
  <2>1. \A k \in conflicts : k \in Key /\ Several(k)
    BY <1>3 DEF Story, ConflictsOK, Base, TypeOK
  <2>2. \A k \in conflicts' : Several(k)'
    BY <1>3, <2>1, SeveralStays
  <2>3. QED
    BY <1>3, <2>2 DEF Story, FoundOK, ConflictsOK, Authored
<1>4. CASE Opening
  BY <1>1, <1>2, <1>4 DEF Opening, LoadRules, PurgeRemember, PurgeConflict, PurgeTemp, PurgeRows,
     PurgeDone, ReloadRules, Reconcile, RefuseBroken
<1>5. ~Writing
  BY DEF Writing, Refuse, AnswerForgotten, Resume, AnswerExcluded, Reserve, FinalThere,
     ClearTemp, ReuseTemp, BeginTemp, EndTemp, Link, LinkFails, Unlink, AnswerDurable, Exit
<1>6. CASE Environment
  <2>1. \A w \in Worktree, i \in Id : \A c : ~EditNote(w, i, c)
    BY DEF EditNote
  <2>2. QED
    BY <1>3, <1>6, <2>1 DEF Environment, Forget, LoseIndex
<1>7. CASE UNCHANGED vars
  BY <1>3, <1>7 DEF vars
<1>8. QED
  BY <1>4, <1>5, <1>6, <1>7 DEF Next, Command, Begin, Finish, Crash, Exit

\* A note under the final name is the reserved one, while nobody edits notes.
LEMMA FinalOurs ==
    ASSUME Base, Story, edits = 0, pc \in WritingSteps, Final # None
    PROVE  FinalIsOurs
<1>1. /\ TheKey \in Key /\ Op \in Reservation /\ Op.id \in Id /\ Op.worktree \in Worktree
      /\ Op.text \in Text
  BY OpTypes
<1>2. Final \in Content
  BY <1>1 DEF Final, Story, NoBroken, BrokenNote, Base, TypeOK
<1>3. Told(Op.id, Final.key, Final.text)
  <2>1. note[Op.worktree][Op.id] = [key |-> Final.key, text |-> Final.text]
    BY <1>2 DEF Final
  <2>2. QED
    BY <1>1, <2>1 DEF Told
<1>4. Told(Op.id, TheKey, Op.text)
  BY <1>1 DEF Told, Row, Op, Base, OpenOK, WriteOK, WritingSteps
<1>5. Final.key = TheKey /\ Final.text = Op.text
  BY <1>1, <1>2, <1>3, <1>4 DEF Story, OneStory
<1>6. QED
  BY <1>2, <1>5 DEF FinalIsOurs

LEMMA FinalFreeStep ==
    ASSUME Base, Story, [Next]_vars, edits = 0, edits' = 0
    PROVE  FinalFree'
<1> USE DEF files, store, history, session, Goto, FinalFree, Story
<1>1. CASE Opening
  BY <1>1 DEF Opening, LoadRules, PurgeRemember, PurgeConflict, PurgeTemp, PurgeRows,
     PurgeDone, ReloadRules, Reconcile, ReadNotes, RefuseBroken, Backfill
<1>2. CASE Writing
  BY <1>2 DEF Writing, Refuse, AnswerForgotten, Resume, AnswerExcluded, Reserve, FinalThere,
     ClearTemp, ReuseTemp, BeginTemp, EndTemp, Link, LinkFails, Unlink, AnswerDurable, Exit,
     Deciding, Final, Op, TheKey
<1>3. CASE Environment
  <2>1. \A w \in Worktree, i \in Id : \A c : ~EditNote(w, i, c)
    BY DEF EditNote
  <2>2. QED
    BY <1>3, <2>1 DEF Environment, Forget, LoseIndex, Final, Op, TheKey
<1>4. CASE UNCHANGED vars
  BY <1>4 DEF vars, Final, Op, TheKey
<1>5. QED
  BY <1>1, <1>2, <1>3, <1>4 DEF Next, Command, Begin, Finish, Crash, Exit

LEMMA FailedStep ==
    ASSUME Base, Story, [Next]_vars, edits = 0, edits' = 0
    PROVE  FailedOK'
<1> USE DEF files, store, history, session, Goto
<1> DEFINE Reason == \/ Several(TheKey)
                     \/ remembered[TheKey] # None /\ remembered[TheKey].text # request.text
                     \/ Op # None /\ Op.text # request.text
<1>1. ASSUME Reason, UNCHANGED <<note, ops, remembered, open, request>>
      PROVE  FailedOK'
  BY <1>1 DEF FailedOK, Several, AtMostOne, Reserved, Exists, Authored, TheKey, Op
<1>2. CASE Refuse
  <2>1. Reason
    BY <1>2 DEF Refuse, Retired, Deciding, Story, ConflictsOK
  <2>2. QED
    BY <1>1, <1>2, <2>1 DEF Refuse
<1>3. CASE pc = "failed" /\ UNCHANGED <<note, ops, remembered, open, request>>
  BY <1>1, <1>3 DEF Story, FailedOK
<1>4. CASE pc' # "failed"
  BY <1>4 DEF FailedOK
<1>5. CASE FinalThere
  BY <1>4, <1>5, FinalOurs DEF FinalThere, WritingSteps
<1>6. ~LinkFails /\ ~RefuseBroken
  BY DEF LinkFails, RefuseBroken, MayLink, Story, FinalFree, NoBroken
<1>7. CASE Opening
  BY <1>4, <1>6, <1>7 DEF Opening, LoadRules, PurgeRemember, PurgeConflict, PurgeTemp, PurgeRows,
     PurgeDone, ReloadRules, Reconcile, ReadNotes, Backfill
<1>8. CASE Writing
  BY <1>2, <1>4, <1>5, <1>6, <1>8 DEF Writing, AnswerForgotten, Resume, AnswerExcluded, Reserve,
     ClearTemp, ReuseTemp, BeginTemp, EndTemp, Link, Unlink, AnswerDurable, Exit, Deciding
<1>9. CASE Environment
  <2>1. \A w \in Worktree, i \in Id : \A c : ~EditNote(w, i, c)
    BY DEF EditNote
  <2>2. QED
    BY <1>3, <1>4, <1>9, <2>1 DEF Environment, Forget, LoseIndex
<1>10. CASE UNCHANGED vars
  BY <1>3, <1>4, <1>10 DEF vars
<1>11. QED
  BY <1>4, <1>7, <1>8, <1>9, <1>10 DEF Next, Command, Begin, Finish, Crash, Exit

LEMMA StoryStep ==
    ASSUME Base, Ledger, Story, [Next]_vars
    PROVE  Story'
<1> SUFFICES ASSUME edits' = 0 PROVE Story'
  BY DEF Story
<1>1. edits = 0
  <2>1. ASSUME NEW w \in Worktree, NEW i \in Id, NEW c, EditNote(w, i, c) PROVE FALSE
    BY <2>1 DEF EditNote, Base, TypeOK
  <2> USE DEF files, store, history, session
  <2>2. CASE Opening
    BY <2>2 DEF Opening, LoadRules, PurgeRemember, PurgeConflict, PurgeTemp, PurgeRows,
       PurgeDone, ReloadRules, Reconcile, ReadNotes, RefuseBroken, Backfill
  <2>3. CASE Writing
    BY <2>3 DEF Writing, Refuse, AnswerForgotten, Resume, AnswerExcluded, Reserve, FinalThere,
       ClearTemp, ReuseTemp, BeginTemp, EndTemp, Link, LinkFails, Unlink, AnswerDurable
  <2>4. CASE Environment
    BY <2>1, <2>4 DEF Environment, Forget, LoseIndex
  <2>5. QED
    BY <2>2, <2>3, <2>4 DEF Next, Command, Begin, Finish, Crash, vars
<1>2. NoBroken'
  BY <1>1, NoBrokenStep DEF Story
<1>3. QED
  BY <1>1, <1>2, OneStoryStep, ReadingStep, FinalFreeStep, FailedStep DEF Story

\* An interrupted note can be retried: while nobody edits note files and one note has
\* the key, the same text and key do not fail (note_commit, publish_note).
THEOREM RetryGoesThrough == Spec => []RetrySucceeds
<1>1. Story => RetrySucceeds
  BY DEF Story, FailedOK, Several, RetrySucceeds
<1>2. QED
  BY <1>1, InitBase, BaseStep, InitLedger, LedgerStep, InitStory, StoryStep, PTL DEF Spec
=============================================================================
