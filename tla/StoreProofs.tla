---------------------------- MODULE StoreProofs ----------------------------
(***************************************************************************)
(* Proofs about Store for any number of commands, generations and scopes.   *)
(* Inv is the inductive invariant: TypeOK, mutual exclusion by the lock,    *)
(* and what the files and the running command's memory say of each other.   *)
(***************************************************************************)
EXTENDS Store, TLAPS

Opened == {"ready", "numbered", "committed", "marked"}

\* Only the lock's holder is anywhere but idle.
Exclusion == \A p \in Proc : pc[p] # "idle" => lock = p

\* No row is ahead of the clock, and an empty file has no rows.
RowsOK ==
    \A g \in Gen :
        /\ \A v \in views[g] : v.seq <= clock
        /\ index[g] \in {"none", "bare"} => views[g] = {}
        /\ g \in verified \/ g = marker => views[g] # {}

\* The generation a command works on exists and is of the right age.
GenerationOK(p) ==
    /\ pc[p] = "schema" => gen[p] \in Gen /\ index[gen[p]] = "bare"
    /\ pc[p] \in Opened => gen[p] \in Gen /\ index[gen[p]] = "ok"
    /\ pc[p] \in {"idle", "locked", "select"} => ~replacing[p]
    /\ pc[p] \in {"build", "schema"} => replacing[p]
    /\ pc[p] \in Opened /\ ~replacing[p] => gen[p] \in verified
    /\ pc[p] \in {"schema", "ready", "numbered"} /\ replacing[p] =>
           views[gen[p]] = {}
    /\ pc[p] \in {"schema", "ready", "numbered", "committed"} /\ replacing[p] =>
           gen[p] \notin verified /\ gen[p] # marker

\* The number a command holds is newer than every row until it is committed.
NumberOK(p) ==
    /\ pc[p] \in {"numbered", "committed", "marked"} => seq[p] \in 1..MaxSeq
    /\ pc[p] = "numbered" =>
           /\ seq[p] <= clock
           /\ \A g \in Gen : \A v \in views[g] : v.seq < seq[p]
    /\ pc[p] \in {"committed", "marked"} => NewView(p) \in views[gen[p]]
    /\ pc[p] = "committed" /\ replacing[p] =>
           /\ views[gen[p]] = {NewView(p)}
           /\ \A g \in Gen \ {gen[p]} : \A v \in views[g] : v.seq < seq[p]
    /\ pc[p] = "marked" => replacing[p] /\ gen[p] \in verified

\* What a caller was told is a row of a verified generation.
ReturnedOK ==
    \A e \in returned : e[2] \in views[e[1]] /\ e[1] \in verified

Inv ==
    /\ TypeOK
    /\ Exclusion
    /\ RowsOK
    /\ \A p \in Proc : GenerationOK(p) /\ NumberOK(p)
    /\ ReturnedOK
    /\ SelectedIsComplete
    /\ CurrentIsNewest

-----------------------------------------------------------------------------

LEMMA Alone ==
    ASSUME Exclusion, NEW p \in Proc, pc[p] # "idle", NEW q \in Proc, q # p
    PROVE  pc[q] = "idle"
BY DEF Exclusion

USE NoProcAssumption, NoGenAssumption, MaxSeqAssumption DEF View, Opened

LEMMA InitInv == Init => Inv
BY DEF Init, Inv, TypeOK, Exclusion, RowsOK, GenerationOK, NumberOK,
       ReturnedOK, SelectedIsComplete, CurrentIsNewest, IndexStates, Steps

LEMMA CommitKeepsInv ==
    ASSUME Inv, NEW p \in Proc, Commit(p)
    PROVE  Inv'
<1> USE DEF Commit, Heads, NewView
<1>0. \A q \in Proc : q # p => pc[q] = "idle"
  BY DEF Inv, Exclusion
<1> gen[p] \in Gen /\ seq[p] \in 1..MaxSeq /\ scope[p] \in Scope
  BY DEF Inv, TypeOK, GenerationOK, NumberOK
<1>1. TypeOK'
  <2>1. NewView(p) \in View
    OBVIOUS
  <2>2. views' \in [Gen -> SUBSET View]
    BY <2>1 DEF Inv, TypeOK
  <2>3. Heads(p) \in [Scope -> 0..MaxSeq]
    BY DEF Inv, TypeOK
  <2>4. head' \in [Gen -> [Scope -> 0..MaxSeq]]
    BY <2>3 DEF Inv, TypeOK
  <2>5. pc' \in [Proc -> Steps]
    BY DEF Inv, TypeOK, Steps
  <2>6. QED
    BY <2>2, <2>4, <2>5 DEF Inv, TypeOK
<1>2. Exclusion'
  BY DEF Inv, TypeOK, Exclusion
<1>3. RowsOK'
  BY DEF Inv, TypeOK, RowsOK, GenerationOK, NumberOK
<1>4. \A q \in Proc : GenerationOK(q)' /\ NumberOK(q)'
  BY <1>0, ZenonT(40) DEF Inv, TypeOK, GenerationOK, NumberOK
<1>5. ReturnedOK'
  BY DEF Inv, TypeOK, ReturnedOK
<1>6. SelectedIsComplete'
  BY DEF Inv, TypeOK, SelectedIsComplete
<1>7. CurrentIsNewest'
  <2>1. SUFFICES ASSUME NEW g \in Gen, NEW s \in Scope
                 PROVE  /\ \A v \in views'[g] : v.scope = s => v.seq <= head'[g][s]
                        /\ head'[g][s] # 0 =>
                               [scope |-> s, seq |-> head'[g][s]] \in views'[g]
    BY DEF CurrentIsNewest
  <2>2. CASE g = gen[p] /\ s = scope[p]
    <3>1. head'[g][s] = seq[p] /\ views'[g] = views[g] \cup {NewView(p)}
      BY <2>2 DEF Inv, TypeOK
    <3>2. \A v \in views[g] : v.seq < seq[p]
      BY DEF Inv, NumberOK
    <3>3. views[g] \subseteq View /\ seq[p] \in Int
      BY DEF Inv, TypeOK
    <3>4. \A v \in views[g] : v.seq <= seq[p]
      BY <3>2, <3>3
    <3>5. QED
      BY <2>2, <3>1, <3>4
  <2>3. CASE ~(g = gen[p] /\ s = scope[p])
    <3>1. head'[g][s] = head[g][s]
      BY <2>3 DEF Inv, TypeOK
    <3>2. \A v \in views'[g] : v.scope = s => v \in views[g]
      BY <2>3 DEF Inv, TypeOK
    <3>3. views[g] \subseteq views'[g]
      BY DEF Inv, TypeOK
    <3>4. QED
      BY <3>1, <3>2, <3>3 DEF Inv, CurrentIsNewest
  <2>4. QED
    BY <2>2, <2>3
<1>8. QED
  BY <1>1, <1>2, <1>3, <1>4, <1>5, <1>6, <1>7 DEF Inv

LEMMA AcquireKeepsInv ==
    ASSUME Inv, NEW p \in Proc, Acquire(p)
    PROVE  Inv'
<1> USE DEF Acquire, FreeLock, durable
<1>1. TypeOK'
  BY DEF Inv, TypeOK, Steps, IndexStates, GenerationOK
<1>2. Exclusion'
  BY DEF Inv, TypeOK, Exclusion
<1>3. RowsOK'
  BY DEF Inv, TypeOK, RowsOK, GenerationOK, NumberOK, SelectedIsComplete
<1>4. ASSUME NEW q \in Proc PROVE GenerationOK(q)' /\ NumberOK(q)'
  <2>1. CASE q = p
    <3>1. GenerationOK(p)'
      BY DEF Inv, TypeOK, RowsOK, GenerationOK, SelectedIsComplete
    <3>2. NumberOK(p)'
      BY DEF Inv, TypeOK, RowsOK, GenerationOK, NumberOK
    <3>3. QED
      BY <2>1, <3>1, <3>2
  <2>2. CASE q # p
    <3>1. pc[q] = "idle" /\ pc'[q] = "idle" /\ replacing'[q] = replacing[q]
      BY <2>2 DEF Inv, TypeOK, Exclusion
    <3>2. QED
      BY <3>1 DEF Inv, GenerationOK, NumberOK
  <2>3. QED
    BY <2>1, <2>2
<1>5. ReturnedOK'
  BY DEF Inv, TypeOK, ReturnedOK, GenerationOK, NumberOK
<1>6. SelectedIsComplete'
  BY DEF Inv, TypeOK, SelectedIsComplete, GenerationOK, NumberOK
<1>7. CurrentIsNewest'
  BY DEF Inv, TypeOK, CurrentIsNewest
<1>8. QED
  BY <1>1, <1>2, <1>3, <1>4, <1>5, <1>6, <1>7 DEF Inv

LEMMA OpenLedgerKeepsInv ==
    ASSUME Inv, NEW p \in Proc, OpenLedger(p)
    PROVE  Inv'
<1> USE DEF OpenLedger, MayCreateLedger, Initialized
<1>1. TypeOK'
  BY DEF Inv, TypeOK, Steps, IndexStates, GenerationOK
<1>2. Exclusion'
  BY DEF Inv, TypeOK, Exclusion
<1>3. RowsOK'
  BY DEF Inv, TypeOK, RowsOK, GenerationOK, NumberOK, SelectedIsComplete
<1>4. \A q \in Proc : GenerationOK(q)' /\ NumberOK(q)'
  BY DEF Inv, TypeOK, Exclusion, RowsOK, GenerationOK, NumberOK, NewView, SelectedIsComplete
<1>5. ReturnedOK'
  BY DEF Inv, TypeOK, ReturnedOK, GenerationOK, NumberOK
<1>6. SelectedIsComplete'
  BY DEF Inv, TypeOK, SelectedIsComplete, GenerationOK, NumberOK
<1>7. CurrentIsNewest'
  BY DEF Inv, TypeOK, CurrentIsNewest
<1>8. QED
  BY <1>1, <1>2, <1>3, <1>4, <1>5, <1>6, <1>7 DEF Inv

LEMMA ReleaseKeepsInv ==
    ASSUME Inv, NEW p \in Proc, Release(p), UNCHANGED durable, UNCHANGED returned
    PROVE  Inv'
<1> USE DEF Release, durable
<1>1. TypeOK'
  BY DEF Inv, TypeOK, Steps, IndexStates, GenerationOK
<1>2. Exclusion'
  BY DEF Inv, TypeOK, Exclusion
<1>3. RowsOK'
  BY DEF Inv, TypeOK, RowsOK, GenerationOK, NumberOK, SelectedIsComplete
<1>4. \A q \in Proc : GenerationOK(q)' /\ NumberOK(q)'
  BY DEF Inv, TypeOK, Exclusion, RowsOK, GenerationOK, NumberOK, NewView, SelectedIsComplete
<1>5. ReturnedOK'
  BY DEF Inv, TypeOK, ReturnedOK, GenerationOK, NumberOK
<1>6. SelectedIsComplete'
  BY DEF Inv, TypeOK, SelectedIsComplete, GenerationOK, NumberOK
<1>7. CurrentIsNewest'
  BY DEF Inv, TypeOK, CurrentIsNewest
<1>8. QED
  BY <1>1, <1>2, <1>3, <1>4, <1>5, <1>6, <1>7 DEF Inv

LEMMA SelectCurrentKeepsInv ==
    ASSUME Inv, NEW p \in Proc, SelectCurrent(p)
    PROVE  Inv'
<1> USE DEF SelectCurrent
<1>1. TypeOK'
  BY DEF Inv, TypeOK, Steps, IndexStates, GenerationOK
<1>2. Exclusion'
  BY DEF Inv, TypeOK, Exclusion
<1>3. RowsOK'
  BY DEF Inv, TypeOK, RowsOK, GenerationOK, NumberOK, SelectedIsComplete
<1>4. \A q \in Proc : GenerationOK(q)' /\ NumberOK(q)'
  BY DEF Inv, TypeOK, Exclusion, RowsOK, GenerationOK, NumberOK, NewView, SelectedIsComplete
<1>5. ReturnedOK'
  BY DEF Inv, TypeOK, ReturnedOK, GenerationOK, NumberOK
<1>6. SelectedIsComplete'
  BY DEF Inv, TypeOK, SelectedIsComplete, GenerationOK, NumberOK
<1>7. CurrentIsNewest'
  BY DEF Inv, TypeOK, CurrentIsNewest
<1>8. QED
  BY <1>1, <1>2, <1>3, <1>4, <1>5, <1>6, <1>7 DEF Inv

LEMMA SelectNewKeepsInv ==
    ASSUME Inv, NEW p \in Proc, SelectNew(p)
    PROVE  Inv'
<1> USE DEF SelectNew, Healthy
<1>1. TypeOK'
  BY DEF Inv, TypeOK, Steps, IndexStates, GenerationOK
<1>2. Exclusion'
  BY DEF Inv, TypeOK, Exclusion
<1>3. RowsOK'
  BY DEF Inv, TypeOK, RowsOK, GenerationOK, NumberOK, SelectedIsComplete
<1>4. \A q \in Proc : GenerationOK(q)' /\ NumberOK(q)'
  BY ZenonT(40) DEF Inv, TypeOK, Exclusion, RowsOK, GenerationOK, NumberOK, NewView, SelectedIsComplete
<1>5. ReturnedOK'
  BY DEF Inv, TypeOK, ReturnedOK, GenerationOK, NumberOK
<1>6. SelectedIsComplete'
  BY DEF Inv, TypeOK, SelectedIsComplete, GenerationOK, NumberOK
<1>7. CurrentIsNewest'
  BY DEF Inv, TypeOK, CurrentIsNewest
<1>8. QED
  BY <1>1, <1>2, <1>3, <1>4, <1>5, <1>6, <1>7 DEF Inv

LEMMA MakeGenerationKeepsInv ==
    ASSUME Inv, NEW p \in Proc, NEW g \in Gen, MakeGeneration(p, g)
    PROVE  Inv'
<1> USE DEF MakeGeneration
<1>1. TypeOK'
  BY DEF Inv, TypeOK, Steps, IndexStates, GenerationOK
<1>2. Exclusion'
  BY DEF Inv, TypeOK, Exclusion
<1>3. RowsOK'
  BY DEF Inv, TypeOK, RowsOK, GenerationOK, NumberOK, SelectedIsComplete
<1>4. \A q \in Proc : GenerationOK(q)' /\ NumberOK(q)'
  BY ZenonT(40) DEF Inv, TypeOK, Exclusion, RowsOK, GenerationOK, NumberOK, NewView, SelectedIsComplete
<1>5. ReturnedOK'
  BY DEF Inv, TypeOK, ReturnedOK, GenerationOK, NumberOK
<1>6. SelectedIsComplete'
  BY DEF Inv, TypeOK, SelectedIsComplete, GenerationOK, NumberOK
<1>7. CurrentIsNewest'
  BY DEF Inv, TypeOK, CurrentIsNewest
<1>8. QED
  BY <1>1, <1>2, <1>3, <1>4, <1>5, <1>6, <1>7 DEF Inv

LEMMA CreateSchemaKeepsInv ==
    ASSUME Inv, NEW p \in Proc, CreateSchema(p)
    PROVE  Inv'
<1> USE DEF CreateSchema
<1>1. TypeOK'
  BY DEF Inv, TypeOK, Steps, IndexStates, GenerationOK
<1>2. Exclusion'
  BY DEF Inv, TypeOK, Exclusion
<1>3. RowsOK'
  BY DEF Inv, TypeOK, RowsOK, GenerationOK, NumberOK, SelectedIsComplete
<1>4. ASSUME NEW q \in Proc PROVE GenerationOK(q)' /\ NumberOK(q)'
  <2>1. CASE q = p
    <3>1. GenerationOK(p)'
      BY DEF Inv, TypeOK, RowsOK, GenerationOK, SelectedIsComplete
    <3>2. NumberOK(p)'
      BY DEF Inv, TypeOK, RowsOK, GenerationOK, NumberOK
    <3>3. QED
      BY <2>1, <3>1, <3>2
  <2>2. CASE q # p
    <3>1. pc[q] = "idle" /\ pc'[q] = "idle" /\ replacing'[q] = replacing[q]
      BY <2>2 DEF Inv, TypeOK, Exclusion
    <3>2. QED
      BY <3>1 DEF Inv, GenerationOK, NumberOK
  <2>3. QED
    BY <2>1, <2>2
<1>5. ReturnedOK'
  BY DEF Inv, TypeOK, ReturnedOK, GenerationOK, NumberOK
<1>6. SelectedIsComplete'
  BY DEF Inv, TypeOK, SelectedIsComplete, GenerationOK, NumberOK
<1>7. CurrentIsNewest'
  BY DEF Inv, TypeOK, CurrentIsNewest
<1>8. QED
  BY <1>1, <1>2, <1>3, <1>4, <1>5, <1>6, <1>7 DEF Inv

LEMMA TakeNumberKeepsInv ==
    ASSUME Inv, NEW p \in Proc, NEW s \in Scope, TakeNumber(p, s)
    PROVE  Inv'
<1> USE DEF TakeNumber, NextNumber
<1>1. TypeOK'
  BY DEF Inv, TypeOK, Steps, IndexStates, GenerationOK
<1>2. Exclusion'
  BY DEF Inv, TypeOK, Exclusion
<1>3. RowsOK'
  BY DEF Inv, TypeOK, RowsOK, GenerationOK, NumberOK, SelectedIsComplete
<1>4. ASSUME NEW q \in Proc PROVE GenerationOK(q)' /\ NumberOK(q)'
  <2>1. CASE q = p
    <3>1. GenerationOK(p)'
      BY DEF Inv, TypeOK, RowsOK, GenerationOK, SelectedIsComplete
    <3>2. NumberOK(p)'
      BY DEF Inv, TypeOK, RowsOK, GenerationOK, NumberOK
    <3>3. QED
      BY <2>1, <3>1, <3>2
  <2>2. CASE q # p
    <3>1. pc[q] = "idle" /\ pc'[q] = "idle" /\ replacing'[q] = replacing[q]
      BY <2>2 DEF Inv, TypeOK, Exclusion
    <3>2. QED
      BY <3>1 DEF Inv, GenerationOK, NumberOK
  <2>3. QED
    BY <2>1, <2>2
<1>5. ReturnedOK'
  BY DEF Inv, TypeOK, ReturnedOK, GenerationOK, NumberOK
<1>6. SelectedIsComplete'
  BY DEF Inv, TypeOK, SelectedIsComplete, GenerationOK, NumberOK
<1>7. CurrentIsNewest'
  BY DEF Inv, TypeOK, CurrentIsNewest
<1>8. QED
  BY <1>1, <1>2, <1>3, <1>4, <1>5, <1>6, <1>7 DEF Inv

LEMMA SourceRaceKeepsInv ==
    ASSUME Inv, NEW p \in Proc, SourceRace(p)
    PROVE  Inv'
<1> USE DEF SourceRace, durable
<1>1. TypeOK'
  BY DEF Inv, TypeOK, Steps, IndexStates, GenerationOK
<1>2. Exclusion'
  BY DEF Inv, TypeOK, Exclusion
<1>3. RowsOK'
  BY DEF Inv, TypeOK, RowsOK, GenerationOK, NumberOK, SelectedIsComplete
<1>4. \A q \in Proc : GenerationOK(q)' /\ NumberOK(q)'
  BY ZenonT(40) DEF Inv, TypeOK, Exclusion, RowsOK, GenerationOK, NumberOK, NewView, SelectedIsComplete
<1>5. ReturnedOK'
  BY DEF Inv, TypeOK, ReturnedOK, GenerationOK, NumberOK
<1>6. SelectedIsComplete'
  BY DEF Inv, TypeOK, SelectedIsComplete, GenerationOK, NumberOK
<1>7. CurrentIsNewest'
  BY DEF Inv, TypeOK, CurrentIsNewest
<1>8. QED
  BY <1>1, <1>2, <1>3, <1>4, <1>5, <1>6, <1>7 DEF Inv

LEMMA MarkVerifiedKeepsInv ==
    ASSUME Inv, NEW p \in Proc, MarkVerified(p)
    PROVE  Inv'
<1> USE DEF MarkVerified
<1>1. TypeOK'
  BY DEF Inv, TypeOK, Steps, IndexStates, GenerationOK
<1>2. Exclusion'
  BY DEF Inv, TypeOK, Exclusion
<1>3. RowsOK'
  BY DEF Inv, TypeOK, RowsOK, GenerationOK, NumberOK, SelectedIsComplete
<1>4. \A q \in Proc : GenerationOK(q)' /\ NumberOK(q)'
  BY DEF Inv, TypeOK, Exclusion, RowsOK, GenerationOK, NumberOK, NewView, SelectedIsComplete
<1>5. ReturnedOK'
  BY DEF Inv, TypeOK, ReturnedOK, GenerationOK, NumberOK
<1>6. SelectedIsComplete'
  BY DEF Inv, TypeOK, SelectedIsComplete, GenerationOK, NumberOK
<1>7. CurrentIsNewest'
  BY DEF Inv, TypeOK, CurrentIsNewest
<1>8. QED
  BY <1>1, <1>2, <1>3, <1>4, <1>5, <1>6, <1>7 DEF Inv

LEMMA SwitchCurrentKeepsInv ==
    ASSUME Inv, NEW p \in Proc, SwitchCurrent(p)
    PROVE  Inv'
<1> USE DEF SwitchCurrent
<1>1. TypeOK'
  BY DEF Inv, TypeOK, Steps, IndexStates, GenerationOK
<1>2. Exclusion'
  BY DEF Inv, TypeOK, Exclusion
<1>3. RowsOK'
  BY DEF Inv, TypeOK, RowsOK, GenerationOK, NumberOK, SelectedIsComplete
<1>4. \A q \in Proc : GenerationOK(q)' /\ NumberOK(q)'
  BY ZenonT(40) DEF Inv, TypeOK, Exclusion, RowsOK, GenerationOK, NumberOK, NewView, SelectedIsComplete
<1>5. ReturnedOK'
  BY DEF Inv, TypeOK, ReturnedOK, GenerationOK, NumberOK
<1>6. SelectedIsComplete'
  BY DEF Inv, TypeOK, SelectedIsComplete, GenerationOK, NumberOK
<1>7. CurrentIsNewest'
  BY DEF Inv, TypeOK, CurrentIsNewest
<1>8. QED
  BY <1>1, <1>2, <1>3, <1>4, <1>5, <1>6, <1>7 DEF Inv

LEMMA PublishReturnsKeepsInv ==
    ASSUME Inv, NEW p \in Proc, PublishReturns(p)
    PROVE  Inv'
<1> USE DEF PublishReturns, durable
<1>1. TypeOK'
  <2>1. <<gen[p], NewView(p)>> \in Gen \X View
    BY DEF Inv, TypeOK, GenerationOK, NumberOK
  <2>2. QED
    BY <2>1 DEF Inv, TypeOK, Steps
<1>2. Exclusion'
  BY DEF Inv, TypeOK, Exclusion
<1>3. RowsOK'
  BY DEF Inv, TypeOK, RowsOK, GenerationOK, NumberOK, SelectedIsComplete
<1>4. \A q \in Proc : GenerationOK(q)' /\ NumberOK(q)'
  BY DEF Inv, TypeOK, Exclusion, RowsOK, GenerationOK, NumberOK, NewView, SelectedIsComplete
<1>5. ReturnedOK'
  BY DEF Inv, TypeOK, ReturnedOK, GenerationOK, NumberOK
<1>6. SelectedIsComplete'
  BY DEF Inv, TypeOK, SelectedIsComplete, GenerationOK, NumberOK
<1>7. CurrentIsNewest'
  BY DEF Inv, TypeOK, CurrentIsNewest
<1>8. QED
  BY <1>1, <1>2, <1>3, <1>4, <1>5, <1>6, <1>7 DEF Inv

LEMMA DamageKeepsInv ==
    ASSUME Inv, NEW g \in Gen, NEW state, Damage(g, state)
    PROVE  Inv'
<1> USE DEF Damage, local
<1>1. TypeOK'
  <2>1. index' \in [Gen -> IndexStates]
    BY DEF Inv, TypeOK, IndexStates
  <2>2. QED
    BY <2>1 DEF Inv, TypeOK
<1>2. Exclusion'
  BY DEF Inv, TypeOK, Exclusion
<1>3. RowsOK'
  BY DEF Inv, TypeOK, RowsOK, GenerationOK, NumberOK, SelectedIsComplete
<1>4. \A q \in Proc : GenerationOK(q)' /\ NumberOK(q)'
  BY DEF Inv, TypeOK, Exclusion, RowsOK, GenerationOK, NumberOK, NewView, SelectedIsComplete
<1>5. ReturnedOK'
  BY DEF Inv, TypeOK, ReturnedOK, GenerationOK, NumberOK
<1>6. SelectedIsComplete'
  BY DEF Inv, TypeOK, SelectedIsComplete, GenerationOK, NumberOK
<1>7. CurrentIsNewest'
  BY DEF Inv, TypeOK, CurrentIsNewest
<1>8. QED
  BY <1>1, <1>2, <1>3, <1>4, <1>5, <1>6, <1>7 DEF Inv

LEMMA LoseMarkerKeepsInv ==
    ASSUME Inv, LoseMarker
    PROVE  Inv'
<1> USE DEF LoseMarker, local
<1>1. TypeOK'
  BY DEF Inv, TypeOK, Steps, IndexStates, GenerationOK
<1>2. Exclusion'
  BY DEF Inv, TypeOK, Exclusion
<1>3. RowsOK'
  BY DEF Inv, TypeOK, RowsOK, GenerationOK, NumberOK, SelectedIsComplete
<1>4. \A q \in Proc : GenerationOK(q)' /\ NumberOK(q)'
  BY DEF Inv, TypeOK, Exclusion, RowsOK, GenerationOK, NumberOK, NewView, SelectedIsComplete
<1>5. ReturnedOK'
  BY DEF Inv, TypeOK, ReturnedOK, GenerationOK, NumberOK
<1>6. SelectedIsComplete'
  BY DEF Inv, TypeOK, SelectedIsComplete, GenerationOK, NumberOK
<1>7. CurrentIsNewest'
  BY DEF Inv, TypeOK, CurrentIsNewest
<1>8. QED
  BY <1>1, <1>2, <1>3, <1>4, <1>5, <1>6, <1>7 DEF Inv

LEMMA LoseLedgerKeepsInv ==
    ASSUME Inv, LoseLedger
    PROVE  Inv'
<1> USE DEF LoseLedger, local
<1>1. TypeOK'
  BY DEF Inv, TypeOK, Steps, IndexStates, GenerationOK
<1>2. Exclusion'
  BY DEF Inv, TypeOK, Exclusion
<1>3. RowsOK'
  BY DEF Inv, TypeOK, RowsOK, GenerationOK, NumberOK, SelectedIsComplete
<1>4. \A q \in Proc : GenerationOK(q)' /\ NumberOK(q)'
  BY DEF Inv, TypeOK, Exclusion, RowsOK, GenerationOK, NumberOK, NewView, SelectedIsComplete
<1>5. ReturnedOK'
  BY DEF Inv, TypeOK, ReturnedOK, GenerationOK, NumberOK
<1>6. SelectedIsComplete'
  BY DEF Inv, TypeOK, SelectedIsComplete, GenerationOK, NumberOK
<1>7. CurrentIsNewest'
  BY DEF Inv, TypeOK, CurrentIsNewest
<1>8. QED
  BY <1>1, <1>2, <1>3, <1>4, <1>5, <1>6, <1>7 DEF Inv

LEMMA StepKeepsInv == Inv /\ [Next]_vars => Inv'
<1> SUFFICES ASSUME Inv, [Next]_vars PROVE Inv'
  OBVIOUS
<1>1. CASE UNCHANGED vars
  <2> USE <1>1 DEF vars, durable, local, Inv
  <2>1. TypeOK' /\ Exclusion' /\ RowsOK'
    BY DEF TypeOK, Exclusion, RowsOK
  <2>2. ASSUME NEW p \in Proc PROVE GenerationOK(p)' /\ NumberOK(p)'
    BY DEF GenerationOK, NumberOK, NewView
  <2>3. ReturnedOK' /\ SelectedIsComplete' /\ CurrentIsNewest'
    BY DEF ReturnedOK, SelectedIsComplete, CurrentIsNewest
  <2>4. QED
    BY <2>1, <2>2, <2>3
<1>2. ASSUME NEW p \in Proc, Opening(p) PROVE Inv'
  <2>1. CASE RefuseLedger(p)
    BY <2>1, ReleaseKeepsInv DEF RefuseLedger
  <2>2. QED
    BY <1>2, <2>1, AcquireKeepsInv, OpenLedgerKeepsInv, SelectCurrentKeepsInv,
       SelectNewKeepsInv, MakeGenerationKeepsInv, CreateSchemaKeepsInv DEF Opening
<1>3. ASSUME NEW p \in Proc, Publishing(p) PROVE Inv'
  BY <1>3, TakeNumberKeepsInv, SourceRaceKeepsInv, CommitKeepsInv,
     MarkVerifiedKeepsInv, SwitchCurrentKeepsInv, PublishReturnsKeepsInv
     DEF Publishing
<1>4. ASSUME NEW p \in Proc, Finish(p) \/ Crash(p) PROVE Inv'
  BY <1>4, ReleaseKeepsInv DEF Finish, Crash
<1>5. ASSUME Environment PROVE Inv'
  BY <1>5, DamageKeepsInv, LoseMarkerKeepsInv, LoseLedgerKeepsInv DEF Environment
<1>6. QED
  BY <1>1, <1>2, <1>3, <1>4, <1>5 DEF Next

\* Inv holds in every state any number of commands can reach.
THEOREM Invariance == Spec => []Inv
  BY InitInv, StepKeepsInv, PTL DEF Spec

-----------------------------------------------------------------------------
(* The properties of Store.                                                *)

\* Every variable keeps its type.
THEOREM TypeCorrect == Spec => []TypeOK
<1>1. Inv => TypeOK
  BY DEF Inv
<1>2. QED
  BY <1>1, Invariance, PTL

\* CURRENT only ever names a generation that was published from completely.
THEOREM SelectedComplete == Spec => []SelectedIsComplete
<1>1. Inv => SelectedIsComplete
  BY DEF Inv
<1>2. QED
  BY <1>1, Invariance, PTL

\* The row marked is_current is the newest of its scope.
THEOREM CurrentNewest == Spec => []CurrentIsNewest
<1>1. Inv => CurrentIsNewest
  BY DEF Inv
<1>2. QED
  BY <1>1, Invariance, PTL

\* Every session finds every view a caller was ever told about.
THEOREM ReturnedReadable == Spec => []ReturnedStaysReadable
<1>1. Inv => ReturnedStaysReadable
  <2> SUFFICES ASSUME Inv, NEW e \in returned, Healthy(e[1]),
                      NEW p \in Proc, pc[p] = "ready"
               PROVE  e \in Readable(gen[p])
    BY DEF ReturnedStaysReadable
  <2>1. e \in Gen \X View /\ e[2] \in views[e[1]] /\ e[1] \in verified
    BY DEF Inv, TypeOK, ReturnedOK
  <2>2. e[1] \in Archives(gen[p]) \cup {gen[p]}
    BY <2>1 DEF Archives
  <2>3. QED
    BY <2>1, <2>2 DEF Readable
<1>2. QED
  BY <1>1, Invariance, PTL

\* Only Commit adds a row, and it adds the one the command holds a number for.
LEMMA OnlyCommitAddsRows ==
    ASSUME Inv, [Next]_vars, views' # views
    PROVE  \E p \in Proc : Commit(p)
<1>1. ~ UNCHANGED vars
  BY DEF vars, durable
<1>2. \A p \in Proc : ~Opening(p) /\ ~Finish(p) /\ ~Crash(p)
  BY DEF Opening, Acquire, OpenLedger, RefuseLedger, SelectCurrent, SelectNew,
     MakeGeneration, CreateSchema, Finish, Crash, durable
<1>3. ~Environment
  BY DEF Environment, Damage, LoseMarker, LoseLedger
<1>4. PICK p \in Proc : Publishing(p)
  BY <1>1, <1>2, <1>3 DEF Next
<1>5. QED
  BY <1>4 DEF Publishing, TakeNumber, SourceRace, MarkVerified, SwitchCurrent,
     PublishReturns, durable

\* A committed row is newer than every row committed before it, in whatever
\* generation: the ledger's clock orders the clone's whole history.
THEOREM ClockOrder == Spec => CommitsInClockOrder
<1>1. ASSUME Inv, [Next]_vars
      PROVE  [\A g, h \in Gen : \A v \in views'[g] \ views[g] :
                  \A u \in views[h] : u.seq < v.seq]_vars
  <2> SUFFICES ASSUME NEW g \in Gen, NEW h \in Gen,
                      NEW v \in views'[g] \ views[g], NEW u \in views[h]
               PROVE  u.seq < v.seq
    OBVIOUS
  <2>1. PICK p \in Proc : Commit(p)
    BY <1>1, OnlyCommitAddsRows
  <2>2. v = NewView(p)
    BY <1>1, <2>1 DEF Inv, TypeOK, Commit
  <2>3. u.seq < seq[p]
    BY <1>1, <2>1 DEF Inv, NumberOK, Commit
  <2>4. QED
    BY <2>2, <2>3 DEF NewView
<1>2. QED
  BY <1>1, Invariance, PTL DEF Spec, CommitsInClockOrder

\* A row that comes into sight is the one that is being committed.
LEMMA OnlyCommitShowsRows ==
    ASSUME Inv, [Next]_vars, NEW e \in Visible', e \notin Visible
    PROVE  \E p \in Proc : Commit(p) /\ e[2] = NewView(p)
<1> USE DEF Healthy
<1>1. e \in Gen \X View /\ Healthy(e[1])' /\ e[2] \in views'[e[1]]
  BY DEF Visible
<1>2. CASE \E p \in Proc : Commit(p)
  <2>1. PICK p \in Proc : Commit(p)
    BY <1>2
  <2>2. e[2] \notin views[e[1]]
    BY <1>1, <2>1 DEF Visible, Commit
  <2>3. QED
    BY <1>1, <2>1, <2>2 DEF Inv, TypeOK, Commit
<1>3. CASE views' = views
  <2>1. CASE UNCHANGED vars
    BY <2>1 DEF vars, durable, local, Visible
  <2>2. CASE \E p \in Proc : Acquire(p) \/ OpenLedger(p) \/ SourceRace(p)
                \/ PublishReturns(p) \/ \E s \in Scope : TakeNumber(p, s)
    BY <2>2 DEF Acquire, OpenLedger, SourceRace, PublishReturns, TakeNumber,
       durable, Visible
  <2>3. CASE \E p \in Proc : RefuseLedger(p) \/ Finish(p) \/ Crash(p)
    BY <2>3 DEF RefuseLedger, Finish, Crash, Release, durable, Visible, Inv, TypeOK
  <2>4. CASE \E p \in Proc : SelectCurrent(p) \/ SelectNew(p)
    BY <2>4 DEF SelectCurrent, SelectNew, Visible, Inv, TypeOK
  <2>5. CASE \E p \in Proc, g \in Gen : MakeGeneration(p, g)
    BY <2>5 DEF MakeGeneration, Visible, Inv, TypeOK
  <2>6. CASE \E p \in Proc : CreateSchema(p)
    <3>1. PICK p \in Proc : CreateSchema(p)
      BY <2>6
    <3>2. views[gen[p]] = {} /\ gen[p] \in Gen
      BY <3>1 DEF CreateSchema, Inv, RowsOK, GenerationOK
    <3>3. e[1] # gen[p]
      BY <1>1, <1>3, <3>2
    <3>4. QED
      BY <1>1, <1>3, <3>1, <3>2, <3>3 DEF CreateSchema, Visible, Inv, TypeOK
  <2>7. CASE \E p \in Proc : MarkVerified(p) \/ SwitchCurrent(p)
    BY <2>7 DEF MarkVerified, SwitchCurrent, Visible, Inv, TypeOK
  <2>8. CASE Environment
    BY <2>8 DEF Environment, Damage, LoseMarker, LoseLedger, local, Visible,
       Inv, TypeOK
  <2>9. QED
    BY <1>2, <2>1, <2>2, <2>3, <2>4, <2>5, <2>6, <2>7, <2>8
       DEF Next, Opening, Publishing
<1>4. QED
  BY <1>2, <1>3, OnlyCommitAddsRows

\* The history shown as of a returned view never gains a row.
THEOREM NeverGrows == Spec => HistoryNeverGrows
<1>1. ASSUME Inv, [Next]_vars
      PROVE  [\A e \in returned : HistoryAt(e[2])' \subseteq HistoryAt(e[2])]_vars
  <2> SUFFICES ASSUME NEW e \in returned, NEW x \in HistoryAt(e[2])'
               PROVE  x \in HistoryAt(e[2])
    OBVIOUS
  <2>1. x \in Visible' /\ x[2].seq <= e[2].seq
    BY DEF HistoryAt
  <2>2. SUFFICES ASSUME x \notin Visible PROVE FALSE
    BY <2>1 DEF HistoryAt
  <2>3. PICK p \in Proc : Commit(p) /\ x[2] = NewView(p)
    BY <1>1, <2>1, <2>2, OnlyCommitShowsRows
  <2>4. e \in Gen \X View /\ e[2] \in views[e[1]]
    BY <1>1 DEF Inv, TypeOK, ReturnedOK
  <2>5. e[2].seq < seq[p]
    BY <1>1, <2>3, <2>4 DEF Inv, NumberOK, Commit
  <2>6. e[2].seq \in Int /\ seq[p] \in Int
    BY <1>1, <2>4 DEF Inv, TypeOK
  <2>7. QED
    BY <2>1, <2>3, <2>5, <2>6 DEF NewView
<1>2. QED
  BY <1>1, Invariance, PTL DEF Spec, HistoryNeverGrows

-----------------------------------------------------------------------------
(* The store implements ViewLog.                                           *)

LogNow == {e \in Lasting \X View : e[2] \in views[e[1]]}

LEMMA LogStep ==
    ASSUME Inv, [Next]_vars
    PROVE  Log!Next \/ LogNow' = LogNow
<1> USE DEF Healthy, Lasting
<1>1. \A g \in Gen, v \in View :
         (\A e \in LogNow : e[2].seq < v.seq) /\ LogNow' = LogNow \cup {<<g, v>>}
             => Log!Next
  BY DEF Log!Next, Log!Publish, Log!View, LogNow
<1>2. \A g \in Gen : LogNow' = {e \in LogNow : e[1] # g} => Log!Next
  BY DEF Log!Next, Log!Lose, LogNow
<1>3. CASE UNCHANGED vars
  BY <1>3 DEF vars, durable, LogNow
<1>4. CASE \E p \in Proc : Acquire(p) \/ OpenLedger(p) \/ SourceRace(p)
              \/ PublishReturns(p) \/ RefuseLedger(p) \/ Finish(p) \/ Crash(p)
              \/ \E s \in Scope : TakeNumber(p, s)
  BY <1>4 DEF Acquire, OpenLedger, SourceRace, PublishReturns, TakeNumber,
     RefuseLedger, Finish, Crash, durable, LogNow
<1>5. CASE \E p \in Proc : SelectCurrent(p) \/ SelectNew(p) \/ SwitchCurrent(p)
  BY <1>5 DEF SelectCurrent, SelectNew, SwitchCurrent, LogNow, Inv,
     SelectedIsComplete, NumberOK
<1>6. CASE \E p \in Proc, g \in Gen : MakeGeneration(p, g)
  BY <1>6 DEF MakeGeneration, LogNow, Inv, TypeOK
<1>7. CASE \E p \in Proc : CreateSchema(p)
  <2>1. PICK p \in Proc : CreateSchema(p)
    BY <1>7
  <2>2. gen[p] \in Gen /\ views[gen[p]] = {} /\ views' = views
    BY <2>1 DEF CreateSchema, Inv, RowsOK, GenerationOK
  <2>3. \A g \in Gen \ {gen[p]} : g \in Lasting' <=> g \in Lasting
    BY <2>1 DEF CreateSchema, Inv, TypeOK
  <2>4. QED
    BY <2>2, <2>3 DEF LogNow
<1>8. CASE \E p \in Proc : Commit(p)
  <2>1. PICK p \in Proc : Commit(p)
    BY <1>8
  <2>2. /\ gen[p] \in Gen /\ NewView(p) \in View
        /\ \A g \in Gen : \A v \in views[g] : v.seq < NewView(p).seq
    BY <2>1 DEF Commit, Inv, TypeOK, GenerationOK, NumberOK, NewView
  <2>3. Lasting' = Lasting
    BY <2>1 DEF Commit
  <2>4. CASE replacing[p]
    <3>1. gen[p] \notin Lasting
      BY <2>1, <2>4 DEF Commit, Inv, GenerationOK
    <3>2. QED
      BY <2>1, <2>3, <3>1 DEF Commit, Inv, TypeOK, LogNow
  <2>5. CASE ~replacing[p]
    <3>1. gen[p] \in Lasting
      BY <2>1, <2>2, <2>5 DEF Commit, Inv, GenerationOK
    <3>2. LogNow' = LogNow \cup {<<gen[p], NewView(p)>>}
      BY <2>1, <2>2, <2>3, <3>1 DEF Commit, Inv, TypeOK, LogNow
    <3>3. \A e \in LogNow : e[2].seq < NewView(p).seq
      BY <2>2 DEF LogNow
    <3>4. QED
      BY <1>1, <2>2, <3>2, <3>3
  <2>6. QED
    BY <2>4, <2>5
<1>9. CASE \E p \in Proc : MarkVerified(p)
  <2>1. PICK p \in Proc : MarkVerified(p)
    BY <1>9
  <2>2. /\ gen[p] \in Gen /\ NewView(p) \in View
        /\ views[gen[p]] = {NewView(p)} /\ index[gen[p]] = "ok"
        /\ \A g \in Gen \ {gen[p]} : \A v \in views[g] : v.seq < NewView(p).seq
        /\ gen[p] \notin Lasting
    BY <2>1 DEF MarkVerified, Inv, TypeOK, GenerationOK, NumberOK, NewView
  <2>3. Lasting' = Lasting \cup {gen[p]}
    BY <2>1, <2>2 DEF MarkVerified
  <2>4. LogNow' = LogNow \cup {<<gen[p], NewView(p)>>}
    BY <2>1, <2>2, <2>3 DEF MarkVerified, LogNow
  <2>5. \A e \in LogNow : e[2].seq < NewView(p).seq
    BY <2>2 DEF LogNow
  <2>6. QED
    BY <1>1, <2>2, <2>4, <2>5
<1>10. CASE Environment
  <2>1. CASE LoseMarker \/ LoseLedger
    BY <2>1 DEF LoseMarker, LoseLedger, LogNow, Inv, SelectedIsComplete
  <2>2. ASSUME NEW g \in Gen, Damage(g, "damaged") PROVE LogNow' = LogNow
    BY <2>2 DEF Damage, LogNow, Inv, TypeOK
  <2>3. ASSUME NEW g \in Gen, Damage(g, "corrupt")
        PROVE  LogNow' = {e \in LogNow : e[1] # g}
    <3>1. Lasting' = Lasting \ {g} /\ views' = views
      BY <2>3 DEF Damage, Inv, TypeOK
    <3>2. QED
      BY <3>1 DEF LogNow
  <2>4. QED
    BY <1>2, <1>10, <2>1, <2>2, <2>3 DEF Environment, Damage
<1>11. QED
  BY <1>3, <1>4, <1>5, <1>6, <1>7, <1>8, <1>9, <1>10 DEF Next, Opening, Publishing

\* Seen from outside, the generations of a clone are one log of views.
THEOREM ImplementsLog == Spec => LogSpec
<1>1. Init => Log!Init
  BY DEF Init, Log!Init, Lasting, Healthy
<1>2. Inv /\ [Next]_vars => [Log!Next]_LogNow
  BY LogStep
<1>3. QED
  BY <1>1, <1>2, Invariance, PTL DEF Spec, LogSpec, Log!Spec, LogNow
=============================================================================
