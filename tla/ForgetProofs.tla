---------------------------- MODULE ForgetProofs ----------------------------
(***************************************************************************)
(* Proofs about Forget for any items, times, generations and rules.  The    *)
(* invariant comes in three layers, each inductive relative to the ones     *)
(* before it: Base (types and the open generation), Rules (what the ledger  *)
(* knows of rules and identities) and Clean (what each phase of a purge has *)
(* achieved).                                                               *)
(***************************************************************************)
EXTENDS Forget, TLAPS

\* A command works on an index that can be read, and what does not exist is empty.
OpenOK == pc # "idle" => open \in Gen /\ index[open] = "ok"
AbsentOK ==
    \A g \in Gen : index[g] = "none" =>
        bodies[g] = {} /\ results[g] = {} /\ vectors[g] = {}
RequestOK == pc = "record" => request # None

Base == TypeOK /\ OpenOK /\ AbsentOK /\ RequestOK

USE RuleAssumption, NoneAssumption DEF Version

LEMMA InitBase == Init => Base
BY DEF Init, Base, TypeOK, OpenOK, AbsentOK, RequestOK, Exists

LEMMA ItemsOfVersions ==
    ASSUME NEW S \in SUBSET Version
    PROVE  ItemsOf(S) \subseteq Item
BY DEF ItemsOf

LEMMA BaseStep ==
    ASSUME Base, [Next]_vars
    PROVE  Base'
<1> USE DEF Base, TypeOK, OpenOK, AbsentOK, RequestOK, Exists, Goto,
            files, access, tables, session, history
<1>1. ASSUME NEW req \in Rule \cup {None}, NEW rebuild \in BOOLEAN,
             Begin(req, rebuild)
      PROVE  Base'
  BY <1>1 DEF Begin
<1>2. CASE LoadRules
  BY <1>2 DEF LoadRules, Mirrored
<1>3. CASE BeginPurge
  BY <1>3 DEF BeginPurge, ToVisit
<1>4. ASSUME NEW g \in Gen, Collect(g)
      PROVE  Base'
  <2>1. Identified(g) \subseteq Item
    BY ItemsOfVersions DEF Identified
  <2>2. pending' \in BOOLEAN
    BY <1>4 DEF Collect, PendingWith
  <2>3. QED
    BY <1>4, <2>1, <2>2 DEF Collect, Recorded
<1>5. ASSUME NEW g \in Gen, RemoveCorrupt(g)
      PROVE  Base'
  BY <1>5 DEF RemoveCorrupt
<1>6. ASSUME NEW g \in Gen, RefuseDamaged(g)
      PROVE  Base'
  BY <1>6 DEF RefuseDamaged
<1>7. CASE StartDeleting
  BY <1>7 DEF StartDeleting, ToVisit
<1>8. ASSUME NEW g \in Gen, Purge(g)
      PROVE  Base'
  <2> DEFINE removed == {v \in bodies[g] : v[1] \in known}
  <2>1. ItemsOf(removed) \subseteq Item
    BY ItemsOfVersions
  <2>2. bodies' = [bodies EXCEPT ![g] = @ \ removed] /\ gone' = gone \cup ItemsOf(removed)
    BY <1>8 DEF Purge
  <2>3. pending' \in BOOLEAN
    BY <1>8 DEF Purge, PendingWith
  <2>4. results' \in [Gen -> SUBSET Item] /\ \A h \in Gen : results'[h] \subseteq results[h]
    BY <1>8 DEF Purge
  <2>5. bodies' \in [Gen -> SUBSET Version] /\ \A h \in Gen : bodies'[h] \subseteq bodies[h]
    BY <2>2
  <2> HIDE DEF removed
  <2>6. QED
    BY <1>8, <2>1, <2>2, <2>3, <2>4, <2>5 DEF Purge
<1>9. ASSUME NEW g \in Gen, PurgeVectors(g)
      PROVE  Base'
  BY <1>9 DEF PurgeVectors
<1>10. CASE PurgeFrecency
  BY <1>10 DEF PurgeFrecency, ToVisit
<1>11. CASE Complete
  BY <1>11 DEF Complete
<1>12. CASE ReloadRules
  BY <1>12 DEF ReloadRules
<1>13. CASE Publish
  <2>0. \A i \in Importable : i \in Item /\ source[i] \in Time
    BY DEF Importable
  <2>1. {<<i, source[i]>> : i \in Importable} \subseteq Version
    BY <2>0
  <2>2. QED
    BY <1>13, <2>1 DEF Publish
<1>14. CASE Search
  <2>1. ItemsOf(bodies[open]) \subseteq Item
    BY <1>14, ItemsOfVersions DEF Search
  <2>2. QED
    BY <1>14, <2>1 DEF Search, Exit
<1>15. CASE SaveRuleFile
  BY <1>15 DEF SaveRuleFile
<1>16. CASE RecordRule
  BY <1>16 DEF RecordRule
<1>17. CASE Finish \/ Crash
  BY <1>17 DEF Finish, Crash, Exit
<1>18. ASSUME NEW i \in Item, NEW t \in Time \cup {None}, EditSource(i, t)
       PROVE  Base'
  BY <1>18 DEF EditSource
<1>19. ASSUME NEW rs \in SUBSET Rule, SwitchBranch(rs)
       PROVE  Base'
  BY <1>19 DEF SwitchBranch
<1>20. ASSUME NEW g \in Gen, NEW state \in {"damaged", "corrupt"}, Damage(g, state)
       PROVE  Base'
  BY <1>20 DEF Damage
<1>21. ASSUME NEW g \in Gen, NEW v \in Version, Restore(g, v)
       PROVE  Base'
  BY <1>21 DEF Restore
<1>22. CASE UNCHANGED vars
  BY <1>22 DEF vars
<1>23. QED
  BY <1>1, <1>2, <1>3, <1>4, <1>5, <1>6, <1>7, <1>8, <1>9, <1>10, <1>11, <1>12,
     <1>13, <1>14, <1>15, <1>16, <1>17, <1>18, <1>19, <1>20, <1>21, <1>22, SMTT(30)
     DEF Next, Command, Applying, Environment

\* Every variable of Forget has its type in every reachable state.
THEOREM TypeCorrect == Spec => []TypeOK
<1>1. Base => TypeOK
  BY DEF Base
<1>2. QED
  BY <1>1, InitBase, BaseStep, PTL DEF Spec

-----------------------------------------------------------------------------
(* What the ledger and a command know of rules and identities.             *)

Rules ==
    /\ gone \subseteq forgotten
    /\ obeyed \subseteq ledger
    /\ pc \notin {"idle", "load"} => rules \subseteq ledger /\ obeyed \subseteq rules
    /\ known \subseteq forgotten
    /\ pc \notin {"idle", "load", "begin"} => known = forgotten

LEMMA InitRules == Init => Rules
BY DEF Init, Rules

\* What a purge deletes from a generation is of items that are known to be forgotten.
LEMMA PurgedAreKnown ==
    ASSUME NEW S
    PROVE  ItemsOf({v \in S : v[1] \in known}) \subseteq known
BY DEF ItemsOf

LEMMA RulesStep ==
    ASSUME Base, Rules, [Next]_vars
    PROVE  Rules'
<1> USE DEF Rules, Goto, files, access, tables, session, history
<1>1. ASSUME NEW req \in Rule \cup {None}, NEW rebuild \in BOOLEAN,
             Begin(req, rebuild)
      PROVE  Rules'
  BY <1>1 DEF Begin
<1>2. CASE LoadRules
  BY <1>2 DEF LoadRules, Mirrored
<1>3. CASE BeginPurge
  BY <1>3 DEF BeginPurge
<1>4. ASSUME NEW g \in Gen, Collect(g)
      PROVE  Rules'
  BY <1>4 DEF Collect, Recorded
<1>5. ASSUME NEW g \in Gen, RemoveCorrupt(g) \/ RefuseDamaged(g) \/ PurgeVectors(g)
      PROVE  Rules'
  BY <1>5 DEF RemoveCorrupt, RefuseDamaged, PurgeVectors
<1>6. ASSUME NEW g \in Gen, Purge(g)
      PROVE  Rules'
  <2>1. gone' \subseteq gone \cup known
    BY <1>6, PurgedAreKnown DEF Purge
  <2>2. QED
    BY <1>6, <2>1 DEF Purge
<1>7. CASE StartDeleting \/ PurgeFrecency
  BY <1>7 DEF StartDeleting, PurgeFrecency
<1>8. CASE Complete
  BY <1>8 DEF Complete
<1>9. CASE ReloadRules \/ Publish \/ SaveRuleFile
  BY <1>9 DEF ReloadRules, Publish, SaveRuleFile
<1>10. CASE RecordRule
  BY <1>10 DEF RecordRule
<1>11. CASE Search \/ Finish \/ Crash
  BY <1>11 DEF Search, Finish, Crash, Exit
<1>12. CASE Environment
  BY <1>12 DEF Environment, EditSource, SwitchBranch, Damage, Restore
<1>13. CASE UNCHANGED vars
  BY <1>13 DEF vars
<1>14. QED
  BY <1>1, <1>2, <1>3, <1>4, <1>5, <1>6, <1>7, <1>8, <1>9, <1>10, <1>11, <1>12,
     <1>13 DEF Next, Command, Applying

\* Every later command of the clone knows a rule that was applied once, on whatever
\* branch the rule's file is: it is in the ledger before it is applied.
THEOREM RulesLastForever == Spec => []RulesLast
<1>1. Rules => RulesLast
  BY DEF Rules, RulesLast
<1>2. QED
  BY <1>1, InitBase, BaseStep, InitRules, RulesStep, PTL DEF Spec

\* An item of which a purge deleted anything is never published again: its identity was
\* in the ledger before the first row was deleted, and publishing asks the ledger.
THEOREM NothingReturns == Spec => NoResurrection
<1>1. ASSUME Base, Rules, [Next]_vars, pc = "reconcile", pc' = "ready"
      PROVE  ItemsOf(bodies'[open] \ bodies[open]) \cap gone = {}
  <2>1. Publish
    BY <1>1 DEF Next, Command, Applying, Environment, vars, Goto, Exit, Begin,
       LoadRules, BeginPurge, Collect, RemoveCorrupt, RefuseDamaged, StartDeleting,
       Purge, PurgeVectors, PurgeFrecency, Complete, ReloadRules, Search,
       SaveRuleFile, RecordRule, Finish, Crash, EditSource, SwitchBranch, Damage,
       Restore
  <2>2. bodies'[open] \ bodies[open] \subseteq {<<i, source[i]>> : i \in Importable}
    BY <1>1, <2>1 DEF Publish, Base, TypeOK, OpenOK
  <2>3. ItemsOf(bodies'[open] \ bodies[open]) \subseteq Importable
    BY <2>2 DEF ItemsOf
  <2>4. QED
    BY <1>1, <2>3 DEF Rules, Importable
<1>2. QED
  BY <1>1, InitBase, BaseStep, InitRules, RulesStep, PTL DEF Spec, NoResurrection
-----------------------------------------------------------------------------
(* What each phase of a purge has achieved.                                *)

\* Every item some rule matches a version of is known.
Collected(g) == \A r \in rules : \A v \in bodies[g] \cap r : v[1] \in known

\* No row and no cached result is left of a known item.
Deleted(g) == ItemsOf(bodies[g]) \cap known = {} /\ results[g] \cap known = {}

PhaseOK ==
    /\ pc = "collect" => \A g \in Gen \ todo : Collected(g)
    /\ pc \in {"purge", "caches"} => \A g \in Gen : Collected(g)
    /\ pc = "purge" => \A g \in Gen \ todo : Deleted(g)
    /\ pc = "caches" =>
           /\ frecency \cap known = {}
           /\ \A g \in Gen : Deleted(g)
           /\ \A g \in Gen \ todo : vectors[g] \cap known = {}

Clean == PhaseOK /\ CompleteMeansClean /\ PurgedEverywhere

Phases == {"collect", "purge", "caches", "reconcile", "ready", "record"}

LEMMA InitClean == Init => Clean
BY DEF Init, Clean, PhaseOK, CompleteMeansClean, PurgedEverywhere

\* Where a command is in no phase, only the caches matter.
LEMMA ElsewhereClean ==
    ASSUME Clean, pc' \notin Phases, UNCHANGED <<pending, forgotten, results, vectors>>
    PROVE  Clean'
BY DEF Clean, PhaseOK, CompleteMeansClean, PurgedEverywhere, Phases

LEMMA CollectKeepsClean ==
    ASSUME Base, Rules, Clean, NEW g \in Gen, Collect(g)
    PROVE  Clean'
<1> USE DEF Collect, tables
<1>1. PhaseOK'
  <2>1. SUFFICES ASSUME NEW h \in Gen, h \notin todo'
                 PROVE  Collected(h)'
    BY DEF PhaseOK
  <2>2. CASE h = g
    <3>1. ASSUME NEW r \in rules, NEW v \in bodies[g] \cap r
          PROVE  v[1] \in Identified(g)
      <4>1. v \in Version
        BY DEF Base, TypeOK
      <4>2. v[1] \in Item /\ v[2] \in Time /\ v = <<v[1], v[2]>>
        BY <4>1
      <4>3. v[1] \in ItemsOf(bodies[g])
        BY DEF ItemsOf
      <4>4. QED
        BY <4>2, <4>3 DEF Identified
    <3>2. QED
      BY <2>2, <3>1 DEF Collected
  <2>3. CASE h # g
    BY <2>1, <2>3 DEF Clean, PhaseOK, Collected
  <2>4. QED
    BY <2>2, <2>3
<1>2. CompleteMeansClean'
  BY DEF Clean, CompleteMeansClean, PendingWith, Recorded
<1>3. PurgedEverywhere'
  BY DEF PurgedEverywhere
<1>4. QED
  BY <1>1, <1>2, <1>3 DEF Clean

LEMMA PurgeKeepsClean ==
    ASSUME Base, Rules, Clean, NEW g \in Gen, Purge(g)
    PROVE  Clean'
<1> DEFINE removed == {v \in bodies[g] : v[1] \in known}
<1>1. /\ pc = "purge" /\ pc' = "purge" /\ g \in todo /\ todo' = todo \ {g}
      /\ bodies' = [bodies EXCEPT ![g] = @ \ removed]
      /\ pending' = (pending \/ ItemsOf(removed) # {})
      /\ results' = IF pending' THEN [results EXCEPT ![g] = {}] ELSE results
      /\ UNCHANGED <<rules, known, forgotten, vectors, frecency>>
  BY DEF Purge, PendingWith
<1>2. ItemsOf(bodies'[g]) \cap known = {}
  BY <1>1 DEF ItemsOf, Base, TypeOK
<1>3. pending' \/ (~pending /\ results' = results)
  BY <1>1
<1>4. results'[g] \cap known = {}
  BY <1>1, <1>3 DEF Clean, CompleteMeansClean, Rules, Base, TypeOK
<1> HIDE DEF removed
<1>5. PhaseOK'
  <2>1. \A h \in Gen : Collected(h)'
    BY <1>1 DEF Clean, PhaseOK, Collected, Base, TypeOK
  <2>2. ASSUME NEW h \in Gen \ todo'
        PROVE  Deleted(h)'
    <3>1. CASE h = g
      BY <1>1, <1>2, <1>4, <3>1 DEF Deleted
    <3>2. CASE h # g
      <4>1. h \notin todo /\ bodies'[h] = bodies[h] /\ results'[h] = results[h]
        BY <1>1, <2>2, <3>2 DEF Base, TypeOK
      <4>2. QED
        BY <1>1, <4>1 DEF Clean, PhaseOK, Deleted
    <3>3. QED
      BY <3>1, <3>2
  <2>3. QED
    BY <1>1, <2>1, <2>2 DEF PhaseOK
<1>6. CompleteMeansClean'
  BY <1>1, <1>3 DEF Clean, CompleteMeansClean
<1>7. PurgedEverywhere'
  BY <1>1 DEF PurgedEverywhere
<1>8. QED
  BY <1>5, <1>6, <1>7 DEF Clean

\* When the caches are done, nothing of a known item is left, and what a rule matches
\* is of a known item.
LEMMA CompleteKeepsClean ==
    ASSUME Base, Rules, Clean, Complete
    PROVE  Clean'
<1> USE DEF Complete, Goto, tables, access, session
<1>1. \A g \in Gen : Collected(g) /\ Deleted(g) /\ vectors[g] \cap known = {}
  BY DEF Clean, PhaseOK
<1>2. known = forgotten /\ frecency \cap known = {}
  BY DEF Rules, Clean, PhaseOK
<1>3. \A g \in Gen : \A r \in rules : bodies[g] \cap r = {}
  <2>1. SUFFICES ASSUME NEW g \in Gen, NEW r \in rules, NEW v \in bodies[g] \cap r
                 PROVE  FALSE
    OBVIOUS
  <2>2. v[1] \in known /\ v[1] \in ItemsOf(bodies[g])
    BY <1>1 DEF Collected, ItemsOf
  <2>3. QED
    BY <1>1, <2>2 DEF Deleted
<1>4. QED
  BY <1>1, <1>2, <1>3 DEF Clean, PhaseOK, CompleteMeansClean, PurgedEverywhere, Deleted

LEMMA PublishKeepsClean ==
    ASSUME Base, Rules, Clean, Publish
    PROVE  Clean'
<1> DEFINE new == {<<i, source[i]>> : i \in Importable}
<1>1. /\ bodies' = [bodies EXCEPT ![open] = @ \cup new]
      /\ pc = "reconcile" /\ pc' = "ready"
      /\ UNCHANGED <<pending, forgotten, frecency, results, vectors, rules>>
  BY DEF Publish, Goto, files, access
<1>2. \A g \in Gen : bodies'[g] \subseteq bodies[g] \cup new
  BY <1>1 DEF Base, TypeOK
<1>3. \A g \in Gen : ItemsOf(bodies'[g]) \subseteq ItemsOf(bodies[g]) \cup Importable
  BY <1>2 DEF ItemsOf
<1>4. Importable \cap forgotten = {}
  BY DEF Importable
<1>5. \A r \in rules : new \cap r = {}
  <2>1. \A r \in rules : \A i \in Importable : <<i, source[i]>> \notin r
    BY DEF Importable
  <2>2. QED
    BY <2>1
<1> HIDE DEF new
<1>6. PurgedEverywhere'
  BY <1>1, <1>2, <1>3, <1>4, <1>5 DEF Clean, PurgedEverywhere
<1>7. QED
  BY <1>1, <1>6 DEF Clean, PhaseOK, CompleteMeansClean

LEMMA CleanStep ==
    ASSUME Base, Rules, Clean, [Next]_vars
    PROVE  Clean'
<1> USE DEF Goto, files, access, tables, session, history
<1>1. ASSUME NEW req \in Rule \cup {None}, NEW rebuild \in BOOLEAN,
             Begin(req, rebuild)
      PROVE  Clean'
  BY <1>1, ElsewhereClean DEF Begin, Phases
<1>2. CASE LoadRules \/ RecordRule \/ ReloadRules \/ Crash \/ Finish
  BY <1>2, ElsewhereClean
     DEF LoadRules, RecordRule, ReloadRules, Crash, Finish, Exit, Phases
<1>3. CASE BeginPurge
  <2>1. CASE rules = {} /\ forgotten = {}
    BY <1>3, <2>1
       DEF BeginPurge, Clean, PhaseOK, CompleteMeansClean, PurgedEverywhere
  <2>2. CASE ~(rules = {} /\ forgotten = {})
    <3>1. /\ pc' = "collect" /\ todo' = Exists /\ (pending => pending')
          /\ UNCHANGED <<forgotten, bodies, results, vectors, rules>>
      BY <1>3, <2>2 DEF BeginPurge, ToVisit
    <3>2. \A g \in Gen \ Exists : bodies[g] = {}
      BY DEF Base, AbsentOK, Exists
    <3>3. QED
      BY <3>1, <3>2
         DEF Clean, PhaseOK, Collected, CompleteMeansClean, PurgedEverywhere
  <2>3. QED
    BY <2>1, <2>2
<1>4. ASSUME NEW g \in Gen, Collect(g)
      PROVE  Clean'
  BY <1>4, CollectKeepsClean
<1>5. ASSUME NEW g \in Gen, RemoveCorrupt(g)
      PROVE  Clean'
  BY <1>5 DEF RemoveCorrupt, Base, TypeOK, Clean, PhaseOK, Collected,
     CompleteMeansClean, PurgedEverywhere
<1>6. ASSUME NEW g \in Gen, RefuseDamaged(g)
      PROVE  Clean'
  BY <1>6, ElsewhereClean DEF RefuseDamaged, Phases
<1>7. CASE StartDeleting
  <2>1. /\ pc = "collect" /\ todo = {} /\ pc' = "purge" /\ todo' = Exists
        /\ UNCHANGED <<pending, forgotten, bodies, results, vectors, rules, known>>
    BY <1>7 DEF StartDeleting, MayDelete, ToVisit
  <2>2. \A g \in Gen \ Exists : ItemsOf(bodies[g]) = {} /\ results[g] = {}
    BY DEF Base, AbsentOK, Exists, ItemsOf
  <2>3. QED
    BY <2>1, <2>2 DEF Clean, PhaseOK, Collected, Deleted, CompleteMeansClean,
       PurgedEverywhere
<1>8. ASSUME NEW g \in Gen, Purge(g)
      PROVE  Clean'
  BY <1>8, PurgeKeepsClean
<1>9. ASSUME NEW g \in Gen, PurgeVectors(g)
      PROVE  Clean'
  BY <1>9 DEF PurgeVectors, Base, TypeOK, Clean, PhaseOK, Collected, Deleted,
     CompleteMeansClean, PurgedEverywhere
<1>10. CASE PurgeFrecency
  <2>1. /\ pc = "purge" /\ todo = {} /\ pc' = "caches"
        /\ frecency' = frecency \ known
        /\ todo' = {g \in Exists : pending}
        /\ UNCHANGED <<pending, forgotten, bodies, results, vectors, rules, known>>
    BY <1>10 DEF PurgeFrecency, ToVisit
  <2>2. \A g \in Gen \ Exists : vectors[g] = {}
    BY DEF Base, AbsentOK, Exists
  <2>3. \A g \in Gen \ todo' : vectors[g] \cap known = {}
    BY <2>1, <2>2 DEF Clean, CompleteMeansClean, Rules
  <2>4. QED
    BY <2>1, <2>3 DEF Clean, PhaseOK, Collected, Deleted, CompleteMeansClean,
       PurgedEverywhere
<1>11. CASE Complete
  BY <1>11, CompleteKeepsClean
<1>12. CASE Publish
  BY <1>12, PublishKeepsClean
<1>13. CASE Search
  BY <1>13 DEF Search, Exit, Base, TypeOK, Clean, PhaseOK, CompleteMeansClean,
     PurgedEverywhere
<1>14. CASE SaveRuleFile
  BY <1>14 DEF SaveRuleFile, Clean, PhaseOK, CompleteMeansClean, PurgedEverywhere
<1>15. CASE (\E i \in Item, t \in Time \cup {None} : EditSource(i, t))
              \/ (\E rs \in SUBSET Rule : SwitchBranch(rs)) \/ UNCHANGED vars
  BY <1>15 DEF EditSource, SwitchBranch, vars, Clean, PhaseOK, Collected, Deleted,
     CompleteMeansClean, PurgedEverywhere
<1>16. ASSUME NEW g \in Gen, NEW state \in {"damaged", "corrupt"}, Damage(g, state)
       PROVE  Clean'
  BY <1>16, ElsewhereClean DEF Damage, Phases
<1>17. ASSUME NEW g \in Gen, NEW v \in Version, Restore(g, v)
       PROVE  Clean'
  BY <1>17, ElsewhereClean DEF Restore, Phases
<1>18. QED
  BY <1>1, <1>2, <1>3, <1>4, <1>5, <1>6, <1>7, <1>8, <1>9, <1>10, <1>11, <1>12,
     <1>13, <1>14, <1>15, <1>16, <1>17 DEF Next, Command, Applying, Environment

\* After the rules were applied nothing of what they forget is left in any generation,
\* table or cache, wherever an earlier command died.
THEOREM PurgeIsThorough == Spec => []PurgedEverywhere
<1>1. Clean => PurgedEverywhere
  BY DEF Clean
<1>2. QED
  BY <1>1, InitBase, BaseStep, InitRules, RulesStep, InitClean, CleanStep, PTL DEF Spec

\* The ledger never calls a purge complete while a cache holds a copy of a forgotten
\* item, at no moment and after no crash.
THEOREM CompleteIsClean == Spec => []CompleteMeansClean
<1>1. Clean => CompleteMeansClean
  BY DEF Clean
<1>2. QED
  BY <1>1, InitBase, BaseStep, InitRules, RulesStep, InitClean, CleanStep, PTL DEF Spec
=============================================================================
