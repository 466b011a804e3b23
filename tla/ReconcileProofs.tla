-------------------------- MODULE ReconcileProofs --------------------------
(***************************************************************************)
(* Proofs about Reconcile for any sources, attempts and edits.  Churn, the  *)
(* device of the liveness run, edits without leaving a trace in past: the   *)
(* theorems assume that it is off.                                         *)
(*                                                                         *)
(* The invariant comes in layers, each inductive relative to TypeOK and to  *)
(* the ones before it that its step names: History (past, and              *)
(* configurations that never come back), Passes (when a pass read what it   *)
(* holds), Truth (when the views that are kept were true), Changes and      *)
(* Evidence (what was decided about a snapshot before its transaction),     *)
(* Disclosure (what was shown the ledger has) and Consent (the accepted     *)
(* configuration is the one that is remembered).                           *)
(***************************************************************************)
EXTENDS Reconcile, SequenceTheorems, TLAPS

USE KindAssumption, BoundAssumption

LEMMA SourceType == Len(Kind) \in Nat /\ Source = 1..Len(Kind) /\ Notes \subseteq Source
BY DEF Source, Notes

LEMMA ContentType ==
    /\ Absent \in Content
    /\ \A kind \in {"good", "broken"}, stamp \in 0..MaxEdits :
           [kind |-> kind, stamp |-> stamp] \in Content
    /\ \A x \in Content : x.stamp \in 0..MaxEdits
BY DEF Content, Absent

\* A pass has read a first part of the sources.
LEMMA PassLength ==
    ASSUME NEW p \in Pass
    PROVE  /\ p = [config |-> p.config, source |-> p.source] /\ p.config \in Config
           /\ Len(p.source) \in 0..Len(Kind)
           /\ p.source \in [1..Len(p.source) -> Content]
<1>1. p \in [config : Config, source : UNION {[1..n -> Content] : n \in 0..Len(Kind)}]
  BY DEF Pass
<1>2. PICK n \in 0..Len(Kind) : p.source \in [1..n -> Content]
  BY <1>1
<1>3. n \in Nat /\ p.source \in Seq(Content)
  BY <1>2, SourceType, SeqDef
<1>4. DOMAIN p.source = 1..n /\ DOMAIN p.source = 1..Len(p.source) /\ Len(p.source) \in Nat
  BY <1>2, <1>3, LenProperties
<1>5. n = Len(p.source)
  BY <1>3, <1>4
<1>6. QED
  BY <1>1, <1>2, <1>5

LEMMA StartPassType ==
    ASSUME NEW config \in Config
    PROVE  [config |-> config, source |-> << >>] \in Pass
<1>1. << >> \in [1..0 -> Content]
  BY EmptySeq, LenProperties
<1>2. << >> \in UNION {[1..n -> Content] : n \in 0..Len(Kind)}
  BY <1>1, SourceType
<1>3. QED
  BY <1>2 DEF Pass

LEMMA NoPassType == NoPass \in Pass /\ NoPass.config \in Config
<1>1. [sources |-> {}, stamp |-> 0] \in Config
  BY DEF Config
<1>2. QED
  BY <1>1, StartPassType DEF NoPass

\* What ReadSource does: the next source, and what is read stays as it is.
LEMMA ReadSourceEffect ==
    ASSUME TypeOK, ReadSource
    PROVE  /\ rd' \in Pass
           /\ rd'.config = rd.config
           /\ Len(rd.source) + 1 \in Source
           /\ rd'.source \in [1..(Len(rd.source) + 1) -> Content]
           /\ \A d \in 1..Len(rd.source) : rd'.source[d] = rd.source[d]
           /\ rd'.source[Len(rd.source) + 1] =
                  IF Len(rd.source) + 1 \in rd.config.sources
                  THEN src[Len(rd.source) + 1] ELSE Absent
<1> DEFINE n == Len(rd.source)
           content == IF n + 1 \in rd.config.sources THEN src[n + 1] ELSE Absent
           source == [d \in 1..(n + 1) |-> IF d = n + 1 THEN content ELSE rd.source[d]]
<1>1. rd \in Pass
  BY DEF TypeOK
<1>2. /\ rd = [config |-> rd.config, source |-> rd.source] /\ rd.config \in Config
      /\ n \in 0..Len(Kind) /\ rd.source \in [1..n -> Content]
  BY <1>1, PassLength
<1>3. n # Len(Kind)
  <2>1. SUFFICES ASSUME n = Len(Kind) PROVE FALSE
    OBVIOUS
  <2>2. DOMAIN rd.source = Source
    BY <1>2, <2>1 DEF Source
  <2>3. QED
    BY <2>2 DEF ReadSource, FullPass
<1>4. n \in Nat /\ n + 1 \in Source /\ n + 1 \in 0..Len(Kind)
  BY <1>2, <1>3, SourceType
<1>5. content \in Content
  BY <1>4, ContentType DEF TypeOK
<1>6. source \in [1..(n + 1) -> Content]
  BY <1>2, <1>4, <1>5
<1>7. rd' = [config |-> rd.config, source |-> source]
  BY <1>2 DEF ReadSource
<1>8. source \in UNION {[1..m -> Content] : m \in 0..Len(Kind)}
  BY <1>4, <1>6
<1>9. rd' \in Pass
  BY <1>2, <1>7, <1>8 DEF Pass
<1>10. \A d \in 1..n : source[d] = rd.source[d]
  BY <1>2, <1>4
<1>11. source[n + 1] = content
  BY <1>4
<1>12. QED
  BY <1>4, <1>6, <1>7, <1>9, <1>10, <1>11

\* A full pass is a possible state of the files.
LEMMA FullPassType ==
    ASSUME NEW p \in Pass, DOMAIN p.source = Source
    PROVE  /\ p \in Files
           /\ VersionsOf(p) \subseteq Source \X (0..MaxEdits)
           /\ Good(p) \subseteq Source /\ p.config.sources \subseteq Source
<1>1. p = [config |-> p.config, source |-> p.source] /\ p.config \in Config
  BY PassLength
<1>2. p.source \in [Source -> Content]
  BY PassLength
<1>3. p \in Files
  BY <1>1, <1>2 DEF Files
<1>4. QED
  BY <1>1, <1>2, <1>3, ContentType DEF VersionsOf, Good, Config

-----------------------------------------------------------------------------
(* Types.                                                                  *)

LEMMA InitType == Init => TypeOK
<1> SUFFICES ASSUME Init PROVE TypeOK
  OBVIOUS
<1>1. cfg \in Config
  BY DEF Init, Config
<1>2. src \in [Source -> Content]
  BY ContentType DEF Init
<1>3. now = 0 /\ past \in [0..now -> Files]
  BY <1>1, <1>2 DEF Init, Files
<1>4. work \in Index
  BY DEF Init, EmptyIndex, Index
<1>5. rd \in Pass /\ snap \in Pass /\ accepted \in Config
  BY NoPassType DEF Init
<1>6. /\ db \in Index \cup {NoIndex} /\ archive \in Index \cup {NoIndex}
      /\ prev \in Index \cup {NoIndex}
      /\ seen \subseteq Notes /\ known \subseteq Source /\ shown \subseteq Notes
      /\ now \in 0..MaxEdits /\ began \in 0..now /\ txn \in 0..now /\ attempt \in 0..Attempts
  BY DEF Init
<1>7. /\ answer \in [kind : {"none", "fresh", "stale", "error"}, view : View \cup {NoView}]
      /\ pc = "idle"
  BY DEF Init, NoAnswer
<1>8. had \in BOOLEAN /\ allow \in BOOLEAN /\ replacing \in BOOLEAN
  BY DEF Init
<1>9. QED
  BY <1>1, <1>2, <1>3, <1>4, <1>5, <1>6, <1>7, <1>8 DEF TypeOK

LEMMA ViewTypes ==
    ASSUME TypeOK
    PROVE  work.view \in View \cup {NoView} /\ PreviousView \in View \cup {NoView}
BY DEF TypeOK, Index, PreviousView

LEMMA NewViewType ==
    ASSUME TypeOK, GuardPasses
    PROVE  /\ NewView \in View
           /\ snap \in Files /\ snap.config.sources \subseteq Source
           /\ VersionsOf(snap) \subseteq Source \X (0..MaxEdits)
<1>1. snap \in Pass /\ DOMAIN snap.source = Source
  BY DEF TypeOK, GuardPasses, PassAgrees, FullPass
<1>2. /\ snap \in Files /\ snap.config.sources \subseteq Source
      /\ VersionsOf(snap) \subseteq Source \X (0..MaxEdits)
  BY <1>1, FullPassType
<1>3. work.versions \in SUBSET (Source \X (0..MaxEdits))
  BY DEF TypeOK, Index
<1>4. InputsHash(snap) \in Hash
  BY <1>2, <1>3 DEF InputsHash, Hash
<1>5. began \in 0..MaxEdits
  BY DEF TypeOK
<1>6. NewView \in View
  BY <1>4, <1>5 DEF NewView, View
<1>7. QED
  BY <1>2, <1>6

LEMMA ExitKeepsType == ASSUME TypeOK, Exit PROVE TypeOK'
<1>1. EmptyIndex \in Index
  BY DEF EmptyIndex, Index
<1>2. /\ answer' \in [kind : {"none", "fresh", "stale", "error"}, view : View \cup {NoView}]
      /\ work' \in Index /\ prev' \in Index \cup {NoIndex}
      /\ rd' \in Pass /\ snap' \in Pass
  BY <1>1, NoPassType DEF Exit, NoAnswer
<1>3. /\ UNCHANGED <<cfg, src, now, past, db, archive, seen, had, known, shown, accepted>>
      /\ pc' = "idle" /\ allow' \in BOOLEAN /\ replacing' \in BOOLEAN
  BY DEF Exit, files, store
<1>4. /\ began' \in 0..now' /\ txn' \in 0..now' /\ now' \in 0..MaxEdits /\ attempt' \in 0..Attempts
  BY <1>3 DEF Exit, TypeOK
<1>5. QED
  BY <1>2, <1>3, <1>4 DEF TypeOK

LEMMA WorkingKeepsType == ASSUME TypeOK, Working PROVE TypeOK'
<1> USE DEF files, store, request, session, told, Answer, StartPass
<1>1. CASE LoadConfig
  BY <1>1, StartPassType DEF LoadConfig, TypeOK
<1>2. CASE ReadSource
  <2>1. rd' \in Pass
    BY <1>2, ReadSourceEffect
  <2>2. QED
    BY <1>2, <2>1 DEF ReadSource, TypeOK
<1>3. CASE ReturnCurrent
  <2>1. accepted' \in Config /\ shown' \subseteq Notes
    BY <1>3, PassLength DEF ReturnCurrent, Tell, TypeOK
  <2>2. QED
    BY <1>3, <2>1, ViewTypes DEF ReturnCurrent, TypeOK
<1>4. CASE StartVerification
  BY <1>4, StartPassType DEF StartVerification, TypeOK
<1>5. CASE Retry
  BY <1>5 DEF Retry, MayRetry, NextAttempt, TypeOK
<1>6. CASE GiveUp
  BY <1>6, ViewTypes DEF GiveUp, TypeOK
<1>7. CASE KeepEvidence
  BY <1>7, ViewTypes DEF KeepEvidence, TypeOK
<1>8. CASE OpenTransaction
  BY <1>8, StartPassType DEF OpenTransaction, TypeOK
<1>9. CASE Commit
  <2>1. work' \in Index
    <3>1. work.versions \cup VersionsOf(snap) \in SUBSET (Source \X (0..MaxEdits))
      BY <1>9, NewViewType DEF Commit, TypeOK, Index
    <3>2. work.noted \cup (Notes \cap Good(snap)) \in SUBSET Notes
      BY DEF TypeOK, Index
    <3>3. QED
      BY <1>9, <3>1, <3>2, NewViewType DEF Commit, Index
  <2>2. QED
    BY <1>9, <2>1 DEF Commit, TypeOK
<1>10. CASE MirrorSources
  BY <1>10, PassLength DEF MirrorSources, MirroredSources, TypeOK, Config
<1>11. ASSUME NEW c \in Notes, MirrorNote(c) PROVE TypeOK'
  BY <1>11 DEF MirrorNote, TypeOK
<1>12. CASE MirrorInventory
  BY <1>12 DEF MirrorInventory, TypeOK
<1>13. CASE SelectAndReturn
  <2>1. accepted' \in Config /\ shown' \subseteq Notes
    BY <1>13, PassLength DEF SelectAndReturn, Tell, TypeOK
  <2>2. QED
    BY <1>13, <2>1, ViewTypes DEF SelectAndReturn, TypeOK
<1>14. CASE Finish
  BY <1>14, ExitKeepsType DEF Finish
<1>15. QED
  BY <1>1, <1>2, <1>3, <1>4, <1>5, <1>6, <1>7, <1>8, <1>9, <1>10, <1>11, <1>12, <1>13,
     <1>14 DEF Working

LEMMA EditedKeepsType ==
    ASSUME TypeOK, now < MaxEdits, NEW config \in Config, NEW source \in [Source -> Content],
           Edited(config, source)
    PROVE  TypeOK'
<1>1. [config |-> config, source |-> source] \in Files
  BY DEF Files
<1>2. past' \in [0..now' -> Files] /\ now' \in 0..MaxEdits /\ now \in Nat
  BY <1>1 DEF Edited, TypeOK
<1>3. QED
  BY <1>2 DEF Edited, TypeOK, store, request, session, told

LEMMA EnvironmentKeepsType == ASSUME TypeOK, Environment, ~Churning PROVE TypeOK'
<1> USE DEF files, store, request, session, told
<1>1. ASSUME NEW c \in Source, NEW kind \in {"good", "broken", "absent"}, EditSource(c, kind)
      PROVE  TypeOK'
  <2>1. now < MaxEdits /\ now + 1 \in 0..MaxEdits
    BY <1>1 DEF EditSource, TypeOK
  <2>2. (IF kind = "absent" THEN Absent ELSE [kind |-> kind, stamp |-> now + 1]) \in Content
    BY <2>1, ContentType
  <2>3. [src EXCEPT ![c] = IF kind = "absent" THEN Absent
                           ELSE [kind |-> kind, stamp |-> now + 1]] \in [Source -> Content]
    BY <2>2 DEF TypeOK
  <2>4. cfg \in Config
    BY DEF TypeOK
  <2>5. QED
    BY <1>1, <2>1, <2>3, <2>4, EditedKeepsType DEF EditSource
<1>2. ASSUME NEW sources \in SUBSET Source, EditConfig(sources)
      PROVE  TypeOK'
  <2>1. now < MaxEdits /\ [sources |-> sources, stamp |-> now + 1] \in Config
    BY <1>2 DEF EditConfig, TypeOK, Config
  <2>2. src \in [Source -> Content]
    BY DEF TypeOK
  <2>3. QED
    BY <1>2, <2>1, <2>2, EditedKeepsType DEF EditConfig
<1>3. CASE LoseIndex \/ LoseArchive
  BY <1>3 DEF LoseIndex, LoseArchive, TypeOK
<1>4. QED
  BY <1>1, <1>2, <1>3 DEF Environment, Churn

LEMMA TypeStep == ASSUME TypeOK, [Next]_vars, ~Churning PROVE TypeOK'
<1>1. ASSUME NEW rebuild \in BOOLEAN, NEW removal \in BOOLEAN, Begin(rebuild, removal)
      PROVE  TypeOK'
  <2>1. EmptyIndex \in Index
    BY DEF EmptyIndex, Index
  <2>2. /\ work' \in Index /\ prev' \in Index \cup {NoIndex}
        /\ replacing' \in BOOLEAN /\ allow' \in BOOLEAN
    BY <1>1, <2>1 DEF Begin, TypeOK
  <2>3. /\ UNCHANGED <<cfg, src, now, past, db, archive, seen, had, known, rd, snap, txn,
                        answer, shown, accepted>>
        /\ pc' = "load" /\ began' = now /\ attempt' = 1
    BY <1>1 DEF Begin, files, store, told
  <2>4. QED
    BY <2>2, <2>3 DEF TypeOK
<1>2. CASE Crash
  BY <1>2, ExitKeepsType DEF Crash
<1>3. CASE UNCHANGED vars
  BY <1>3 DEF vars, files, store, request, session, told, TypeOK
<1>4. QED
  BY <1>1, <1>2, <1>3, WorkingKeepsType, EnvironmentKeepsType DEF Next

\* Every variable of Reconcile has its type in every reachable state.
THEOREM TypeCorrect == ASSUME ~Churning PROVE Spec => []TypeOK
<1>1. TypeOK /\ [Next]_vars => TypeOK'
  BY TypeStep
<1>2. QED
  BY <1>1, InitType, PTL DEF Spec

-----------------------------------------------------------------------------
(* History: past ends with the files as they are, and a configuration that  *)
(* was left never comes back.                                               *)

PastOK == past[now] = [config |-> cfg, source |-> src]
StampsOK ==
    /\ \A i \in 0..now : past[i].config.stamp <= i
    /\ \A i, j \in 0..now : i <= j =>
           /\ past[i].config.stamp <= past[j].config.stamp
           /\ past[i].config.stamp = past[j].config.stamp => past[i].config = past[j].config

History == TypeOK /\ PastOK /\ StampsOK

LEMMA InitHistory == Init => History
<1> SUFFICES ASSUME Init PROVE History
  OBVIOUS
<1>1. TypeOK
  BY InitType
<1>2. now = 0 /\ past[0] = [config |-> cfg, source |-> src] /\ cfg.stamp = 0
  BY DEF Init
<1>3. \A i \in 0..now : i = 0
  BY <1>2
<1>4. StampsOK
  BY <1>2, <1>3 DEF StampsOK
<1>5. QED
  BY <1>1, <1>2, <1>4 DEF History, PastOK

\* Only edits add to the past, and nothing rewrites it.
LEMMA PastStep ==
    ASSUME TypeOK, [Next]_vars, ~Churning
    PROVE  \/ UNCHANGED <<cfg, src, now, past>>
           \/ /\ now' = now + 1 /\ now < MaxEdits
              /\ \A t \in 0..now : past'[t] = past[t]
              /\ past'[now'] = [config |-> cfg', source |-> src']
              /\ cfg' = cfg \/ cfg'.stamp = now + 1
              /\ UNCHANGED <<store, pc, request, session, told>>
<1>1. CASE Working \/ Crash \/ LoseIndex \/ LoseArchive
  BY <1>1 DEF Working, Crash, LoadConfig, ReadSource, ReturnCurrent, StartVerification, Retry,
     GiveUp, KeepEvidence, OpenTransaction, Commit, MirrorSources, MirrorNote,
     MirrorInventory, SelectAndReturn, Finish, Exit, LoseIndex, LoseArchive, files
<1>2. ASSUME NEW config, NEW source, Edited(config, source), now < MaxEdits,
             config = cfg \/ config.stamp = now + 1
      PROVE  /\ now' = now + 1 /\ now < MaxEdits
             /\ \A t \in 0..now : past'[t] = past[t]
             /\ past'[now'] = [config |-> cfg', source |-> src']
             /\ cfg' = cfg \/ cfg'.stamp = now + 1
             /\ UNCHANGED <<store, pc, request, session, told>>
  BY <1>2 DEF Edited, TypeOK
<1>3. ASSUME NEW c \in Source, NEW kind, EditSource(c, kind)
      PROVE  \E source : Edited(cfg, source) /\ now < MaxEdits
  BY <1>3 DEF EditSource
<1>4. ASSUME NEW sources, EditConfig(sources)
      PROVE  Edited([sources |-> sources, stamp |-> now + 1], src) /\ now < MaxEdits
  BY <1>4 DEF EditConfig
<1>5. CASE Environment
  BY <1>1, <1>2, <1>3, <1>4, <1>5 DEF Environment, Churn
<1>6. QED
  BY <1>1, <1>5 DEF Next, Begin, vars, files

LEMMA HistoryStep ==
    ASSUME History, [Next]_vars, ~Churning
    PROVE  History'
<1>1. TypeOK'
  BY TypeStep DEF History
<1>2. CASE UNCHANGED <<cfg, src, now, past>>
  BY <1>1, <1>2 DEF History, PastOK, StampsOK
<1>3. CASE /\ now' = now + 1
           /\ \A t \in 0..now : past'[t] = past[t]
           /\ past'[now'] = [config |-> cfg', source |-> src']
           /\ cfg' = cfg \/ cfg'.stamp = now + 1
  <2>1. /\ now \in Nat /\ past[now].config = cfg /\ past'[now + 1].config = cfg'
        /\ \A i \in 0..now : past[i].config.stamp \in Nat
    BY <1>3 DEF History, PastOK, TypeOK, Files, Config
  <2>2. past'[now + 1].config.stamp <= now + 1
    BY <1>3, <2>1 DEF History, StampsOK
  <2>3. \A i \in 0..now :
            /\ past[i].config.stamp <= past'[now + 1].config.stamp
            /\ past[i].config.stamp = past'[now + 1].config.stamp
                   => past[i].config = past'[now + 1].config
    BY <1>3, <2>1 DEF History, StampsOK
  <2>4. StampsOK'
    <3>1. \A i \in 0..now' : i \in 0..now \/ i = now + 1
      BY <1>3, <2>1
    <3>2. \A i \in 0..now' : past'[i].config.stamp <= i
      BY <1>3, <2>2, <3>1 DEF History, StampsOK
    <3>3. ASSUME NEW i \in 0..now', NEW j \in 0..now', i <= j
          PROVE  /\ past'[i].config.stamp <= past'[j].config.stamp
                 /\ past'[i].config.stamp = past'[j].config.stamp
                        => past'[i].config = past'[j].config
      <4>1. CASE j \in 0..now
        BY <1>3, <2>1, <3>1, <3>3, <4>1 DEF History, StampsOK
      <4>2. CASE j = now + 1 /\ i \in 0..now
        BY <1>3, <2>3, <4>2
      <4>3. CASE j = now + 1 /\ i = now + 1
        <5>1. past'[i].config.stamp \in Nat
          BY <1>1, <4>3 DEF TypeOK, Files, Config
        <5>2. QED
          BY <4>3, <5>1
      <4>4. QED
        BY <3>1, <4>1, <4>2, <4>3
    <3>4. QED
      BY <3>2, <3>3 DEF StampsOK
  <2>5. QED
    BY <1>1, <1>3, <2>4 DEF History, PastOK
<1>4. QED
  BY <1>2, <1>3, PastStep DEF History

\* A configuration seen before and after a moment was there at that moment.
LEMMA ConfigBetween ==
    ASSUME History, NEW i \in 0..now, NEW j \in 0..now, NEW k \in 0..now,
           i <= j, j <= k, past[i].config = past[k].config
    PROVE  past[j].config = past[i].config
<1>1. /\ past[i].config.stamp \in Nat /\ past[j].config.stamp \in Nat
      /\ past[k].config.stamp \in Nat
  BY DEF History, TypeOK, Files, Config
<1>2. /\ past[i].config.stamp <= past[j].config.stamp
      /\ past[j].config.stamp <= past[k].config.stamp
  BY DEF History, StampsOK
<1>3. past[i].config.stamp = past[j].config.stamp
  BY <1>1, <1>2
<1>4. QED
  BY <1>3 DEF History, StampsOK

\* A source seen with one content before and after a moment had it at that moment.
LEMMA SourceBetween ==
    ASSUME TypeOK, NEW t \in 0..MaxEdits, NothingReturned(t), NEW c \in Source,
           NEW i \in t..now, NEW j \in t..now, NEW k \in t..now,
           i <= j, j <= k, past[i].source[c] = past[k].source[c]
    PROVE  past[j].source[c] = past[i].source[c]
<1>1. i \in Nat /\ j \in Nat /\ k \in Nat
  BY DEF TypeOK
<1>2. CASE i = j \/ j = k
  BY <1>2
<1>3. CASE i < j /\ j < k
  BY <1>3 DEF NothingReturned
<1>4. QED
  BY <1>1, <1>2, <1>3

LEMMA ReadsIs ==
    ASSUME NEW state \in Files, NEW p \in Pass, DOMAIN p.source = Source,
           p.config = state.config,
           \A c \in Source : p.source[c] = IF c \in state.config.sources
                                           THEN state.source[c] ELSE Absent
    PROVE  Reads(state) = p
<1>1. p = [config |-> p.config, source |-> p.source] /\ p.source \in [Source -> Content]
  BY PassLength
<1>2. state = [config |-> state.config, source |-> state.source]
  BY DEF Files
<1>3. p.source = [c \in Source |-> IF c \in state.config.sources
                                   THEN state.source[c] ELSE Absent]
  BY <1>1
<1>4. Reads(state) = [config |-> state.config,
                      source |-> [c \in Source |-> IF c \in state.config.sources
                                                   THEN state.source[c] ELSE Absent]]
  BY <1>2 DEF Reads
<1>5. QED
  BY <1>1, <1>3, <1>4

-----------------------------------------------------------------------------
(* Passes: when the passes of an attempt read what they hold.               *)

ReadOver(p, lo, hi) ==
    \A c \in DOMAIN p.source :
        IF c \in p.config.sources THEN \E t \in lo..hi : p.source[c] = past[t].source[c]
                                  ELSE p.source[c] = Absent
ConfigOver(p, lo, hi) == \E t \in lo..hi : past[t].config = p.config

SnapshotOK == pc = "snapshot" => ReadOver(rd, began, now) /\ ConfigOver(rd, began, now)
VerifyOK == pc = "verify" => DOMAIN snap.source = Source /\ ReadOver(snap, began, now)
\* The first pass was over when the transaction opened, and the third one began.
GuardOK ==
    pc = "guard" => /\ DOMAIN snap.source = Source
                    /\ began <= txn /\ ReadOver(snap, began, txn)
                    /\ past[txn].config = rd.config /\ ReadOver(rd, txn, now)

Passes == SnapshotOK /\ VerifyOK /\ GuardOK

LEMMA InitPasses == Init => Passes
BY DEF Init, Passes, SnapshotOK, VerifyOK, GuardOK

LEMMA EmptyPass == DOMAIN << >> = {}
<1>1. << >> \in Seq({}) /\ Len(<< >>) = 0
  BY EmptySeq
<1>2. DOMAIN << >> = 1..0
  BY <1>1, LenProperties
<1>3. QED
  BY <1>2

\* Reading one more source now.
LEMMA ReadOverReads ==
    ASSUME History, ReadSource, NEW lo \in 0..now, ReadOver(rd, lo, now)
    PROVE  ReadOver(rd, lo, now)'
<1> DEFINE n == Len(rd.source)
<1>1. rd \in Pass
  BY DEF History, TypeOK
<1>2. n \in Nat /\ DOMAIN rd.source = 1..n
  BY <1>1, PassLength
<1>3. /\ rd'.config = rd.config /\ n + 1 \in Source /\ DOMAIN rd'.source = 1..(n + 1)
      /\ \A d \in 1..n : rd'.source[d] = rd.source[d]
      /\ rd'.source[n + 1] = IF n + 1 \in rd.config.sources THEN src[n + 1] ELSE Absent
  BY ReadSourceEffect DEF History
<1>4. past' = past /\ now' = now /\ past[now].source = src /\ now \in lo..now
  BY DEF History, PastOK, TypeOK, ReadSource, files
<1>5. ASSUME NEW c \in 1..(n + 1)
      PROVE  IF c \in rd.config.sources THEN \E t \in lo..now : rd'.source[c] = past[t].source[c]
                                        ELSE rd'.source[c] = Absent
  <2>1. CASE c \in 1..n
    BY <1>2, <1>3, <2>1 DEF ReadOver
  <2>2. CASE c = n + 1
    BY <1>3, <1>4, <2>2
  <2>3. QED
    BY <1>2, <2>1, <2>2
<1>6. QED
  BY <1>3, <1>4, <1>5 DEF ReadOver

LEMMA PassesStep ==
    ASSUME History, Passes, [Next]_vars, ~Churning
    PROVE  Passes'
<1>1. now \in Nat /\ began \in 0..now /\ txn \in 0..now
  BY DEF History, TypeOK
<1>2. CASE /\ now' = now + 1
           /\ \A t \in 0..now : past'[t] = past[t]
           /\ UNCHANGED <<pc, request, session>>
  <2>1. UNCHANGED <<pc, began, rd, snap, txn>> /\ \A t \in 0..now : t \in 0..now'
    BY <1>1, <1>2 DEF request, session
  <2>2. SnapshotOK'
    BY <1>1, <1>2, <2>1 DEF Passes, SnapshotOK, ReadOver, ConfigOver
  <2>3. VerifyOK'
    BY <1>1, <1>2, <2>1 DEF Passes, VerifyOK, ReadOver
  <2>4. GuardOK'
    BY <1>1, <1>2, <2>1 DEF Passes, GuardOK, ReadOver
  <2>5. QED
    BY <2>2, <2>3, <2>4 DEF Passes
<1>3. CASE UNCHANGED <<cfg, src, now, past>>
  <2>1. CASE LoadConfig
    <3>1. past[now].config = cfg /\ now \in began..now
      BY <1>1 DEF History, PastOK
    <3>2. pc' = "snapshot" => rd' = [config |-> cfg, source |-> << >>] /\ began' = began
      BY <2>1 DEF LoadConfig, Answer, request
    <3>3. pc' \notin {"verify", "guard"}
      BY <2>1 DEF LoadConfig, Answer
    <3>4. SnapshotOK'
      BY <1>3, <3>1, <3>2, EmptyPass DEF SnapshotOK, ReadOver, ConfigOver
    <3>5. QED
      BY <3>3, <3>4 DEF Passes, VerifyOK, GuardOK
  <2>2. CASE ReadSource
    <3>1. /\ UNCHANGED <<pc, began, snap, txn>> /\ rd'.config = rd.config
      BY <2>2, ReadSourceEffect DEF ReadSource, request, History
    <3>2. SnapshotOK'
      BY <1>1, <1>3, <2>2, <3>1, ReadOverReads DEF Passes, SnapshotOK, ConfigOver, ReadOver
    <3>3. VerifyOK'
      BY <1>3, <3>1 DEF Passes, VerifyOK, ReadOver
    <3>4. GuardOK'
      BY <1>1, <1>3, <2>2, <3>1, ReadOverReads DEF Passes, GuardOK, ReadOver
    <3>5. QED
      BY <3>2, <3>3, <3>4 DEF Passes
  <2>3. CASE StartVerification
    <3>1. /\ pc = "snapshot" /\ pc' = "verify" /\ snap' = rd /\ began' = began
          /\ DOMAIN rd.source = Source
      BY <2>3 DEF StartVerification, StartPass, FullPass, request
    <3>2. VerifyOK'
      BY <1>3, <3>1 DEF Passes, SnapshotOK, VerifyOK, ReadOver
    <3>3. QED
      BY <3>1, <3>2 DEF Passes, SnapshotOK, GuardOK
  <2>4. CASE OpenTransaction
    <3>1. /\ pc = "verify" /\ pc' = "guard" /\ snap' = snap /\ began' = began /\ txn' = now
          /\ rd' = [config |-> cfg, source |-> << >>] /\ past[now].config = cfg
      BY <2>4 DEF OpenTransaction, StartPass, request, History, PastOK
    <3>2. ReadOver(rd, txn, now)'
      BY <3>1, EmptyPass DEF ReadOver
    <3>3. GuardOK'
      BY <1>1, <1>3, <3>1, <3>2 DEF Passes, VerifyOK, GuardOK, ReadOver
    <3>4. QED
      BY <3>1, <3>3 DEF Passes, SnapshotOK, VerifyOK
  <2>5. CASE pc' \notin {"snapshot", "verify", "guard"}
    BY <2>5 DEF Passes, SnapshotOK, VerifyOK, GuardOK
  <2>6. CASE UNCHANGED <<pc, began, rd, snap, txn>>
    BY <1>3, <2>6 DEF Passes, SnapshotOK, VerifyOK, GuardOK, ReadOver, ConfigOver
  <2>7. CASE Working
    BY <2>1, <2>2, <2>3, <2>4, <2>5, <2>7 DEF Working, ReturnCurrent, Retry, GiveUp,
       KeepEvidence, Commit, MirrorSources, MirrorNote, MirrorInventory, SelectAndReturn,
       Finish, Exit, Answer
  <2>8. CASE Environment
    BY <2>6, <2>8 DEF Environment, EditSource, EditConfig, Edited, Churn, LoseIndex,
       LoseArchive, request, session
  <2>9. QED
    BY <2>5, <2>6, <2>7, <2>8 DEF Next, Begin, Crash, Exit, vars, request, session
<1>4. QED
  BY <1>2, <1>3, PastStep DEF History

\* What the third pass confirms was true when the transaction opened: the first
\* pass met every source before that moment and the third one after it.
LEMMA CommitTrue ==
    ASSUME History, Passes, pc = "guard", GuardPasses, NothingReturned(began)
    PROVE  txn \in began..now /\ Reads(past[txn]) = snap
<1>1. /\ now \in Nat /\ began \in 0..now /\ txn \in 0..now /\ began \in 0..MaxEdits
      /\ snap \in Pass /\ past[txn] \in Files
  BY DEF History, TypeOK
<1>2. /\ DOMAIN snap.source = Source /\ rd = snap /\ began <= txn
      /\ past[txn].config = snap.config
      /\ ReadOver(snap, began, txn) /\ ReadOver(snap, txn, now)
  BY DEF GuardPasses, PassAgrees, Passes, GuardOK
<1>3. ASSUME NEW c \in Source
      PROVE  snap.source[c] = IF c \in past[txn].config.sources
                              THEN past[txn].source[c] ELSE Absent
  <2>1. CASE c \notin snap.config.sources
    BY <1>2, <2>1 DEF ReadOver
  <2>2. CASE c \in snap.config.sources
    <3>1. PICK i \in began..txn : snap.source[c] = past[i].source[c]
      BY <1>2, <2>2 DEF ReadOver
    <3>2. PICK k \in txn..now : snap.source[c] = past[k].source[c]
      BY <1>2, <2>2 DEF ReadOver
    <3>3. /\ i \in began..now /\ txn \in began..now /\ k \in began..now
          /\ i <= txn /\ txn <= k
      BY <1>1, <1>2
    <3>4. past[txn].source[c] = past[i].source[c]
      BY <1>1, <3>1, <3>2, <3>3, SourceBetween, ZenonT(40) DEF History
    <3>5. QED
      BY <1>2, <2>2, <3>1, <3>4
  <2>3. QED
    BY <2>1, <2>2
<1>4. QED
  BY <1>1, <1>2, <1>3, ReadsIs

\* A committed view was true at a moment when its transaction was already open
\* (publication_inputs is read again inside Store::publish).
THEOREM CommitsAreTrue == ASSUME ~Churning PROVE Spec => CommitWasTrue
<1>1. ASSUME History, Passes, [Next]_vars
      PROVE  [pc = "guard" /\ pc' = "mirror" /\ NothingReturned(began)
                 => \E t \in txn..now : Reads(past[t]) = snap]_vars
  <2>1. ASSUME pc = "guard", pc' = "mirror" PROVE GuardPasses
    BY <1>1, <2>1 DEF Next, Begin, Crash, Exit, vars, Working, LoadConfig, ReadSource,
       ReturnCurrent, StartVerification, Retry, GiveUp, KeepEvidence, OpenTransaction, Commit,
       MirrorSources, MirrorNote, MirrorInventory, SelectAndReturn, Finish, Answer,
       Environment, EditSource, EditConfig, Edited, Churn, LoseIndex, LoseArchive
  <2>2. txn \in Nat /\ now \in Nat
    BY <1>1 DEF History, TypeOK
  <2>3. QED
    BY <1>1, <2>1, <2>2, CommitTrue
<1>2. ASSUME History, Passes, [Next]_vars PROVE History' /\ Passes'
  BY <1>2, HistoryStep, PassesStep
<1>3. QED
  BY <1>1, <1>2, InitHistory, InitPasses, PTL DEF Spec, CommitWasTrue

-----------------------------------------------------------------------------
(* Truth: every view that is kept was true between its beginning and now.   *)

TrueWithin(v, lo, hi) ==
    NothingReturned(v.since) => \E t \in lo..hi : Reads(past[t]) = v.hash.inputs
\* A view that a later command may find current.
ViewOK(v, hi) == v # NoView => v.since <= hi /\ TrueWithin(v, v.since, hi)

StoredOK == /\ db # NoIndex => ViewOK(db.view, now)
            /\ archive # NoIndex => ViewOK(archive.view, now)
\* The view a command found is older than the command; the one it made is not.
WorkOK == /\ pc \in {"load", "snapshot", "verify", "guard"} => ViewOK(work.view, began)
          /\ pc \in {"mirror", "select"} =>
                 /\ work.view \in View /\ work.view.since = began
                 /\ TrueWithin(work.view, began, now)
AnswerOK == pc = "done" /\ answer.kind = "fresh" =>
                answer.view \in View /\ TrueWithin(answer.view, began, now)

Truth == StoredOK /\ WorkOK /\ AnswerOK

LEMMA InitTruth == Init => Truth
BY DEF Init, Truth, StoredOK, WorkOK, AnswerOK

\* What was true stays so; later edits only make the premise stronger.
LEMMA TrueStays ==
    ASSUME History, NEW v, v.since \in Nat, NEW lo \in 0..now, NEW hi \in 0..now,
           now' = now + 1, \A t \in 0..now : past'[t] = past[t],
           TrueWithin(v, lo, hi), NEW end \in hi..now'
    PROVE  TrueWithin(v, lo, end)'
<1>1. now \in Nat
  BY DEF History, TypeOK
<1>2. ASSUME NothingReturned(v.since)' PROVE NothingReturned(v.since)
  <2> SUFFICES ASSUME NEW c \in Source, NEW i \in v.since..now, NEW j \in v.since..now,
                      NEW k \in v.since..now, i < j, j < k,
                      past[i].source[c] = past[k].source[c]
               PROVE  past[j].source[c] = past[i].source[c]
    BY DEF NothingReturned
  <2>1. \A t \in v.since..now : t \in v.since..now' /\ past'[t] = past[t]
    BY <1>1
  <2>2. past'[i].source[c] = past'[k].source[c] => past'[j].source[c] = past'[i].source[c]
    BY <1>2, <2>1 DEF NothingReturned
  <2>3. QED
    BY <2>1, <2>2
<1>3. \A t \in lo..hi : t \in lo..end /\ Reads(past'[t]) = Reads(past[t])
  BY <1>1
<1>4. QED
  BY <1>2, <1>3 DEF TrueWithin, Reads

\* A view that the one pass of an attempt found current was true when the
\* command began: what it held before that moment it still held after it.
LEMMA CurrentTrue ==
    ASSUME History, Passes, Truth, pc = "snapshot", FullPass, IsCurrent
    PROVE  TrueWithin(work.view, began, now)
<1> SUFFICES ASSUME NothingReturned(work.view.since)
             PROVE  \E t \in began..now : Reads(past[t]) = work.view.hash.inputs
  BY DEF TrueWithin
<1>1. /\ now \in 0..MaxEdits /\ began \in 0..now /\ rd \in Pass /\ past[began] \in Files
      /\ DOMAIN rd.source = Source
  BY DEF History, TypeOK, FullPass
<1>2. work.view \in View /\ work.view # NoView /\ work.view.hash.inputs = rd
  BY DEF History, TypeOK, Index, IsCurrent, InputsHash
<1>3. work.view.since \in 0..MaxEdits
  BY <1>2 DEF View
<1>4. work.view.since <= began /\ \E t \in work.view.since..began : Reads(past[t]) = rd
  BY <1>2 DEF Truth, WorkOK, ViewOK, TrueWithin
<1>5. PICK i \in work.view.since..began : Reads(past[i]) = rd
  BY <1>4
<1>6. i \in 0..now /\ i \in work.view.since..now /\ began \in work.view.since..now /\ i <= began
  BY <1>1, <1>3, <1>4
<1>7. past[i] \in Files
  BY <1>6 DEF History, TypeOK
<1>8. /\ past[i].config = rd.config
      /\ \A c \in Source : rd.source[c] = IF c \in past[i].config.sources
                                          THEN past[i].source[c] ELSE Absent
  <2>1. past[i] = [config |-> past[i].config, source |-> past[i].source]
    BY <1>7 DEF Files
  <2>2. rd = [config |-> past[i].config,
              source |-> [c \in Source |-> IF c \in past[i].config.sources
                                           THEN past[i].source[c] ELSE Absent]]
    BY <1>5, <2>1 DEF Reads
  <2>3. QED
    BY <2>2
<1>9. past[began].config = rd.config
  <2>1. PICK k \in began..now : past[k].config = rd.config
    BY DEF Passes, SnapshotOK, ConfigOver
  <2>2. k \in 0..now /\ began <= k
    BY <1>1
  <2>3. QED
    BY <1>1, <1>6, <1>8, <2>1, <2>2, ConfigBetween
<1>10. ASSUME NEW c \in Source
       PROVE  rd.source[c] = IF c \in past[began].config.sources
                             THEN past[began].source[c] ELSE Absent
  <2>1. CASE c \notin rd.config.sources
    BY <1>8, <1>9, <2>1
  <2>2. CASE c \in rd.config.sources
    <3>1. PICK k \in began..now : rd.source[c] = past[k].source[c]
      BY <1>1, <2>2 DEF Passes, SnapshotOK, ReadOver
    <3>2. k \in work.view.since..now /\ began <= k
      BY <1>1, <1>3, <1>4
    <3>3. past[i].source[c] = past[k].source[c]
      BY <1>8, <2>2, <3>1
    <3>4. past[began].source[c] = past[i].source[c]
      BY <1>3, <1>6, <3>2, <3>3, SourceBetween DEF History
    <3>5. QED
      BY <1>8, <1>9, <2>2, <3>4
  <2>3. QED
    BY <2>1, <2>2
<1>11. Reads(past[began]) = rd
  BY <1>1, <1>9, <1>10, ReadsIs
<1>12. QED
  BY <1>1, <1>2, <1>11

\* A view that was just committed was true when its transaction opened.
LEMMA CommitMakesTrue ==
    ASSUME History, Passes, Commit
    PROVE  /\ work'.view \in View /\ work'.view.since = began
           /\ TrueWithin(work'.view, began, now)
<1>1. /\ work'.view.since = began /\ work'.view.hash.inputs = snap
      /\ pc = "guard" /\ GuardPasses
  BY DEF Commit, NewView, InputsHash
<1>2. work'.view \in View
  BY <1>1, NewViewType DEF Commit, History
<1>3. QED
  BY <1>1, <1>2, CommitTrue DEF TrueWithin

\* Files and past as they were: what the step does to the views.
LEMMA TruthQuiet ==
    ASSUME History, Passes, Truth, [Next]_vars, ~Churning, UNCHANGED <<cfg, src, now, past>>
    PROVE  Truth'
<1> USE DEF files, store, request, session, told, Answer
<1>1. now \in Nat /\ began \in 0..now
  BY DEF History, TypeOK
<1>2. \A v, lo, hi : TrueWithin(v, lo, hi) <=> TrueWithin(v, lo, hi)'
  BY DEF TrueWithin, NothingReturned, Reads
<1>3. \A v, hi : ViewOK(v, hi) <=> ViewOK(v, hi)'
  BY <1>2 DEF ViewOK
<1>4. CASE Commit
  <2>1. PICK v \in View : v = work'.view /\ v.since = began /\ TrueWithin(v, began, now)
    BY <1>4, CommitMakesTrue
  <2>2. TrueWithin(v, began, now)' /\ ViewOK(v, now)'
    BY <1>1, <1>2, <1>4, <2>1 DEF Commit, ViewOK
  <2>3. /\ UNCHANGED <<archive, began, answer>> /\ pc' = "mirror"
        /\ db' = IF replacing THEN db ELSE work'
    BY <1>4 DEF Commit
  <2>4. StoredOK'
    BY <1>3, <2>1, <2>2, <2>3 DEF Truth, StoredOK
  <2>5. WorkOK'
    BY <2>1, <2>2, <2>3 DEF WorkOK
  <2>6. QED
    BY <2>3, <2>4, <2>5 DEF Truth, AnswerOK
<1>5. CASE ReturnCurrent
  BY <1>2, <1>3, <1>5, CurrentTrue, ViewTypes DEF History, ReturnCurrent, IsCurrent, Truth, StoredOK, WorkOK, AnswerOK
<1>6. CASE SelectAndReturn
  <2>1. ViewOK(work.view, now)
    BY <1>1, <1>6 DEF SelectAndReturn, Truth, WorkOK, ViewOK
  <2>2. QED
    BY <1>2, <1>3, <1>6, <2>1 DEF SelectAndReturn, Truth, StoredOK, WorkOK, AnswerOK
<1>7. ASSUME NEW rebuild, NEW removal, Begin(rebuild, removal)
      PROVE  Truth'
  BY <1>1, <1>3, <1>7 DEF Begin, Truth, StoredOK, WorkOK, AnswerOK, EmptyIndex, ViewOK
<1>8. CASE UNCHANGED <<db, archive, pc, began, work, answer>>
  BY <1>2, <1>3, <1>8 DEF Truth, StoredOK, WorkOK, AnswerOK
<1>9. CASE LoseIndex \/ LoseArchive
  BY <1>2, <1>3, <1>9 DEF LoseIndex, LoseArchive, Truth, StoredOK, WorkOK, AnswerOK
<1>10. CASE Exit
  BY <1>3, <1>10 DEF Exit, Truth, StoredOK, WorkOK, AnswerOK
<1>11. CASE /\ UNCHANGED <<db, archive, began, work>>
            /\ \/ pc' \in {"load", "snapshot", "verify", "guard"} /\
                  pc \in {"load", "snapshot", "verify", "guard"}
               \/ pc' \in {"mirror", "select"} /\ pc \in {"mirror", "select"}
               \/ pc' = "done" /\ answer'.kind # "fresh"
  BY <1>2, <1>3, <1>11 DEF Truth, StoredOK, WorkOK, AnswerOK
<1>12. CASE Working
  BY <1>4, <1>5, <1>6, <1>8, <1>10, <1>11, <1>12 DEF Working, LoadConfig, ReadSource,
     StartVerification, StartPass, Retry, GiveUp, KeepEvidence, OpenTransaction,
     MirrorSources, MirrorNote, MirrorInventory, Finish
<1>13. CASE Environment
  BY <1>8, <1>9, <1>13 DEF Environment, EditSource, EditConfig, Edited, Churn
<1>14. QED
  BY <1>7, <1>8, <1>10, <1>12, <1>13 DEF Next, Crash, vars

LEMMA TruthStep ==
    ASSUME History, Passes, Truth, [Next]_vars, ~Churning
    PROVE  Truth'
<1>1. now \in Nat /\ began \in 0..now
  BY DEF History, TypeOK
<1>2. CASE /\ now' = now + 1
           /\ \A t \in 0..now : past'[t] = past[t]
           /\ UNCHANGED <<db, archive, pc, began, work, answer>>
  <2>1. \A v \in View : v.since \in Nat
    BY DEF View
  <2>2. ASSUME NEW v \in View \cup {NoView}, NEW hi \in 0..now, ViewOK(v, hi)
        PROVE  ViewOK(v, hi)' /\ ViewOK(v, now)'
    BY <1>1, <1>2, <2>1, <2>2, TrueStays DEF ViewOK
  <2>3. /\ db # NoIndex => db.view \in View \cup {NoView}
        /\ archive # NoIndex => archive.view \in View \cup {NoView}
        /\ work.view \in View \cup {NoView}
    BY DEF History, TypeOK, Index
  <2>4. ASSUME NEW v \in View, TrueWithin(v, began, now)
        PROVE  TrueWithin(v, began, now)'
    BY <1>1, <1>2, <2>1, <2>4, TrueStays
  <2>5. StoredOK'
    BY <1>1, <1>2, <2>2, <2>3 DEF Truth, StoredOK
  <2>6. WorkOK'
    BY <1>1, <1>2, <2>2, <2>3, <2>4 DEF Truth, WorkOK
  <2>7. AnswerOK'
    BY <1>1, <1>2, <2>4 DEF Truth, AnswerOK
  <2>8. QED
    BY <2>5, <2>6, <2>7 DEF Truth
<1>3. QED
  BY <1>2, TruthQuiet, PastStep DEF History, store, request, session, told

\* A view answered as fresh shows the files as they were at one moment while the
\* command ran, although it read them one by one (Service::reconcile).
THEOREM AnswersAreTrue == ASSUME ~Churning PROVE Spec => []AnswerWasTrue
<1>1. ASSUME History, Truth PROVE AnswerWasTrue
  BY <1>1 DEF Truth, AnswerOK, TrueWithin, AnswerWasTrue
<1>2. ASSUME History, Passes, Truth, [Next]_vars PROVE History' /\ Passes' /\ Truth'
  BY <1>2, HistoryStep, PassesStep, TruthStep
<1>3. QED
  BY <1>1, <1>2, InitHistory, InitPasses, InitTruth, PTL DEF Spec

-----------------------------------------------------------------------------
(* Verdicts: what the command decided about its snapshot still holds when    *)
(* the transaction commits.                                                 *)

\* A view's hash covers what its index holds, and its index all it shows.
Indexed(x) ==
    x.view # NoView => /\ x.view.hash.versions = x.versions
                       /\ VersionsOf(x.view.hash.inputs) \subseteq x.versions
IndexedOK == Indexed(work) /\ (db # NoIndex => Indexed(db))
\* The open view is not the one the snapshot would make.
ChangedOK ==
    pc \in {"verify", "guard"} /\ work.view # NoView /\ ~replacing
        => work.view.hash # InputsHash(snap)

Changes == IndexedOK /\ ChangedOK

LEMMA InitChanges == Init => Changes
BY DEF Init, Changes, IndexedOK, Indexed, ChangedOK, EmptyIndex

LEMMA ChangesStep ==
    ASSUME TypeOK, Changes, [Next]_vars
    PROVE  Changes'
<1> USE DEF files, store, request, session, told, Answer
<1>1. CASE Commit
  <2>1. Indexed(work)'
    BY <1>1 DEF Commit, NewView, InputsHash, Indexed, VersionsOf, Good
  <2>2. UNCHANGED <<replacing, snap>> /\ pc' = "mirror" /\ db' = IF replacing THEN db ELSE work'
    BY <1>1 DEF Commit
  <2>3. QED
    BY <2>1, <2>2, SMTT(30) DEF Changes, IndexedOK, ChangedOK, Indexed, VersionsOf, Good
<1>2. CASE StartVerification
  BY <1>2 DEF StartVerification, StartPass, IsCurrent, InputsHash, Changes, IndexedOK, Indexed,
     ChangedOK, VersionsOf, Good
<1>3. ASSUME NEW rebuild, NEW removal, Begin(rebuild, removal)
      PROVE  Changes'
  BY <1>3 DEF Begin, EmptyIndex, Changes, IndexedOK, Indexed, ChangedOK, VersionsOf, Good
<1>4. CASE SelectAndReturn
  BY <1>4 DEF SelectAndReturn, Changes, IndexedOK, Indexed, ChangedOK, VersionsOf, Good
<1>5. CASE Exit
  BY <1>5 DEF Exit, EmptyIndex, Changes, IndexedOK, Indexed, ChangedOK, VersionsOf, Good
<1>6. CASE LoseIndex \/ LoseArchive
  BY <1>6 DEF LoseIndex, LoseArchive, Changes, IndexedOK, Indexed, ChangedOK, VersionsOf, Good,
     InputsHash
<1>7. CASE /\ UNCHANGED <<db, work, replacing, snap>>
           /\ pc' = pc \/ pc' \notin {"verify", "guard"} \/ (pc = "verify" /\ pc' = "guard")
  BY <1>7 DEF Changes, IndexedOK, Indexed, ChangedOK, VersionsOf, Good, InputsHash
<1>8. CASE Working
  BY <1>1, <1>2, <1>4, <1>5, <1>7, <1>8 DEF Working, LoadConfig, ReadSource, ReturnCurrent,
     StartPass, Retry, GiveUp, KeepEvidence, OpenTransaction, MirrorSources, MirrorNote,
     MirrorInventory, Finish
<1>9. CASE Environment
  BY <1>6, <1>7, <1>9 DEF Environment, EditSource, EditConfig, Edited, Churn
<1>10. QED
  BY <1>3, <1>5, <1>7, <1>8, <1>9 DEF Next, Crash, vars

\* Files that did not change are not published again: had the open view shown the
\* same inputs, its hash would have been the snapshot's and the view the answer.
THEOREM PublishesOnlyChanges == ASSUME ~Churning PROVE Spec => NoIdlePublication
<1>1. ASSUME TypeOK, Changes, [Next]_vars
      PROVE  [pc = "guard" /\ pc' = "mirror" /\ ~replacing /\ work.view # NoView
                 => work.view.hash.inputs # snap]_vars
  <2> SUFFICES ASSUME pc = "guard", ~replacing, work.view # NoView,
                      work.view.hash.inputs = snap
               PROVE  FALSE
    OBVIOUS
  <2>1. work.view.hash.versions = work.versions /\ VersionsOf(snap) \subseteq work.versions
    BY <1>1 DEF Changes, IndexedOK, Indexed
  <2>2. work.view.hash = [inputs |-> work.view.hash.inputs,
                          versions |-> work.view.hash.versions]
    BY <1>1 DEF TypeOK, Index, View, Hash
  <2>3. work.view.hash = InputsHash(snap)
    BY <2>1, <2>2 DEF InputsHash
  <2>4. QED
    BY <1>1, <2>3 DEF Changes, ChangedOK
<1>2. ASSUME TypeOK, Changes, [Next]_vars PROVE TypeOK' /\ Changes'
  BY <1>2, TypeStep, ChangesStep
<1>3. QED
  BY <1>1, <1>2, InitType, InitChanges, PTL DEF Spec, NoIdlePublication

\* Where a view has members the ledger knows that there were some, except while
\* the command that made the view is writing the ledger.
Recorded(x) == HasMembers(x.view) => had
HadOK ==
    /\ prev # NoIndex => Recorded(prev)
    /\ archive # NoIndex => Recorded(archive)
    /\ IF pc = "mirror"
       THEN /\ work.view.hash.inputs = snap
            /\ db # NoIndex => Recorded(db) \/ db = work
       ELSE /\ Recorded(work)
            /\ db # NoIndex => Recorded(db)
NotKept == pc = "guard" => ~Keeps

Evidence == HadOK /\ NotKept

LEMMA InitEvidence == Init => Evidence
BY DEF Init, Evidence, HadOK, NotKept, Recorded, HasMembers, EmptyIndex

LEMMA EvidenceStep ==
    ASSUME TypeOK, Evidence, [Next]_vars, ~MirrorCrash
    PROVE  Evidence'
<1> USE DEF files, store, request, session, told, Answer
<1>1. CASE Commit
  BY <1>1 DEF Commit, NewView, InputsHash, Evidence, HadOK, NotKept, Recorded, HasMembers, Good
<1>2. CASE MirrorInventory
  BY <1>2 DEF MirrorInventory, Evidence, HadOK, NotKept, Recorded, HasMembers, Good
<1>3. CASE OpenTransaction
  BY <1>3 DEF OpenTransaction, StartPass, Evidence, HadOK, NotKept, Recorded, HasMembers, Good,
     Keeps, Unavailable, Missing, Paused, Broken, NoteSourceSeen, PreviousView
<1>4. ASSUME NEW rebuild, NEW removal, Begin(rebuild, removal)
      PROVE  Evidence'
  BY <1>4 DEF Begin, EmptyIndex, Evidence, HadOK, NotKept, Recorded, HasMembers, Good
<1>5. CASE SelectAndReturn
  BY <1>5 DEF SelectAndReturn, Evidence, HadOK, NotKept, Recorded, HasMembers, Good
<1>6. CASE Exit /\ pc # "mirror"
  BY <1>6 DEF Exit, EmptyIndex, Evidence, HadOK, NotKept, Recorded, HasMembers, Good
<1>7. CASE LoseIndex \/ LoseArchive
  BY <1>7 DEF LoseIndex, LoseArchive, Evidence, HadOK, NotKept, Recorded, HasMembers, Good
<1>8. CASE MirrorSources \/ \E c \in Notes : MirrorNote(c)
  BY <1>8 DEF MirrorSources, MirrorNote, Evidence, HadOK, NotKept, Recorded, HasMembers, Good
<1>9. CASE /\ UNCHANGED <<db, archive, seen, had, prev, work, snap>>
           /\ pc' = pc \/ (pc # "mirror" /\ pc' \notin {"mirror", "guard"})
  BY <1>9 DEF Evidence, HadOK, NotKept, Recorded, HasMembers, Good, Keeps, Unavailable,
     Missing, Paused, Broken, NoteSourceSeen, PreviousView
<1>10. CASE StartVerification
  BY <1>10 DEF StartVerification, StartPass, Evidence, HadOK, NotKept, Recorded, HasMembers, Good
<1>11. CASE Working
  BY <1>1, <1>2, <1>3, <1>5, <1>6, <1>8, <1>9, <1>10, <1>11 DEF Working, LoadConfig,
     ReadSource, ReturnCurrent, Retry, GiveUp, KeepEvidence, Finish
<1>12. CASE Environment
  BY <1>7, <1>9, <1>12 DEF Environment, EditSource, EditConfig, Edited, Churn
<1>13. QED
  BY <1>4, <1>6, <1>9, <1>11, <1>12 DEF Next, Crash, vars

\* A view with evidence is not replaced by an empty one while the sources that held
\* it cannot be read, provided that no command died between its commit and its
\* ledger rows (the finding of reconcile_loss is about those that do).
THEOREM EvidenceIsKept == ASSUME ~Churning, ~MirrorCrash PROVE Spec => EvidenceKept
<1>1. ASSUME TypeOK, Evidence, [Next]_vars
      PROVE  [pc = "guard" /\ pc' = "mirror" /\ HasMembers(PreviousView) /\ Good(snap) = {}
                 => Missing(snap) \cup Paused(snap) = {}]_vars
  <2> SUFFICES ASSUME pc = "guard", HasMembers(PreviousView), Good(snap) = {}
               PROVE  Missing(snap) \cup Paused(snap) = {}
    OBVIOUS
  <2>1. had
    BY <1>1 DEF Evidence, HadOK, Recorded, PreviousView, HasMembers
  <2>2. ~Keeps
    BY <1>1 DEF Evidence, NotKept
  <2>3. QED
    BY <2>1, <2>2 DEF Keeps, Unavailable
<1>2. ASSUME TypeOK, Evidence, [Next]_vars PROVE TypeOK' /\ Evidence'
  BY <1>2, TypeStep, EvidenceStep
<1>3. QED
  BY <1>1, <1>2, InitType, InitEvidence, PTL DEF Spec, EvidenceKept

-----------------------------------------------------------------------------
(* Disclosure: what a user was shown the ledger has, so that a view made    *)
(* without it says so.                                                     *)

SeenIn(x) == x.view # NoView => Notes \cap Good(x.view.hash.inputs) \subseteq seen
\* Whatever was shown is in the ledger, and so is all that may be shown next,
\* except while the command that made the view is writing the ledger.
SeenOK ==
    /\ shown \subseteq seen
    /\ IF pc = "mirror" THEN db # NoIndex => SeenIn(db) \/ db = work
                        ELSE SeenIn(work) /\ (db # NoIndex => SeenIn(db))

Disclosed(v) ==
    v.status = "current" =>
        \A c \in shown \cap v.hash.inputs.config.sources :
            v.hash.inputs.source[c].kind # "absent"
DisclosedOK ==
    /\ work.view # NoView => Disclosed(work.view)
    /\ db # NoIndex /\ db.view # NoView => Disclosed(db.view)
    /\ pc = "done" /\ answer.kind = "fresh" => Disclosed(answer.view)
\* The open index holds the view that was just made of the snapshot.
MadeOK ==
    pc \in {"mirror", "select"} =>
        /\ work.view.hash.inputs = snap /\ Disclosed(work.view)
        /\ pc = "select" => Notes \cap Good(snap) \subseteq seen
\* A selected index that is not being replaced is the open one.
OpenOK == pc # "idle" /\ ~replacing => db = work

Disclosure == SeenOK /\ DisclosedOK /\ MadeOK /\ OpenOK

LEMMA InitDisclosure == Init => Disclosure
BY DEF Init, Disclosure, SeenOK, SeenIn, DisclosedOK, MadeOK, OpenOK, EmptyIndex, NoAnswer

\* A view that calls itself current misses nothing that was ever shown.
LEMMA NewViewDiscloses ==
    ASSUME TypeOK, shown \subseteq seen, GuardPasses
    PROVE  Disclosed(NewView) /\ NewView.hash.inputs = snap
<1>1. NewView.hash.inputs = snap
  BY DEF NewView, InputsHash
<1>2. ASSUME NewView.status = "current" PROVE Missing(snap) = {}
  BY <1>2 DEF NewView, Incomplete
<1>3. snap.config.sources \subseteq Source
  BY NewViewType
<1>4. ASSUME NEW c \in shown, c \in snap.config.sources, snap.source[c].kind = "absent"
      PROVE  c \in Missing(snap)
  BY <1>3, <1>4 DEF Missing, NoteSourceSeen
<1>5. QED
  BY <1>1, <1>2, <1>4 DEF Disclosed

\* Telling the user about a view that has all of its notes in the ledger.
LEMMA TellDiscloses ==
    ASSUME NEW v, Disclosed(v), NEW p, Tell(p), v.hash.inputs = p
    PROVE  v.status = "current" =>
               \A c \in shown' \cap v.hash.inputs.config.sources :
                   v.hash.inputs.source[c].kind # "absent"
BY DEF Disclosed, Tell, Good

LEMMA DisclosureStep ==
    ASSUME TypeOK, Disclosure, [Next]_vars, ~MirrorCrash
    PROVE  Disclosure'
<1> USE DEF files, store, request, session, told, Answer
<1>1. CASE Commit
  <2>1. /\ work'.view = NewView /\ pc' = "mirror" /\ pc = "guard"
        /\ db' = IF replacing THEN db ELSE work'
        /\ UNCHANGED <<seen, shown, snap, replacing, answer>>
    BY <1>1 DEF Commit
  <2>2. Disclosed(work'.view) /\ work'.view.hash.inputs = snap
    BY <1>1, <2>1, NewViewDiscloses DEF Commit, Disclosure, SeenOK
  <2>3. SeenOK'
    BY <2>1 DEF Disclosure, SeenOK, SeenIn, Good
  <2>4. DisclosedOK' /\ MadeOK' /\ OpenOK'
    BY <2>1, <2>2 DEF Disclosure, DisclosedOK, MadeOK, OpenOK, Disclosed
  <2>5. QED
    BY <2>3, <2>4 DEF Disclosure
<1>2. CASE MirrorInventory
  BY <1>2 DEF MirrorInventory, Disclosure, SeenOK, SeenIn, DisclosedOK, MadeOK, OpenOK,
     Disclosed, Good
<1>3. CASE MirrorSources \/ \E c \in Notes : MirrorNote(c)
  BY <1>3 DEF MirrorSources, MirrorNote, Disclosure, SeenOK, SeenIn, DisclosedOK, MadeOK,
     OpenOK, Disclosed, Good
<1>4. CASE ReturnCurrent
  <2>1. /\ work.view # NoView /\ ~replacing /\ work.view.hash.inputs = rd /\ db = work
        /\ pc = "snapshot" /\ pc' = "done" /\ answer'.view = work.view
        /\ UNCHANGED <<seen, db, work, snap, replacing>> /\ Tell(rd)
    BY <1>4 DEF ReturnCurrent, IsCurrent, InputsHash, Disclosure, OpenOK
  <2>2. Disclosed(work.view)'
    BY <2>1, TellDiscloses DEF Disclosure, DisclosedOK, Disclosed
  <2>3. SeenOK'
    BY <2>1 DEF Disclosure, SeenOK, SeenIn, Tell, Good
  <2>4. DisclosedOK' /\ MadeOK' /\ OpenOK'
    BY <2>1, <2>2 DEF DisclosedOK, MadeOK, OpenOK, Disclosed
  <2>5. QED
    BY <2>3, <2>4 DEF Disclosure
<1>5. CASE SelectAndReturn
  <2>1. /\ work.view.hash.inputs = snap /\ Disclosed(work.view)
        /\ Notes \cap Good(snap) \subseteq seen
        /\ pc = "select" /\ pc' = "done" /\ answer'.view = work.view
        /\ UNCHANGED <<seen, work, snap, replacing>> /\ Tell(snap)
        /\ db' = work
    BY <1>5 DEF SelectAndReturn, Disclosure, MadeOK, OpenOK
  <2>2. Disclosed(work.view)'
    BY <2>1, TellDiscloses DEF Disclosed
  <2>3. SeenOK'
    BY <2>1 DEF Disclosure, SeenOK, SeenIn, Tell, Good
  <2>4. DisclosedOK' /\ MadeOK' /\ OpenOK'
    BY <2>1, <2>2 DEF DisclosedOK, MadeOK, OpenOK, Disclosed
  <2>5. QED
    BY <2>3, <2>4 DEF Disclosure
<1>6. ASSUME NEW rebuild, NEW removal, Begin(rebuild, removal)
      PROVE  Disclosure'
  BY <1>6 DEF Begin, EmptyIndex, Disclosure, SeenOK, SeenIn, DisclosedOK, MadeOK, OpenOK,
     Disclosed, Good
<1>7. CASE Exit /\ pc # "mirror"
  BY <1>7 DEF Exit, EmptyIndex, NoAnswer, Disclosure, SeenOK, SeenIn, DisclosedOK, MadeOK,
     OpenOK, Disclosed, Good
<1>8. CASE LoseIndex \/ LoseArchive
  BY <1>8 DEF LoseIndex, LoseArchive, Disclosure, SeenOK, SeenIn, DisclosedOK, MadeOK, OpenOK,
     Disclosed, Good
<1>9. CASE /\ UNCHANGED <<db, seen, work, replacing, shown>>
           /\ \/ UNCHANGED <<pc, snap, answer>>
              \/ /\ pc \in {"load", "snapshot", "verify", "guard"}
                 /\ \/ pc' \in {"load", "snapshot", "verify", "guard"}
                    \/ pc' = "done" /\ answer'.kind # "fresh"
  BY <1>9 DEF Disclosure, SeenOK, SeenIn, DisclosedOK, MadeOK, OpenOK, Disclosed, Good
<1>10. CASE Working
  BY <1>1, <1>2, <1>3, <1>4, <1>5, <1>7, <1>9, <1>10 DEF Working, LoadConfig, ReadSource,
     StartVerification, StartPass, Retry, GiveUp, KeepEvidence, OpenTransaction, Finish
<1>11. CASE Environment
  BY <1>8, <1>9, <1>11 DEF Environment, EditSource, EditConfig, Edited, Churn
<1>12. QED
  BY <1>6, <1>7, <1>9, <1>10, <1>11 DEF Next, Crash, vars

\* Notes a user was once shown are not silently gone: no answer that calls itself
\* current lacks them while their source is configured, provided that no command
\* died between its commit and its ledger rows.
THEOREM LossIsDisclosed == ASSUME ~Churning, ~MirrorCrash PROVE Spec => []LossDisclosed
<1>1. ASSUME Disclosure PROVE LossDisclosed
  BY <1>1 DEF Disclosure, DisclosedOK, Disclosed, LossDisclosed
<1>2. ASSUME TypeOK, Disclosure, [Next]_vars PROVE TypeOK' /\ Disclosure'
  BY <1>2, TypeStep, DisclosureStep
<1>3. QED
  BY <1>1, <1>2, InitType, InitDisclosure, PTL DEF Spec

-----------------------------------------------------------------------------
(* Consent: the configuration a command answered for is the one the ledger  *)
(* and the index remember, until somebody edits it.                        *)

Attempting == {"load", "snapshot", "verify", "guard"}
StampOf(x) == x.view.hash.inputs.config.stamp

\* The accepted configuration is an old one, and when it still stands it stood
\* when the command began.
AcceptedOK ==
    /\ accepted.stamp <= now
    /\ pc \in Attempting /\ cfg = accepted => past[began].config = cfg
\* An index remembers the sources its view was made of.
SourcesOK ==
    /\ work.view # NoView => work.sources = work.view.hash.inputs.config.sources
    /\ db # NoIndex /\ db.view # NoView => db.sources = db.view.hash.inputs.config.sources
    /\ ~replacing /\ pc # "idle" => db = work
\* The selected view is older than what may replace it.
SelectedOK ==
    db # NoIndex /\ db.view # NoView =>
        /\ StampOf(db) <= cfg.stamp
        /\ pc \in Attempting => StampOf(db) <= past[began].config.stamp
        /\ pc = "mirror" => StampOf(db) <= snap.config.stamp
\* What was just published is what the files said at some moment.
PublishedOK ==
    pc \in {"mirror", "select"} =>
        /\ work.view.hash.inputs = snap /\ work.sources = snap.config.sources
        /\ \E t \in 0..now : past[t].config = snap.config
        /\ pc = "select" => known = snap.config.sources
\* The ledger's sources are those of a configuration as new as any view's.
KnownSince(x) ==
    x.view # NoView => \E t \in 0..now : /\ known = past[t].config.sources
                                         /\ StampOf(x) <= past[t].config.stamp
KnownOK == pc # "mirror" => KnownSince(work) /\ (db # NoIndex => KnownSince(db))
AgreedOK ==
    cfg = accepted => /\ known \subseteq cfg.sources
                      /\ work.sources \subseteq cfg.sources
                      /\ db # NoIndex => db.sources \subseteq cfg.sources

Consent == AcceptedOK /\ SourcesOK /\ SelectedOK /\ PublishedOK /\ KnownOK /\ AgreedOK

LEMMA InitConsent == Init => Consent
BY DEF Init, Consent, AcceptedOK, SourcesOK, SelectedOK, PublishedOK, KnownOK, KnownSince,
   AgreedOK, EmptyIndex, NoPass, Attempting

LEMMA StampOrder ==
    ASSUME History, NEW i \in 0..now, NEW j \in 0..now, i <= j
    PROVE  /\ past[i].config.stamp \in Nat /\ past[j].config.stamp \in Nat
           /\ past[i].config.stamp <= past[j].config.stamp
           /\ past[i].config.stamp = past[j].config.stamp => past[i].config = past[j].config
BY DEF History, TypeOK, Files, Config, StampsOK

\* The configuration a command commits for was there when the transaction opened.
LEMMA CommitConfig ==
    ASSUME History, Passes, Commit
    PROVE  /\ txn \in 0..now /\ began <= txn /\ past[txn].config = snap.config
           /\ past[now].config = cfg /\ now \in 0..now /\ began \in 0..now
BY DEF History, TypeOK, PastOK, Passes, GuardOK, Commit, GuardPasses, PassAgrees

\* The command commits: its configuration is as new as the selected view's, and
\* the accepted one if that still stands.
LEMMA ConsentCommits ==
    ASSUME History, Passes, Consent, Commit
    PROVE  Consent'
<1> USE DEF files, request
<1>1. /\ pc = "guard" /\ pc' = "mirror" /\ db' = IF replacing THEN db ELSE work'
      /\ work'.view.hash.inputs = snap /\ work'.sources = snap.config.sources
      /\ UNCHANGED <<cfg, now, past, known, replacing, began, snap, accepted>>
  BY DEF Commit, NewView, InputsHash, told
<1>2. /\ txn \in 0..now /\ began <= txn /\ txn <= now /\ past[txn].config = snap.config
      /\ past[now].config = cfg /\ now \in 0..now /\ began \in 0..now
  <2>1. now \in Nat
    BY DEF History, TypeOK
  <2>2. QED
    BY <2>1, CommitConfig
<1>3. /\ past[began].config.stamp <= snap.config.stamp /\ snap.config.stamp <= cfg.stamp
      /\ past[began].config.stamp \in Nat /\ snap.config.stamp \in Nat
  BY <1>2, StampOrder
<1>4. cfg = accepted => snap.config = cfg
  <2> SUFFICES ASSUME cfg = accepted PROVE snap.config = cfg
    OBVIOUS
  <2>1. past[began].config = past[now].config
    BY <1>1, <1>2 DEF Consent, AcceptedOK, Attempting
  <2>2. QED
    BY <1>2, <2>1, ConfigBetween
<1>5. db # NoIndex /\ db.view # NoView => StampOf(db) <= snap.config.stamp
  <2> SUFFICES ASSUME db # NoIndex, db.view # NoView PROVE StampOf(db) <= snap.config.stamp
    OBVIOUS
  <2>1. StampOf(db) \in Nat /\ StampOf(db) <= past[began].config.stamp
    BY <1>1 DEF Consent, SelectedOK, Attempting, History, TypeOK, Index, View, Hash, Files,
       Config, StampOf
  <2>2. QED
    BY <1>3, <2>1
<1>6. AcceptedOK' /\ SourcesOK' /\ KnownOK'
  BY <1>1 DEF Consent, AcceptedOK, SourcesOK, KnownOK, Attempting
<1>7. SelectedOK'
  BY <1>1, <1>3, <1>5 DEF Consent, SelectedOK, StampOf, Attempting
<1>8. PublishedOK' /\ AgreedOK'
  BY <1>1, <1>2, <1>4 DEF Consent, PublishedOK, AgreedOK
<1>9. QED
  BY <1>6, <1>7, <1>8 DEF Consent

\* The one pass found the open view current: nobody published a newer
\* configuration, so the ledger's sources are its sources.
LEMMA ConsentReturns ==
    ASSUME History, Passes, Consent, ReturnCurrent
    PROVE  Consent'
<1> USE DEF files, request, session, store
<1>1. /\ pc = "snapshot" /\ pc' = "done" /\ accepted' = rd.config
      /\ UNCHANGED <<cfg, now, past, db, known, replacing, began, work, snap>>
      /\ work.view # NoView /\ work.view.hash.inputs = rd /\ ~replacing
  BY DEF ReturnCurrent, Answer, Tell, IsCurrent, InputsHash
<1>2. /\ db = work /\ work.sources = rd.config.sources /\ KnownSince(work)
  BY <1>1 DEF Consent, SourcesOK, KnownOK
<1>3. PICK k \in began..now : past[k].config = rd.config
  BY <1>1 DEF Passes, SnapshotOK, ConfigOver
<1>4. /\ k \in 0..now /\ k <= now /\ now \in 0..now /\ past[now].config = cfg /\ now \in Nat
  BY <1>3 DEF History, TypeOK, PastOK
<1>5. accepted'.stamp <= now
  <2>1. past[k].config.stamp <= k /\ past[k].config.stamp \in Nat
    BY <1>4, StampOrder DEF History, StampsOK
  <2>2. QED
    BY <1>1, <1>3, <1>4, <2>1
<1>6. cfg = rd.config => known \subseteq cfg.sources
  <2> SUFFICES ASSUME cfg = rd.config PROVE known = cfg.sources
    OBVIOUS
  <2>1. PICK t \in 0..now : /\ known = past[t].config.sources
                            /\ cfg.stamp <= past[t].config.stamp
    BY <1>1, <1>2 DEF KnownSince, StampOf
  <2>2. t <= now
    BY <1>4
  <2>3. past[t].config.stamp <= cfg.stamp /\ past[t].config.stamp \in Nat /\ cfg.stamp \in Nat
    BY <1>4, <2>2, StampOrder
  <2>4. past[t].config.stamp = past[now].config.stamp
    BY <1>4, <2>1, <2>3
  <2>5. past[t].config = past[now].config
    BY <1>4, <2>2, <2>4, StampOrder
  <2>6. QED
    BY <1>4, <2>1, <2>5
<1>7. AcceptedOK' /\ AgreedOK'
  BY <1>1, <1>2, <1>5, <1>6 DEF AcceptedOK, AgreedOK, Attempting
<1>8. SourcesOK' /\ SelectedOK' /\ PublishedOK' /\ KnownOK'
  BY <1>1 DEF Consent, SourcesOK, SelectedOK, PublishedOK, KnownOK, KnownSince, StampOf,
     Attempting
<1>9. QED
  BY <1>7, <1>8 DEF Consent

\* A published view is selected and answered: ledger and index remember its sources.
LEMMA ConsentSelects ==
    ASSUME History, Consent, SelectAndReturn
    PROVE  Consent'
<1> USE DEF files, request, session
<1>1. /\ pc = "select" /\ pc' = "done" /\ accepted' = snap.config /\ db' = work
      /\ UNCHANGED <<cfg, now, past, known, replacing, began, work, snap>>
      /\ work.view.hash.inputs = snap /\ work.sources = snap.config.sources
      /\ known = snap.config.sources
  BY DEF SelectAndReturn, Answer, Tell, Consent, PublishedOK, SourcesOK
<1>2. PICK t \in 0..now : past[t].config = snap.config
  BY <1>1 DEF Consent, PublishedOK
<1>3. t \in 0..now /\ t <= now /\ now \in 0..now /\ past[now].config = cfg /\ now \in Nat
  BY <1>2 DEF History, TypeOK, PastOK
<1>4. snap.config.stamp <= cfg.stamp /\ snap.config.stamp \in Nat /\ snap.config.stamp <= now
  <2>1. past[t].config.stamp <= past[now].config.stamp /\ past[t].config.stamp \in Nat
    BY <1>3, StampOrder
  <2>2. past[t].config.stamp <= t
    BY <1>3 DEF History, StampsOK
  <2>3. QED
    BY <1>2, <1>3, <2>1, <2>2
<1>5. AcceptedOK' /\ SourcesOK' /\ AgreedOK' /\ PublishedOK'
  BY <1>1, <1>4 DEF Consent, AcceptedOK, SourcesOK, AgreedOK, PublishedOK, Attempting
<1>6. SelectedOK'
  BY <1>1, <1>4 DEF SelectedOK, StampOf, Attempting
<1>7. KnownOK'
  BY <1>1, <1>2, <1>4 DEF KnownOK, KnownSince, StampOf
<1>8. QED
  BY <1>5, <1>6, <1>7 DEF Consent

\* Somebody edits the files: a new configuration is unlike the accepted one.
LEMMA ConsentEdited ==
    ASSUME History, Consent, now' = now + 1, \A t \in 0..now : past'[t] = past[t],
           cfg' = cfg \/ cfg'.stamp = now + 1, UNCHANGED <<store, pc, request, session, told>>
    PROVE  Consent'
<1>1. /\ now \in Nat /\ began \in 0..now /\ past[now].config = cfg /\ now \in 0..now
      /\ accepted.stamp \in Nat
      /\ UNCHANGED <<db, known, pc, replacing, began, work, snap, accepted>>
  BY DEF History, TypeOK, PastOK, Config, store, request, session, told
<1>2. cfg.stamp <= cfg'.stamp /\ cfg.stamp \in Nat /\ cfg'.stamp \in Nat
  <2>1. cfg.stamp <= now /\ cfg.stamp \in Nat
    BY <1>1, StampOrder DEF History, StampsOK
  <2>2. QED
    BY <1>1, <2>1
<1>3. cfg' = accepted => cfg' = cfg
  BY <1>1 DEF Consent, AcceptedOK
<1>4. AcceptedOK' /\ SourcesOK' /\ AgreedOK'
  BY <1>1, <1>3 DEF Consent, AcceptedOK, SourcesOK, AgreedOK
<1>5. SelectedOK'
  <2> SUFFICES ASSUME db # NoIndex, db.view # NoView PROVE SelectedOK'
    BY <1>1 DEF SelectedOK
  <2>1. StampOf(db) \in Nat
    BY DEF History, TypeOK, Index, View, Hash, Files, Config, StampOf
  <2>2. QED
    BY <1>1, <1>2, <2>1 DEF Consent, SelectedOK, StampOf
<1>6. PublishedOK'
  BY <1>1 DEF Consent, PublishedOK
<1>7. ASSUME NEW x, x' = x, KnownSince(x) PROVE KnownSince(x)'
  <2> SUFFICES ASSUME x.view # NoView PROVE KnownSince(x)'
    BY <1>7 DEF KnownSince
  <2>1. PICK t \in 0..now : known = past[t].config.sources /\ StampOf(x) <= past[t].config.stamp
    BY <1>7 DEF KnownSince
  <2>2. t \in 0..now' /\ past'[t] = past[t]
    BY <1>1, <2>1
  <2>3. QED
    BY <1>1, <1>7, <2>1, <2>2 DEF KnownSince, StampOf
<1>8. KnownOK'
  BY <1>1, <1>7 DEF Consent, KnownOK
<1>9. QED
  BY <1>4, <1>5, <1>6, <1>8 DEF Consent

LEMMA ConsentStep ==
    ASSUME History, Passes, Consent, [Next]_vars, ~Churning, ~MirrorCrash
    PROVE  Consent'
<1> USE DEF files, store, request, session, told, Answer
<1>1. past[now].config = cfg /\ now \in Nat /\ began \in 0..now
  BY DEF History, TypeOK, PastOK
<1>2. CASE MirrorSources
  BY <1>2 DEF MirrorSources, MirroredSources, Consent, AcceptedOK, SourcesOK, SelectedOK,
     PublishedOK, KnownOK, AgreedOK, StampOf, Attempting
<1>3. CASE MirrorInventory
  <2>1. /\ pc = "mirror" /\ pc' = "select" /\ known = snap.config.sources
        /\ UNCHANGED <<cfg, now, past, db, known, replacing, began, work, snap, accepted>>
    BY <1>3 DEF MirrorInventory, MirroredSources
  <2>2. KnownSince(work) /\ (db # NoIndex => KnownSince(db))
    <3>1. PICK t \in 0..now : past[t].config = snap.config
      BY <2>1 DEF Consent, PublishedOK
    <3>2. StampOf(work) <= past[t].config.stamp
      BY <2>1, <3>1, StampOrder DEF Consent, PublishedOK, StampOf
    <3>3. QED
      BY <2>1, <3>1, <3>2 DEF Consent, SelectedOK, KnownSince
  <2>3. QED
    BY <2>1, <2>2 DEF Consent, AcceptedOK, SourcesOK, SelectedOK, PublishedOK, KnownOK,
       KnownSince, AgreedOK, StampOf, Attempting
<1>4. ASSUME NEW rebuild, NEW removal, Begin(rebuild, removal)
      PROVE  Consent'
  <2>1. /\ pc = "idle" /\ pc' = "load" /\ began' = now
        /\ UNCHANGED <<cfg, now, past, db, known, snap, accepted>>
        /\ \/ db # NoIndex /\ work' = db /\ ~replacing'
           \/ work' = EmptyIndex /\ replacing'
    BY <1>4 DEF Begin
  <2>2. AcceptedOK' /\ SelectedOK' /\ PublishedOK'
    BY <1>1, <2>1 DEF Consent, AcceptedOK, SelectedOK, PublishedOK, StampOf
  <2>3. KnownOK'
    BY <2>1 DEF Consent, KnownOK, KnownSince, StampOf, EmptyIndex
  <2>4. AgreedOK'
    BY <2>1 DEF Consent, AgreedOK, EmptyIndex
  <2>5. SourcesOK'
    BY <2>1 DEF Consent, SourcesOK, EmptyIndex
  <2>6. QED
    BY <2>2, <2>3, <2>4, <2>5 DEF Consent
<1>5. CASE Exit /\ pc # "mirror"
  BY <1>5 DEF Exit, EmptyIndex, Consent, AcceptedOK, SourcesOK, SelectedOK, PublishedOK,
     KnownOK, KnownSince, AgreedOK, StampOf, Attempting
<1>6. CASE LoseIndex \/ LoseArchive
  BY <1>6 DEF LoseIndex, LoseArchive, Consent, AcceptedOK, SourcesOK, SelectedOK, PublishedOK,
     KnownOK, KnownSince, AgreedOK, StampOf, Attempting
<1>7. CASE /\ UNCHANGED <<cfg, now, past, db, known, replacing, began, work, accepted>>
           /\ \/ UNCHANGED <<pc, snap>>
              \/ pc \in Attempting /\ pc' \in Attempting \cup {"done"}
  BY <1>7 DEF Consent, AcceptedOK, SourcesOK, SelectedOK, PublishedOK, KnownOK, KnownSince,
     AgreedOK, StampOf, Attempting
<1>8. CASE Working
  <2>1. CASE LoadConfig \/ ReadSource \/ StartVerification \/ Retry \/ GiveUp \/ KeepEvidence
             \/ OpenTransaction \/ \E c \in Notes : MirrorNote(c)
    BY <1>7, <2>1 DEF LoadConfig, ReadSource, StartVerification, StartPass, Retry, GiveUp,
       KeepEvidence, OpenTransaction, MirrorNote, Attempting
  <2>2. QED
    BY <1>2, <1>3, <1>5, <1>8, <2>1, ConsentCommits, ConsentReturns, ConsentSelects
       DEF Working, Finish
<1>9. CASE Environment
  <2>1. CASE UNCHANGED <<cfg, src, now, past>>
    BY <1>6, <1>7, <1>9, <2>1 DEF Environment, EditSource, EditConfig, Edited, Churn
  <2>2. QED
    BY <2>1, PastStep, ConsentEdited DEF History
<1>10. QED
  BY <1>4, <1>5, <1>7, <1>8, <1>9 DEF Next, Crash, vars

\* A command that answered has accepted its configuration: while nobody edits it no
\* later command asks for consent to a removal (Service::load_attempt), provided that
\* no command died between its commit and its ledger rows.
THEOREM RemovalIsSettled ==
    ASSUME ~Churning, ~MirrorCrash PROVE Spec => RemovalStaysAccepted
<1>1. ASSUME Consent, [Next]_vars
      PROVE  [pc = "load" /\ cfg = accepted => pc' # "done"]_vars
  <2> SUFFICES ASSUME pc = "load", cfg = accepted, pc' = "done" PROVE FALSE
    OBVIOUS
  <2>1. RemovedSources(cfg) = {}
    BY <1>1 DEF Consent, AgreedOK, RemovedSources
  <2>2. QED
    BY <1>1, <2>1 DEF Next, Begin, Crash, Exit, vars, Working, LoadConfig, ReadSource,
       ReturnCurrent, StartVerification, Retry, GiveUp, KeepEvidence, OpenTransaction, Commit,
       MirrorSources, MirrorNote, MirrorInventory, SelectAndReturn, Finish, Answer,
       Environment, EditSource, EditConfig, Edited, Churn, LoseIndex, LoseArchive
<1>2. ASSUME History, Passes, Consent, [Next]_vars PROVE History' /\ Passes' /\ Consent'
  BY <1>2, HistoryStep, PassesStep, ConsentStep
<1>3. QED
  BY <1>1, <1>2, InitHistory, InitPasses, InitConsent, PTL DEF Spec, RemovalStaysAccepted
=============================================================================
