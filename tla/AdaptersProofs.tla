--------------------------- MODULE AdaptersProofs ---------------------------
(***************************************************************************)
(* Proofs about the adapters.  Module Capture: a scan that resumes after a *)
(* remembered prefix captures what a scan from the start does, appending   *)
(* takes nothing away, and published progress is held.  Module OpenCode:   *)
(* an answer is what the database held at some moment of the command, as   *)
(* long as no part is malformed.                                           *)
(*                                                                         *)
(* A scan is a recursive function over the lines of a file.  The proofs    *)
(* describe what it knows after a line without recursion (Body, Shape),    *)
(* show by induction that this is what the recursion computes, and state   *)
(* what a manifest holds apart from the scope, the rules and the revision  *)
(* of the time it was made at (Remembers), which is what stays true of it. *)
(***************************************************************************)
EXTENDS Adapters, SequenceTheorems, Induction

----------------------------------------------------------------------------
(* The recursion of a scan *)

LEMMA ReadingsRecursion ==
    ASSUME NEW file, NEW c, file.lines \in Seq(Line)
    PROVE  LET m == c.cursors[file.path].manifest
               after == Readings(file, c)
           IN \A k \in 0 .. Len(file.lines) :
                 after[k] = IF CanResume(file, c) /\ k = Len(m.prefix) THEN Resumed(file, m)
                            ELSE IF k = 0 THEN FromStart
                            ELSE Advance(file, after[k - 1], k)
<1> DEFINE m == c.cursors[file.path].manifest
           resumes == CanResume(file, c)
           n == Len(file.lines)
           Step(g, k) == IF resumes /\ k = Len(m.prefix) THEN Resumed(file, m)
                         ELSE IF k = 0 THEN FromStart
                         ELSE Advance(file, g[k - 1], k)
           T == {j \in 0 .. n : \E g : g = [k \in 0 .. j |-> Step(g, k)]}
           after[k \in 0 .. n] == IF resumes /\ k = Len(m.prefix) THEN Resumed(file, m)
                                  ELSE IF k = 0 THEN FromStart
                                  ELSE Advance(file, after[k - 1], k)
<1>0. n \in Nat
  OBVIOUS
<1>1. 0 \in T
  <2> DEFINE g == [k \in 0 .. 0 |-> IF resumes /\ k = Len(m.prefix) THEN Resumed(file, m) ELSE FromStart]
  <2>1. g = [k \in 0 .. 0 |-> Step(g, k)]
    OBVIOUS
  <2>2. 0 \in 0 .. n
    BY <1>0
  <2> HIDE DEF g, Step, n
  <2> QED BY <2>1, <2>2
<1>2. ASSUME NEW j \in 0 .. n - 1, j \in T PROVE j + 1 \in T
  <2>1. PICK g : g = [k \in 0 .. j |-> Step(g, k)]
    BY <1>2
  <2> DEFINE h == [k \in 0 .. j + 1 |-> IF k = j + 1 THEN Step(g, k) ELSE g[k]]
  <2>2. ASSUME NEW k \in 0 .. j + 1 PROVE h[k] = Step(h, k)
    <3>1. k # 0 => h[k - 1] = g[k - 1]
      BY <1>0
    <3>2. h[k] = Step(g, k)
      BY <1>0, <2>1
    <3> HIDE DEF h
    <3> QED BY <3>1, <3>2
  <2>3. h = [k \in 0 .. j + 1 |-> Step(h, k)]
    BY <2>2
  <2>4. j + 1 \in 0 .. n
    BY <1>0
  <2> HIDE DEF h, Step
  <2> QED BY <2>3, <2>4
<1>3. n \in T
  <2> HIDE DEF T, n
  <2>1. 0 .. n \subseteq T
    BY <1>0, <1>1, <1>2, ReachesAll
  <2> QED BY <1>0, <2>1
<1>4. \E g : g = [k \in 0 .. n |-> Step(g, k)]
  BY <1>3
<1>5. after = [k \in 0 .. n |-> Step(after, k)]
  <2> HIDE DEF n, m, resumes
  <2> QED BY <1>4
<1>6. Readings(file, c) = after
  BY DEF Readings
<1> HIDE DEF after
<1> QED BY <1>5, <1>6

----------------------------------------------------------------------------
(* What a scan knows after line k of a file with lines L and its header at h *)

HeaderAt(L, h) ==
    /\ h \in 1 .. Len(L)
    /\ L[h].t = "header"
    /\ \A j \in 1 .. h - 1 : L[j].t = "title" /\ kind = "omp"

\* The number that the number of the line after k is compared with.
NumberAt(L, h, k) == IF kind = "codex" /\ h < k THEN L[k].id ELSE HeaderOrdinal(L[h])

IdsIn(L, h, k) == {L[j].id : j \in h + 1 .. k}

Usable(L, h, j) ==
    /\ Readable(L[j])
    /\ KnownEntry([ordinal |-> NumberAt(L, h, j - 1)], L[j])
    /\ L[j].id \notin IdsIn(L, h, j - 1)

Taken(L, h, k) == \A j \in h + 1 .. k : Usable(L, h, j)

InScope(L, h) == scope[L[h].cwd] \in Worktrees

EntryAt(L, h, j) == Entry(Session(L[h]), L[j], j)

ItemsIn(path, L, h, k) ==
    {Captured(path, Session(L[h]), EntryAt(L, h, j).version, j) :
        j \in {j \in h + 1 .. k : EntryAt(L, h, j).state = "retained"}}

Body(file, h, k) ==
    LET L == file.lines IN
    [phase |-> "body", session |-> Session(L[h]), headerOrdinal |-> HeaderOrdinal(L[h]),
     ordinal |-> NumberAt(L, h, k), ids |-> IdsIn(L, h, k),
     items |-> ItemsIn(file.path, L, h, k), entries |-> [i \in 1 .. k - h |-> EntryAt(L, h, h + i)],
     offset |-> k, error |-> None]

\* The header ends the head of a scan.
LEMMA BodyStarts ==
    ASSUME NEW file, NEW h \in Nat \ {0}, file.lines[h].t = "header", InScope(file.lines, h)
    PROVE  ReadHeader(FromStart, file.lines[h], h) = Body(file, h, h)
<1> DEFINE L == file.lines
<1>1. ReadHeader(FromStart, L[h], h) =
        [FromStart EXCEPT !.phase = "body", !.session = Session(L[h]), !.offset = h,
                          !.headerOrdinal = HeaderOrdinal(L[h]), !.ordinal = HeaderOrdinal(L[h])]
  BY DEF ReadHeader, FollowHeader, InScope, Worktrees
<1>2. IdsIn(L, h, h) = {}
  BY DEF IdsIn
<1>3. ItemsIn(file.path, L, h, h) = {}
  BY DEF ItemsIn
<1>4. [i \in 1 .. h - h |-> EntryAt(L, h, h + i)] = << >>
  OBVIOUS
<1>5. NumberAt(L, h, h) = HeaderOrdinal(L[h])
  BY DEF NumberAt
<1> QED BY <1>1, <1>2, <1>3, <1>4, <1>5 DEF Body, FromStart

\* A usable line carries the body of a scan on.
LEMMA BodyGrows ==
    ASSUME NEW file, file.lines \in Seq(Line),
           NEW h \in Nat \ {0}, NEW k \in h + 1 .. Len(file.lines)
    PROVE  ReadEntry(file, Body(file, h, k - 1), file.lines[k], k) =
               IF KnownEntry([ordinal |-> NumberAt(file.lines, h, k - 1)], file.lines[k])
                  /\ file.lines[k].id \notin IdsIn(file.lines, h, k - 1)
               THEN Body(file, h, k)
               ELSE Stop(Body(file, h, k - 1), "capture_schema")
<1> DEFINE L == file.lines
           s == Body(file, h, k - 1)
           entry == EntryAt(L, h, k)
           item == Captured(file.path, Session(L[h]), entry.version, k)
<1>0. k \in Nat /\ h < k
  OBVIOUS
<1>1. KnownEntry(s, L[k]) <=> KnownEntry([ordinal |-> NumberAt(L, h, k - 1)], L[k])
  BY DEF KnownEntry, Body
<1>2. /\ s.ids = IdsIn(L, h, k - 1)
      /\ s.session = Session(L[h])
      /\ s.items = ItemsIn(file.path, L, h, k - 1)
      /\ s.entries = [i \in 1 .. k - 1 - h |-> EntryAt(L, h, h + i)]
      /\ s.ordinal = NumberAt(L, h, k - 1)
  BY DEF Body
<1>3. IdsIn(L, h, k - 1) \cup {L[k].id} = IdsIn(L, h, k)
  <2>1. h + 1 .. k = (h + 1 .. k - 1) \cup {k}
    BY <1>0
  <2> QED BY <2>1 DEF IdsIn
<1>4. (IF entry.state = "retained" THEN s.items \cup {item} ELSE s.items)
          = ItemsIn(file.path, L, h, k)
  <2>1. h + 1 .. k = (h + 1 .. k - 1) \cup {k}
    BY <1>0
  <2> QED BY <1>2, <2>1 DEF ItemsIn
<1>5. Append(s.entries, entry) = [i \in 1 .. k - h |-> EntryAt(L, h, h + i)]
  <2> DEFINE S == {EntryAt(L, h, j) : j \in h + 1 .. k}
             before == [i \in 1 .. k - 1 - h |-> EntryAt(L, h, h + i)]
             now == [i \in 1 .. k - h |-> EntryAt(L, h, h + i)]
  <2>1. k - 1 - h \in Nat /\ k - h \in Nat /\ k - h = (k - 1 - h) + 1
    BY <1>0
  <2>2. before \in [1 .. k - 1 - h -> S] /\ now \in [1 .. k - h -> S] /\ entry \in S
    BY <1>0
  <2>3. before \in Seq(S) /\ Len(before) = k - 1 - h
    BY <2>1, <2>2, FunctionIsSeq
  <2>4. now \in Seq(S) /\ Len(now) = k - h
    BY <2>1, <2>2, FunctionIsSeq
  <2>5. \A i \in 1 .. k - 1 - h : before[i] = now[i]
    BY <2>1
  <2>6. now[k - h] = entry
    BY <1>0
  <2> HIDE DEF S, before, now, entry
  <2>7. /\ Append(before, entry) \in Seq(S)
        /\ Len(Append(before, entry)) = k - h
        /\ \A i \in 1 .. k - 1 - h : Append(before, entry)[i] = before[i]
        /\ Append(before, entry)[k - h] = entry
    BY <2>1, <2>2, <2>3, AppendProperties
  <2>8. \A i \in 1 .. k - h : Append(before, entry)[i] = now[i]
    BY <2>1, <2>5, <2>6, <2>7
  <2>9. Append(before, entry) = now
    BY <2>4, <2>7, <2>8, SeqEqual
  <2> QED BY <2>9, <1>2 DEF before, now
<1>6. (IF kind = "codex" THEN L[k].id ELSE s.ordinal) = NumberAt(L, h, k)
  BY <1>0, <1>2 DEF NumberAt
<1>7. entry = Entry(s.session, L[k], k)
  BY <1>2 DEF EntryAt
<1>8. [s EXCEPT !.ids = @ \cup {L[k].id},
                !.ordinal = IF kind = "codex" THEN L[k].id ELSE @,
                !.items = IF entry.state = "retained" THEN @ \cup {item} ELSE @,
                !.entries = Append(@, entry),
                !.offset = k] = Body(file, h, k)
  <2>1. [s EXCEPT !.ids = IdsIn(L, h, k), !.ordinal = NumberAt(L, h, k),
                  !.items = ItemsIn(file.path, L, h, k),
                  !.entries = [i \in 1 .. k - h |-> EntryAt(L, h, h + i)],
                  !.offset = k] = Body(file, h, k)
    <3> DEFINE t == Body(file, h, k)
               Now(n) == IF n = "offset" THEN k ELSE IF n = "entries" THEN t.entries
                         ELSE IF n = "items" THEN t.items ELSE IF n = "ordinal" THEN t.ordinal
                         ELSE IF n = "ids" THEN t.ids ELSE s[n]
    <3>1. /\ t.ids = IdsIn(L, h, k) /\ t.ordinal = NumberAt(L, h, k)
          /\ t.items = ItemsIn(file.path, L, h, k)
          /\ t.entries = [i \in 1 .. k - h |-> EntryAt(L, h, h + i)] /\ t.offset = k
      BY DEF Body
    <3>2. /\ DOMAIN t = {"phase", "session", "headerOrdinal", "ordinal", "ids", "items",
                          "entries", "offset", "error"}
          /\ DOMAIN s = DOMAIN t /\ t = [n \in DOMAIN t |-> t[n]]
          /\ t.phase = s.phase /\ t.session = s.session
          /\ t.headerOrdinal = s.headerOrdinal /\ t.error = s.error /\ t.offset = k
      BY DEF Body
    <3> HIDE DEF s, t
    <3>3. \A n \in DOMAIN t : t[n] = Now(n)
      BY <3>2
    <3>4. [s EXCEPT !.ids = t.ids, !.ordinal = t.ordinal, !.items = t.items,
                    !.entries = t.entries, !.offset = k] = [n \in DOMAIN s |-> Now(n)]
      BY Zenon
    <3>5. [s EXCEPT !.ids = t.ids, !.ordinal = t.ordinal, !.items = t.items,
                    !.entries = t.entries, !.offset = k] = t
      BY <3>2, <3>3, <3>4
    <3> QED BY <3>1, <3>5 DEF t
  <2> HIDE DEF s, entry, item
  <2> QED BY <1>2, <1>3, <1>4, <1>5, <1>6, <2>1
<1> QED BY <1>1, <1>2, <1>7, <1>8 DEF ReadEntry

----------------------------------------------------------------------------
(* A scan from the start *)

ReadFromStart(file, R) ==
    /\ R[0] = FromStart
    /\ \A k \in 1 .. Len(file.lines) : R[k] = Advance(file, R[k - 1], k)

Opens(L, h) == HeaderAt(L, h) /\ InScope(L, h)

ScopeOK == scope \in [Cwds -> Worktrees \cup {"other", "unresolved"}]

Reasons == {"scope_unresolved", "capture_schema", "incomplete_tail"}

\* Where a scan can be after line k.
Shape(file, k, s) ==
    LET L == file.lines IN
    \/ s = FromStart /\ \A j \in 1 .. k : L[j].t = "title" /\ kind = "omp"
    \/ s = [FromStart EXCEPT !.phase = "unrelated"]
    \/ \E r \in Reasons : s = Stop(FromStart, r)
    \/ \E h \in 1 .. k : Opens(L, h) /\ Taken(L, h, k) /\ s = Body(file, h, k)
    \/ \E h, j \in 1 .. k, r \in Reasons :
          h <= j /\ Opens(L, h) /\ Taken(L, h, j) /\ s = Stop(Body(file, h, j), r)

LEMMA AdvanceBody ==
    ASSUME NEW file, file.lines \in Seq(Line),
           NEW h \in Nat \ {0}, NEW k \in h + 1 .. Len(file.lines)
    PROVE  \/ Usable(file.lines, h, k) /\ Advance(file, Body(file, h, k - 1), k) = Body(file, h, k)
           \/ \E r \in Reasons :
                 Advance(file, Body(file, h, k - 1), k) = Stop(Body(file, h, k - 1), r)
                 /\ ~Usable(file.lines, h, k)
<1>1. Body(file, h, k - 1).phase = "body"
  BY DEF Body
<1>2. CASE Readable(file.lines[k])
  <2>1. Advance(file, Body(file, h, k - 1), k)
            = ReadEntry(file, Body(file, h, k - 1), file.lines[k], k)
    BY <1>1, <1>2 DEF Advance
  <2> QED BY <1>2, <2>1, BodyGrows DEF Usable, Reasons
<1>3. CASE ~Readable(file.lines[k])
  BY <1>1, <1>3 DEF Advance, Reasons, Usable
<1> QED BY <1>2, <1>3

LEMMA AdvanceHead ==
    ASSUME NEW file, NEW k \in 1 .. Len(file.lines), file.lines \in Seq(Line), ScopeOK,
           \A j \in 1 .. k - 1 : file.lines[j].t = "title" /\ kind = "omp"
    PROVE  LET L == file.lines
               s == Advance(file, FromStart, k)
           IN \/ s = FromStart /\ L[k].t = "title" /\ kind = "omp"
              \/ s = [FromStart EXCEPT !.phase = "unrelated"]
              \/ \E r \in Reasons : s = Stop(FromStart, r)
              \/ Opens(L, k) /\ s = Body(file, k, k)
<1> DEFINE L == file.lines
           s == Advance(file, FromStart, k)
<1>1. CASE ~Readable(L[k])
  BY <1>1 DEF Advance, FromStart, Reasons
<1>2. CASE Readable(L[k])
  <2>1. s = ReadHeader(FromStart, L[k], k)
    BY <1>2 DEF Advance, FromStart
  <2>2. CASE L[k].t = "header"
    <3>1. s = FollowHeader(FromStart, L[k], k)
      BY <2>1, <2>2 DEF ReadHeader
    <3>2. scope[L[k].cwd] \in Worktrees \cup {"other", "unresolved"}
      <4>1. L[k] \in Line
        OBVIOUS
      <4> QED BY <4>1, <2>2, CwdsAssumption DEF ScopeOK
    <3>3. CASE scope[L[k].cwd] \in Worktrees
      <4>1. Opens(L, k)
        BY <2>2, <3>3 DEF Opens, HeaderAt, InScope
      <4> QED BY <2>1, <2>2, <4>1, BodyStarts DEF Opens
    <3>4. CASE scope[L[k].cwd] = "other"
      BY <3>1, <3>4 DEF FollowHeader, Worktrees
    <3>5. CASE scope[L[k].cwd] = "unresolved"
      BY <3>1, <3>5 DEF FollowHeader, Worktrees, Reasons
    <3> QED BY <3>2, <3>3, <3>4, <3>5
  <2>3. CASE L[k].t # "header"
    BY <2>1, <2>3 DEF ReadHeader, Reasons
  <2> QED BY <2>2, <2>3
<1> QED BY <1>1, <1>2

LEMMA ShapeStep ==
    ASSUME NEW file, NEW k \in 1 .. Len(file.lines), file.lines \in Seq(Line), ScopeOK,
           NEW s, Shape(file, k - 1, s)
    PROVE  Shape(file, k, Advance(file, s, k))
<1> DEFINE L == file.lines
           t == Advance(file, s, k)
<1>0. k \in Nat \ {0} /\ k - 1 \in Nat
  OBVIOUS
<1>1. CASE s = FromStart /\ \A j \in 1 .. k - 1 : L[j].t = "title" /\ kind = "omp"
  <2>1. Taken(L, k, k)
    BY DEF Taken
  <2>2. 1 .. k = (1 .. k - 1) \cup {k}
    BY <1>0
  <2> QED BY <1>1, <2>1, <2>2, AdvanceHead DEF Shape
<1>2. CASE s = [FromStart EXCEPT !.phase = "unrelated"]
  BY <1>2 DEF Shape, Advance, FromStart
<1>3. ASSUME NEW r \in Reasons, s = Stop(FromStart, r) PROVE Shape(file, k, t)
  BY <1>3 DEF Shape, Advance, FromStart, Stop
<1>4. ASSUME NEW h \in 1 .. k - 1, Opens(L, h), Taken(L, h, k - 1), s = Body(file, h, k - 1)
      PROVE  Shape(file, k, t)
  <2>1. h \in Nat \ {0} /\ k \in h + 1 .. Len(L) /\ h \in 1 .. k /\ k - 1 \in 1 .. k /\ h <= k - 1
    BY <1>0
  <2>2. CASE Usable(L, h, k) /\ t = Body(file, h, k)
    <3>1. Taken(L, h, k)
      BY <1>0, <1>4, <2>2 DEF Taken
    <3> QED BY <1>4, <2>1, <2>2, <3>1 DEF Shape
  <2>3. CASE \E r \in Reasons : t = Stop(Body(file, h, k - 1), r)
    BY <1>4, <2>1, <2>3 DEF Shape
  <2> QED BY <1>4, <2>1, <2>2, <2>3, AdvanceBody
<1>5. ASSUME NEW h \in 1 .. k - 1, NEW j \in 1 .. k - 1, NEW r \in Reasons,
             h <= j, Opens(L, h), Taken(L, h, j), s = Stop(Body(file, h, j), r)
      PROVE  Shape(file, k, t)
  <2>1. t = s
    BY <1>5 DEF Advance, Stop, Body
  <2>2. h \in 1 .. k /\ j \in 1 .. k
    BY <1>0
  <2> QED BY <1>5, <2>1, <2>2 DEF Shape
<1> QED BY <1>1, <1>2, <1>3, <1>4, <1>5 DEF Shape

LEMMA ScanShape ==
    ASSUME NEW file, NEW R, file.lines \in Seq(Line), ScopeOK, ReadFromStart(file, R)
    PROVE  \A k \in 0 .. Len(file.lines) : Shape(file, k, R[k])
<1> DEFINE n == Len(file.lines)
           T == {k \in 0 .. n : Shape(file, k, R[k])}
<1>0. n \in Nat
  OBVIOUS
<1>1. 0 \in T
  BY <1>0 DEF ReadFromStart, Shape
<1>2. ASSUME NEW k \in 0 .. n - 1, k \in T PROVE k + 1 \in T
  <2>1. k + 1 \in 1 .. n /\ (k + 1) - 1 = k
    BY <1>0
  <2>2. Shape(file, k + 1, Advance(file, R[k], k + 1))
    BY <1>2, <2>1, ShapeStep
  <2> QED BY <2>1, <2>2 DEF ReadFromStart
<1>3. 0 .. n \subseteq T
  <2> HIDE DEF n, T
  <2> QED BY <1>0, <1>1, <1>2, ReachesAll
<1> QED BY <1>3

\* The course of a scan over lines that can be taken.
LEMMA TakenRun ==
    ASSUME NEW file, NEW R, file.lines \in Seq(Line), ReadFromStart(file, R), ScopeOK,
           NEW h, Opens(file.lines, h), NEW n \in h .. Len(file.lines), Taken(file.lines, h, n)
    PROVE  \A k \in 0 .. n : R[k] = IF k < h THEN FromStart ELSE Body(file, h, k)
<1> DEFINE L == file.lines
           T == {k \in 0 .. n : R[k] = IF k < h THEN FromStart ELSE Body(file, h, k)}
<1>0. h \in 1 .. Len(L) /\ h \in Nat \ {0} /\ n \in Nat /\ Len(L) \in Nat /\ n <= Len(L) /\ h <= n
  BY DEF Opens, HeaderAt
<1>1. 0 \in T
  BY <1>0 DEF ReadFromStart
<1>2. ASSUME NEW k \in 0 .. n - 1, k \in T PROVE k + 1 \in T
  <2>1. k + 1 \in 1 .. Len(L) /\ (k + 1) - 1 = k /\ k + 1 \in 0 .. n
    BY <1>0
  <2>2. R[k + 1] = Advance(file, R[k], k + 1)
    BY <2>1 DEF ReadFromStart
  <2>3. CASE k + 1 < h
    <3>1. L[k + 1].t = "title" /\ kind = "omp"
      BY <1>0, <2>1, <2>3 DEF Opens, HeaderAt
    <3>2. Advance(file, FromStart, k + 1) = FromStart
      BY <3>1 DEF Advance, FromStart, Readable, ReadHeader
    <3>3. k < h /\ R[k] = FromStart
      BY <1>0, <1>2, <2>3
    <3> QED BY <2>1, <2>2, <2>3, <3>2, <3>3
  <2>4. CASE k + 1 = h
    <3>1. L[h].t = "header" /\ InScope(L, h)
      BY DEF Opens, HeaderAt
    <3>2. Advance(file, FromStart, h) = ReadHeader(FromStart, L[h], h)
      BY <3>1 DEF Advance, FromStart, Readable
    <3>3. Advance(file, FromStart, h) = Body(file, h, h)
      BY <1>0, <3>1, <3>2, BodyStarts
    <3> QED BY <1>0, <1>2, <2>1, <2>2, <2>4, <3>3
  <2>5. CASE h < k + 1
    <3>1. Usable(L, h, k + 1) /\ k + 1 \in h + 1 .. Len(L)
      BY <1>0, <2>1, <2>5 DEF Taken
    <3>2. R[k] = Body(file, h, k)
      BY <1>0, <1>2, <2>5
    <3>3. Advance(file, R[k], k + 1) = Body(file, h, k + 1)
      BY <1>0, <2>1, <3>1, <3>2, AdvanceBody
    <3> QED BY <1>0, <2>1, <2>2, <2>5, <3>3
  <2> QED BY <1>0, <2>1, <2>3, <2>4, <2>5
<1>3. 0 .. n \subseteq T
  <2> HIDE DEF T
  <2> QED BY <1>0, <1>1, <1>2, ReachesAll
<1> QED BY <1>3

----------------------------------------------------------------------------
(* Resuming *)

\* What a manifest may hold of line k, whatever the rules were when it was made.
Recorded(session, line, k, revision) ==
    IF line.t = "pin"
    THEN {[id |-> line.id, line |-> k, text |-> None, state |-> "pin", version |-> None]}
    ELSE {[id |-> line.id, line |-> k, text |-> line.text, state |-> "tombstoned",
           version |-> None],
          [id |-> line.id, line |-> k, text |-> line.text, state |-> "retained",
           version |-> [item |-> <<session.id, line.id>>, text |-> line.text,
                        redaction |-> revision]]}

\* A manifest says what a scan that has taken all lines of its prefix knows, but for
\* the scope, the rules and the revision, which are those of an earlier time.
Remembers(m, h) ==
    LET P == m.prefix IN
    /\ P \in Seq(Line)
    /\ HeaderAt(P, h)
    /\ Taken(P, h, Len(P))
    /\ m.session.id = P[h].session /\ m.session.cwd = P[h].cwd
    /\ m.session = [id |-> m.session.id, cwd |-> m.session.cwd, worktree |-> m.session.worktree]
    /\ m.session.worktree \in Worktrees
    /\ m.headerOrdinal = HeaderOrdinal(P[h])
    /\ m.entries \in Seq(ToSet(m.entries))
    /\ Len(m.entries) = Len(P) - h
    /\ \A i \in 1 .. Len(P) - h :
          m.entries[i] \in Recorded(m.session, P[h + i], h + i, m.binding.redaction)

CursorOK(cursor) ==
    cursor = None \/ cursor.manifest = None \/ \E h \in Nat : Remembers(cursor.manifest, h)

\* An entry that can be restored is the entry that reading its line again makes.
LEMMA RestoredIsRead ==
    ASSUME NEW m, NEW line, NEW k, NEW e \in Recorded(m.session, line, k, redaction),
           \/ e.state = "pin"
           \/ Excluded(<<m.session.id, e.id>>, e.text)
           \/ e.state = "retained"
    PROVE  RestoredEntry(m, e) = Entry(m.session, line, k)
<1> DEFINE version == Version(m.session, line)
           Tombstone == [id |-> line.id, line |-> k, text |-> line.text, state |-> "tombstoned",
                         version |-> None]
           Retained == [id |-> line.id, line |-> k, text |-> line.text, state |-> "retained",
                        version |-> version]
<1>1. CASE line.t = "pin"
  <2>1. e = [id |-> line.id, line |-> k, text |-> None, state |-> "pin", version |-> None]
    BY <1>1 DEF Recorded
  <2> QED BY <1>1, <2>1 DEF RestoredEntry, Entry
<1>2. CASE line.t # "pin"
  <2>1. e = Tombstone \/ e = Retained
    BY <1>2 DEF Recorded, Version
  <2>2. e.id = line.id /\ e.text = line.text /\ e.state # "pin" /\ (e.state = "retained" => e = Retained)
    BY <2>1
  <2>3. version.item = <<m.session.id, e.id>>
    BY <2>2 DEF Version
  <2>4. CASE Excluded(version.item, line.text)
    <3>1. [e EXCEPT !.state = "tombstoned", !.version = None] = Tombstone
      <4> DEFINE Now(n) == IF n = "version" THEN None
                           ELSE IF n = "state" THEN "tombstoned" ELSE e[n]
      <4>1. [e EXCEPT !.state = "tombstoned", !.version = None] = [n \in DOMAIN e |-> Now(n)]
        BY Zenon
      <4>2. /\ DOMAIN Tombstone = {"id", "line", "text", "state", "version"}
            /\ Tombstone = [n \in DOMAIN Tombstone |-> Tombstone[n]]
            /\ Tombstone.state = "tombstoned" /\ Tombstone.version = None
        OBVIOUS
      <4>3. /\ DOMAIN e = DOMAIN Tombstone
            /\ e.id = Tombstone.id /\ e.line = Tombstone.line /\ e.text = Tombstone.text
        BY <2>1
      <4> HIDE DEF Tombstone
      <4>4. \A n \in DOMAIN Tombstone : Tombstone[n] = Now(n)
        BY <4>2, <4>3
      <4> QED BY <4>1, <4>2, <4>3, <4>4
    <3> QED BY <1>2, <2>2, <2>3, <2>4, <3>1 DEF RestoredEntry, Entry
  <2>5. CASE ~Excluded(version.item, line.text)
    <3>1. e = Retained
      BY <2>2, <2>3, <2>5
    <3> HIDE DEF version
    <3>2. RestoredEntry(m, e) = e
      BY <2>2, <2>3, <2>5 DEF RestoredEntry
    <3>3. Entry(m.session, line, k) = Retained
      BY <1>2, <2>5 DEF Entry, version
    <3> QED BY <3>1, <3>2, <3>3
  <2> QED BY <2>4, <2>5
<1> QED BY <1>1, <1>2

\* What a prefix holds, a file that goes on from it holds.
LEMMA PrefixTaken ==
    ASSUME NEW P \in Seq(Line), NEW L \in Seq(Line), IsPrefix(P, L), NEW h,
           HeaderAt(P, h), Taken(P, h, Len(P))
    PROVE  /\ h \in 1 .. Len(P) /\ Len(P) <= Len(L)
           /\ \A j \in 1 .. Len(P) : L[j] = P[j]
           /\ HeaderAt(L, h) /\ Taken(L, h, Len(P))
<1>0. Len(P) \in Nat /\ Len(L) \in Nat /\ h \in 1 .. Len(P)
  BY DEF HeaderAt
<1>1. Len(P) <= Len(L) /\ \A j \in 1 .. Len(P) : L[j] = P[j]
  <2>1. Len(P) <= Len(L) /\ SubSeq(P, 1, Len(P)) = SubSeq(L, 1, Len(P))
    BY DEF IsPrefix
  <2>2. \A j \in 1 .. Len(P) : SubSeq(L, 1, Len(P))[j] = L[j] /\ SubSeq(P, 1, Len(P))[j] = P[j]
    BY <2>1
  <2> QED BY <2>1, <2>2
<1>2. HeaderAt(L, h)
  BY <1>0, <1>1 DEF HeaderAt
<1>3. Taken(L, h, Len(P))
  <2> SUFFICES ASSUME NEW j \in h + 1 .. Len(P) PROVE Usable(L, h, j)
    BY DEF Taken
  <2>1. Usable(P, h, j)
    BY DEF Taken
  <2>2. j \in 1 .. Len(P) /\ j - 1 \in 1 .. Len(P) /\ L[j] = P[j] /\ L[j - 1] = P[j - 1] /\ L[h] = P[h]
    BY <1>0, <1>1
  <2>3. NumberAt(L, h, j - 1) = NumberAt(P, h, j - 1)
    BY <2>2 DEF NumberAt
  <2>4. IdsIn(L, h, j - 1) = IdsIn(P, h, j - 1)
    <3>1. \A i \in h + 1 .. j - 1 : L[i] = P[i]
      BY <1>0, <1>1
    <3> QED BY <3>1 DEF IdsIn
  <2> QED BY <2>1, <2>2, <2>3, <2>4 DEF Usable
<1> QED BY <1>0, <1>1, <1>2, <1>3

\* A scan that resumes is where a scan from the start is after the same line.
LEMMA ResumedIsBody ==
    ASSUME NEW file, NEW L \in Seq(Line), L = file.lines, NEW m, NEW c, NEW h, Remembers(m, h),
           m.binding.redaction = redaction, IsPrefix(m.prefix, L), CanRestore(m, c),
           NEW n, n = Len(m.prefix)
    PROVE  /\ n \in h .. Len(L) /\ Opens(L, h) /\ Taken(L, h, n)
           /\ Resumed(file, m) = Body(file, h, n)
<1> DEFINE P == m.prefix
<1>1. /\ P \in Seq(Line) /\ HeaderAt(P, h) /\ Taken(P, h, n) /\ n \in Nat
      /\ m.headerOrdinal = HeaderOrdinal(P[h])
      /\ m.entries \in Seq(ToSet(m.entries)) /\ Len(m.entries) = n - h
      /\ \A i \in 1 .. n - h : m.entries[i] \in Recorded(m.session, P[h + i], h + i, redaction)
  BY DEF Remembers
<1>2. /\ h \in 1 .. n /\ n <= Len(L)
      /\ \A j \in 1 .. n : L[j] = P[j]
      /\ HeaderAt(L, h) /\ Taken(L, h, n)
  BY <1>1, PrefixTaken
<1>3. InScope(L, h) /\ Session(L[h]) = m.session
  BY <1>2 DEF Remembers, InScope, Session, CanRestore
<1> HIDE DEF P
<1> DEFINE entries == [i \in DOMAIN m.entries |-> RestoredEntry(m, m.entries[i])]
           read == [i \in 1 .. n - h |-> EntryAt(L, h, h + i)]
<1>4. DOMAIN m.entries = 1 .. n - h
  BY <1>1
<1>5. entries = read
  <2>1. ASSUME NEW i \in 1 .. n - h PROVE RestoredEntry(m, m.entries[i]) = EntryAt(L, h, h + i)
    <3>1. m.entries[i] \in ToSet(m.entries)
      BY <1>4 DEF ToSet
    <3>2. RestoredEntry(m, m.entries[i]) = Entry(m.session, P[h + i], h + i)
      BY <1>1, <3>1, RestoredIsRead DEF CanRestore
    <3>3. h + i \in 1 .. n
      BY <1>1, <1>2
    <3> QED BY <1>2, <1>3, <3>2, <3>3 DEF EntryAt
  <2> QED BY <1>4, <2>1
<1>6. LastOrdinal(m) = NumberAt(L, h, n)
  <2>1. m.headerOrdinal = HeaderOrdinal(L[h])
    BY <1>1, <1>2
  <2>2. m.entries # << >> <=> h < n
    BY <1>1, <1>2
  <2>3. ASSUME h < n PROVE Last(m.entries).id = L[n].id
    <3>1. n - h \in 1 .. n - h /\ h + (n - h) = n /\ n \in 1 .. n
      BY <1>1, <1>2, <2>3
    <3>2. m.entries[n - h] \in Recorded(m.session, L[n], n, redaction)
      BY <1>1, <1>2, <3>1
    <3>3. m.entries[n - h].id = L[n].id
      BY <3>2 DEF Recorded
    <3> QED BY <1>1, <3>3 DEF Last
  <2> QED BY <2>1, <2>2, <2>3 DEF LastOrdinal, NumberAt
<1>7. ToSet(entries) = {EntryAt(L, h, j) : j \in h + 1 .. n}
  <2>1. ToSet(read) = {read[i] : i \in 1 .. n - h}
    BY DEF ToSet
  <2>2. \A j \in h + 1 .. n : j - h \in 1 .. n - h /\ h + (j - h) = j
    BY <1>1, <1>2
  <2>3. \A i \in 1 .. n - h : h + i \in h + 1 .. n /\ read[i] = EntryAt(L, h, h + i)
    BY <1>1, <1>2
  <2> HIDE DEF entries, read
  <2> QED BY <1>5, <2>1, <2>2, <2>3
<1>8. \A j \in h + 1 .. n : EntryAt(L, h, j).line = j /\ EntryAt(L, h, j).id = L[j].id
  BY DEF EntryAt, Entry
<1>9. {e.id : e \in ToSet(entries)} = IdsIn(L, h, n)
  <2> HIDE DEF entries
  <2> QED BY <1>7, <1>8 DEF IdsIn
<1>10. {Captured(file.path, m.session, e.version, e.line) :
           e \in {e \in ToSet(entries) : e.state = "retained"}} = ItemsIn(file.path, L, h, n)
  <2> HIDE DEF entries
  <2> QED BY <1>3, <1>7, <1>8 DEF ItemsIn
<1>11. Resumed(file, m) = Body(file, h, n)
  <2>1. m.headerOrdinal = HeaderOrdinal(L[h])
    BY <1>1, <1>2
  <2> QED BY <1>3, <1>5, <1>6, <1>9, <1>10, <2>1 DEF Resumed, Body
<1> QED BY <1>1, <1>2, <1>3, <1>11 DEF Opens

\* A scan with a cache that holds manifests of what was read ends where a scan
\* without one does.
LEMMA ScanIsFull ==
    ASSUME NEW file, NEW c, file.lines \in Seq(Line), ScopeOK, file.path \in File,
           CursorOK(c.cursors[file.path])
    PROVE  Scan(file, c) = Scan(file, NoCache)
<1> DEFINE L == file.lines
           m == c.cursors[file.path].manifest
           R == Readings(file, NoCache)
           C == Readings(file, c)
           n == Len(m.prefix)
<1>0. Len(L) \in Nat
  OBVIOUS
<1>1. ReadFromStart(file, R)
  <2>1. ~CanResume(file, NoCache)
    BY DEF CanResume, Decoded, NoCache
  <2>2. \A k \in 0 .. Len(L) : R[k] = IF k = 0 THEN FromStart ELSE Advance(file, R[k - 1], k)
    BY <2>1, ReadingsRecursion
  <2> QED BY <1>0, <2>2 DEF ReadFromStart
<1>2. SUFFICES C[Len(L)] = R[Len(L)]
  BY DEF Scan
<1>3. CASE ~CanResume(file, c)
  <2> DEFINE T == {k \in 0 .. Len(L) : C[k] = R[k]}
  <2>1. \A k \in 0 .. Len(L) : C[k] = IF k = 0 THEN FromStart ELSE Advance(file, C[k - 1], k)
    BY <1>3, ReadingsRecursion
  <2> HIDE DEF C, R
  <2>2. 0 \in T
    BY <1>0, <1>1, <2>1 DEF ReadFromStart
  <2>3. ASSUME NEW k \in 0 .. Len(L) - 1, k \in T PROVE k + 1 \in T
    BY <1>0, <1>1, <2>1, <2>3 DEF ReadFromStart
  <2>4. 0 .. Len(L) \subseteq T
    <3> HIDE DEF T
    <3> QED BY <1>0, <2>2, <2>3, ReachesAll
  <2> QED BY <1>0, <2>4
<1>4. CASE CanResume(file, c)
  <2>1. PICK h \in Nat : Remembers(m, h)
    BY <1>4 DEF CanResume, Decoded, CursorOK
  <2> HIDE DEF m
  <2>2. n \in h .. Len(L) /\ Opens(L, h) /\ Taken(L, h, n) /\ Resumed(file, m) = Body(file, h, n)
    <3>1. m.binding.redaction = redaction /\ IsPrefix(m.prefix, L) /\ CanRestore(m, c)
      BY <1>4 DEF CanResume, PrefixUnchanged, Binding, m
    <3> QED BY <2>1, <3>1, ResumedIsBody
  <2> HIDE DEF n
  <2>3. h \in Nat \ {0} /\ n \in 0 .. Len(L) /\ h <= n /\ n # 0
    <3>1. h \in 1 .. Len(L)
      BY <2>2 DEF Opens, HeaderAt
    <3> QED BY <1>0, <2>2, <3>1
  <2>4. R[n] = Body(file, h, n)
    BY <1>1, <2>2, <2>3, TakenRun, n <= n, n \in h .. n, ~(n < h)
  <2>5. \A k \in 0 .. Len(L) : C[k] = IF k = n THEN Body(file, h, n)
                                      ELSE IF k = 0 THEN FromStart
                                      ELSE Advance(file, C[k - 1], k)
    BY <1>4, <2>2, ReadingsRecursion DEF m, n
  <2> DEFINE T == {k \in 0 .. Len(L) : C[k] = R[k]}
  <2> HIDE DEF C, R
  <2>6. 0 \in T
    BY <1>0, <1>1, <2>3, <2>4, <2>5 DEF ReadFromStart
  <2>7. ASSUME NEW k \in 0 .. Len(L) - 1, k \in T PROVE k + 1 \in T
    BY <1>0, <1>1, <2>3, <2>4, <2>5, <2>7 DEF ReadFromStart
  <2>8. 0 .. Len(L) \subseteq T
    <3> HIDE DEF T
    <3> QED BY <1>0, <2>6, <2>7, ReachesAll
  <2> QED BY <1>0, <2>8
<1> QED BY <1>3, <1>4

----------------------------------------------------------------------------
(* One pass *)

FileState(f) == [path : {f}, inode : {0, 1}, lines : Seq(Line), whole : BOOLEAN]

DiskOK(files) == DOMAIN files = File /\ \A f \in File : files[f] = None \/ files[f] \in FileState(f)

CursorsOK(c) == \A f \in File : CursorOK(c.cursors[f])

\* How a scan can end.
Ended(file, s) ==
    LET L == file.lines
        n == Len(L)
    IN \/ s = [FromStart EXCEPT !.phase = "unrelated"]
       \/ \E r \in Reasons : s = Stop(FromStart, r)
       \/ \E h \in 1 .. n : Opens(L, h) /\ Taken(L, h, n) /\ s = Body(file, h, n)
       \/ \E h, j \in 1 .. n, r \in Reasons :
             h <= j /\ Opens(L, h) /\ Taken(L, h, j) /\ s = Stop(Body(file, h, j), r)

LEMMA FullReading ==
    ASSUME NEW file, file.lines \in Seq(Line), file.path \in File
    PROVE  ReadFromStart(file, Readings(file, NoCache))
<1>1. ~CanResume(file, NoCache)
  BY DEF CanResume, Decoded, NoCache
<1> QED BY <1>1, ReadingsRecursion DEF ReadFromStart

LEMMA ScanEnds ==
    ASSUME NEW file, file.lines \in Seq(Line), file.path \in File, ScopeOK
    PROVE  /\ Ended(file, Scan(file, NoCache))
           /\ Scan(file, NoCache).items = Readings(file, NoCache)[Len(file.lines)].items
<1> DEFINE n == Len(file.lines)
           s == Readings(file, NoCache)[n]
<1>1. n \in 0 .. n /\ n \in Nat
  OBVIOUS
<1>2. Shape(file, n, s)
  BY <1>1, FullReading, ScanShape
<1>3. Scan(file, NoCache) = IF s.phase = "head" THEN Stop(s, "capture_schema") ELSE s
  BY DEF Scan
<1> HIDE DEF s
<1>4. CASE s = FromStart
  <2>1. s.phase = "head" /\ Stop(FromStart, "capture_schema").items = FromStart.items
    BY <1>4 DEF FromStart, Stop
  <2> QED BY <1>3, <1>4, <2>1 DEF Ended, Reasons, s
<1>5. CASE s # FromStart
  <2>1. s.phase # "head"
    <3>1. [FromStart EXCEPT !.phase = "unrelated"].phase = "unrelated"
      BY DEF FromStart
    <3>2. \A r \in Reasons : Stop(FromStart, r).phase = "stopped"
      BY DEF FromStart, Stop
    <3>3. \A h, j \in 1 .. n : Body(file, h, j).phase = "body"
      BY DEF Body
    <3>4. \A h, j \in 1 .. n, r \in Reasons : Stop(Body(file, h, j), r).phase = "stopped"
      BY DEF Body, Stop
    <3>5. \A h \in 1 .. n : n \in 1 .. n
      BY <1>1
    <3> HIDE DEF n
    <3> QED BY <1>2, <1>5, <3>1, <3>2, <3>3, <3>4, <3>5, ZenonT(40) DEF Shape
  <2>2. Scan(file, NoCache) = s
    BY <1>3, <2>1
  <2>3. Ended(file, s)
    BY <1>2, <1>5 DEF Shape, Ended
  <2> QED BY <2>2, <2>3 DEF s
<1> QED BY <1>4, <1>5

\* What a pass captures is the same with a cache and without one.
LEMMA CollectIsFull ==
    ASSUME NEW files, NEW c, DiskOK(files), ScopeOK, CursorsOK(c)
    PROVE  Scans(files, c) = Scans(files, NoCache) /\ Collect(files, c) = Collect(files, NoCache)
<1>1. ASSUME NEW f \in File, files[f] # None PROVE Scan(files[f], c) = Scan(files[f], NoCache)
  BY <1>1, ScanIsFull DEF DiskOK, FileState, CursorsOK
<1>2. Scans(files, c) = Scans(files, NoCache)
  BY <1>1 DEF Scans
<1> QED BY <1>2 DEF Collect

\* A manifest remembers the file it is made from.
LEMMA ManifestRemembers ==
    ASSUME NEW f \in File, NEW file \in FileState(f), ScopeOK, NEW s, Ended(file, s),
           s.phase # "unrelated", MayResume(file, s)
    PROVE  \E h \in Nat : Remembers(Manifest(file, s), h)
<1> DEFINE L == file.lines
           n == Len(L)
           m == Manifest(file, s)
<1>1. s.error = None
  BY DEF MayResume
<1>2. PICK h \in 1 .. n : Opens(L, h) /\ Taken(L, h, n) /\ s = Body(file, h, n)
  BY <1>1, NoneAssumption DEF Ended, Stop, FromStart, Reasons, Body
<1>3. n \in Nat /\ n - h \in Nat /\ L \in Seq(Line)
  BY DEF FileState
<1>4. /\ m.prefix = L /\ m.session = Session(L[h]) /\ m.headerOrdinal = HeaderOrdinal(L[h])
      /\ m.entries = [i \in 1 .. n - h |-> EntryAt(L, h, h + i)]
      /\ m.binding.redaction = redaction
  BY <1>2 DEF Manifest, Body, Binding
<1>5. m.entries \in [1 .. n - h -> ToSet(m.entries)]
  BY <1>4 DEF ToSet
<1> HIDE DEF m
<1>6. m.entries \in Seq(ToSet(m.entries)) /\ Len(m.entries) = n - h
  BY <1>3, <1>5, FunctionIsSeq
<1>7. ASSUME NEW i \in 1 .. n - h
      PROVE  m.entries[i] \in Recorded(m.session, L[h + i], h + i, m.binding.redaction)
  <2>1. m.entries[i] = Entry(m.session, L[h + i], h + i)
    BY <1>4 DEF EntryAt
  <2> QED BY <1>4, <2>1 DEF Entry, Recorded, Version
<1>8. /\ m.session = [id |-> L[h].session, cwd |-> L[h].cwd, worktree |-> m.session.worktree]
      /\ m.session.worktree \in Worktrees
  BY <1>2, <1>4 DEF Session, Opens, InScope
<1>9. HeaderAt(L, h) /\ h \in Nat
  BY <1>2 DEF Opens
<1>10. /\ m.session.id = L[h].session /\ m.session.cwd = L[h].cwd
       /\ m.session = [id |-> m.session.id, cwd |-> m.session.cwd, worktree |-> m.session.worktree]
  BY <1>8
<1> HIDE DEF n
<1>11. Len(m.prefix) = n /\ m.prefix = L
  BY <1>4 DEF n
<1>12. Remembers(m, h)
  BY <1>2, <1>3, <1>4, <1>6, <1>7, <1>8, <1>9, <1>10, <1>11 DEF Remembers
<1> QED BY <1>9, <1>12 DEF m

LEMMA CollectCursors ==
    ASSUME NEW files, NEW c, DiskOK(files), ScopeOK, CursorsOK(c)
    PROVE  CursorsOK(Collect(files, c))
<1> SUFFICES ASSUME NEW f \in File PROVE CursorOK(Collect(files, NoCache).cursors[f])
  BY CollectIsFull DEF CursorsOK
<1> DEFINE scan == Scans(files, NoCache)
           cursor == Collect(files, NoCache).cursors[f]
           after == CursorAfter(files[f], scan[f])
<1>1. DOMAIN scan = {g \in File : files[g] # None}
  BY DEF Scans
<1>2. \/ cursor = None
      \/ f \in DOMAIN scan /\ scan[f].phase # "unrelated" /\ cursor \in {after, Paused(after)}
  BY DEF Collect, Coalesced
<1>3. Paused(after).manifest = None
  BY DEF Paused, CursorAfter
<1>4. ASSUME f \in DOMAIN scan, scan[f].phase # "unrelated", after.manifest # None
      PROVE  \E h \in Nat : Remembers(after.manifest, h)
  <2>1. files[f] \in FileState(f)
    BY <1>1, <1>4 DEF DiskOK
  <2>2. scan[f] = Scan(files[f], NoCache)
    BY <1>1, <1>4 DEF Scans
  <2>3. Ended(files[f], scan[f])
    BY <2>1, <2>2, ScanEnds DEF FileState
  <2>4. MayResume(files[f], scan[f]) /\ after.manifest = Manifest(files[f], scan[f])
    BY <1>4 DEF CursorAfter
  <2> QED BY <1>4, <2>1, <2>3, <2>4, ManifestRemembers
<1> HIDE DEF scan, cursor, after
<1>5. CursorOK(cursor)
  BY <1>2, <1>3, <1>4 DEF CursorOK
<1> QED BY <1>5 DEF cursor

----------------------------------------------------------------------------
(* The invariant: whatever a cursor remembers was read from a file *)

IndexOK == index = [cursors |-> index.cursors, bodies |-> index.bodies]

CaptureInv == DiskOK(disk) /\ ScopeOK /\ IndexOK /\ CursorsOK(index) /\ CursorsOK(cache)

LEMMA NoCacheOK == CursorsOK(NoCache)
BY DEF CursorsOK, CursorOK, NoCache

LEMMA CaptureInit == Init => CaptureInv
<1> SUFFICES ASSUME Init PROVE CaptureInv
  OBVIOUS
<1>1. DiskOK(disk)
  <2>1. PICK content \in [Present -> Contents] :
           disk = [f \in File |-> IF f \in Present THEN NewFile(f, content[f]) ELSE None]
    BY DEF Init
  <2>2. \A f \in Present : content[f] \in Seq(Line)
    BY ContentsAssumption
  <2> QED BY <2>1, <2>2 DEF DiskOK, FileState, NewFile
<1>2. ScopeOK
  BY DEF Init, ScopeOK, Worktrees
<1> QED BY <1>1, <1>2, NoCacheOK DEF Init, CaptureInv, IndexOK, NoCache

\* The steps that only change files keep the types of files.
LEMMA EditDisk ==
    ASSUME DiskOK(disk), NEW f \in File, NEW d \in FileState(f) \cup {None},
           disk' = [disk EXCEPT ![f] = d]
    PROVE  DiskOK(disk')
BY DEF DiskOK

\* Cursors stay as good as they are: the adapter of a source never changes.
LEMMA KindKept ==
    ASSUME kind' = kind, NEW c, CursorsOK(c)
    PROVE  CursorsOK(c)'
<1>1. \A header : HeaderOrdinal(header)' = HeaderOrdinal(header)
  BY DEF HeaderOrdinal
<1>2. \A L, h : HeaderAt(L, h)' <=> HeaderAt(L, h)
  BY DEF HeaderAt
<1>3. \A L, h, k : NumberAt(L, h, k)' = NumberAt(L, h, k)
  BY <1>1 DEF NumberAt
<1>4. \A s, line : KnownEntry(s, line)' <=> KnownEntry(s, line)
  BY DEF KnownEntry
<1>5. \A L, h, k : Usable(L, h, k)' <=> Usable(L, h, k)
  BY <1>3, <1>4 DEF Usable, Readable, IdsIn
<1>6. \A L, h, k : Taken(L, h, k)' <=> Taken(L, h, k)
  BY <1>5 DEF Taken
<1>7. ASSUME NEW m, NEW h, Remembers(m, h) PROVE Remembers(m, h)'
  <2>1. HeaderAt(m.prefix, h)' /\ Taken(m.prefix, h, Len(m.prefix))'
    BY <1>2, <1>6, <1>7 DEF Remembers
  <2>2. HeaderOrdinal(m.prefix[h])' = HeaderOrdinal(m.prefix[h])
    BY <1>1
  <2> QED BY <1>7, <2>1, <2>2 DEF Remembers
<1> QED BY <1>7 DEF CursorsOK, CursorOK

LEMMA CollectOK ==
    ASSUME CaptureInv
    PROVE  /\ CursorsOK(Collect(disk, cache)) /\ CursorsOK(CacheInput(Collect(disk, cache)))
           /\ CursorsOK(Loaded(index, forgotten))
<1>1. CursorsOK(Collect(disk, cache))
  BY CollectCursors DEF CaptureInv
<1>2. CursorOK(None)
  BY DEF CursorOK
<1>3. CursorsOK(CacheInput(Collect(disk, cache)))
  BY <1>1, <1>2 DEF CacheInput, CursorsOK
<1>4. CursorsOK(Loaded(index, forgotten))
  BY DEF Loaded, CursorsOK, CaptureInv
<1> QED BY <1>1, <1>3, <1>4

LEMMA CaptureStep == CaptureInv /\ [Next]_vars => CaptureInv'
<1> SUFFICES ASSUME CaptureInv, [Next]_vars PROVE CaptureInv'
  OBVIOUS
<1>0. kind' = kind
  BY DEF Next, vars, Begin, Pass, Publish, LoseIndex, Edit, EditFiles, Create, AppendLine,
         FinishLine, OverwriteLine, Truncate, Copy, RemoveFile, Move, Upgrade
<1>1. ASSUME DiskOK(disk'), UNCHANGED <<scope, index, cache>> PROVE CaptureInv'
  BY <1>0, <1>1, KindKept DEF CaptureInv, ScopeOK, IndexOK, DiskOK, FileState
<1>2. ASSUME UNCHANGED <<disk, scope>>, IndexOK', CursorsOK(index'), CursorsOK(cache')
      PROVE  CaptureInv'
  BY <1>0, <1>2, KindKept DEF CaptureInv, ScopeOK, DiskOK, FileState
<1>3. ASSUME NEW R \in RuleSets, Begin(R) PROVE CaptureInv'
  <2>1. index' = [cursors |-> index.cursors, bodies |-> index'.bodies]
    BY <1>3 DEF Begin, CaptureInv, IndexOK
  <2>2. CursorsOK(index')
    BY <2>1 DEF CursorsOK, CaptureInv
  <2>3. CursorsOK(cache')
    BY <1>3, <2>1, <2>2 DEF Begin, Loaded, CursorsOK
  <2> QED BY <1>2, <1>3, <2>1, <2>2, <2>3 DEF Begin, IndexOK
<1>4. ASSUME Pass PROVE CaptureInv'
  BY <1>2, <1>4, CollectOK DEF Pass, CaptureInv, IndexOK
<1>5. ASSUME Publish PROVE CaptureInv'
  <2>1. \A f \in File : index'.cursors[f] \in {index.cursors[f], Collect(disk, cache).cursors[f]}
    BY <1>5 DEF Publish
  <2>2. CursorsOK(index')
    BY <2>1, CollectOK DEF CursorsOK, CaptureInv
  <2> QED BY <1>2, <1>5, <2>2, CollectOK DEF Publish, IndexOK
<1>6. ASSUME LoseIndex PROVE CaptureInv'
  BY <1>2, <1>6, NoCacheOK DEF LoseIndex, IndexOK, NoCache
<1>7. ASSUME NEW f \in File, NEW content \in Contents, Create(f, content) PROVE CaptureInv'
  <2>1. NewFile(f, content) \in FileState(f)
    BY ContentsAssumption DEF NewFile, FileState
  <2>2. DiskOK(disk')
    BY <1>7, <2>1, EditDisk DEF Create, CaptureInv
  <2> QED BY <1>1, <1>7, <2>2 DEF Create, EditFiles, Edit
<1>8. ASSUME NEW f \in File, NEW line \in Lines, NEW whole \in BOOLEAN, AppendLine(f, line, whole)
      PROVE  CaptureInv'
  <2>1. disk[f] \in FileState(f)
    BY <1>8 DEF AppendLine, CaptureInv, DiskOK
  <2>2. Append(disk[f].lines, line) \in Seq(Line)
    BY <2>1 DEF FileState, Line
  <2>3. disk' = [disk EXCEPT ![f] = [disk[f] EXCEPT !.lines = Append(disk[f].lines, line),
                                                    !.whole = whole]]
    BY <1>8 DEF AppendLine, CaptureInv, DiskOK
  <2>4. DiskOK(disk')
    BY <2>1, <2>2, <2>3, EditDisk DEF CaptureInv, FileState
  <2> QED BY <1>1, <1>8, <2>4 DEF AppendLine, EditFiles, Edit
<1>9. ASSUME NEW f \in File, NEW line \in Lines, FinishLine(f, line) PROVE CaptureInv'
  <2>1. disk[f] \in FileState(f)
    BY <1>9 DEF FinishLine, CaptureInv, DiskOK
  <2>2. Append(Front(disk[f].lines), line) \in Seq(Line)
    BY <2>1 DEF FileState, Line, Front
  <2>3. disk' = [disk EXCEPT ![f] = [disk[f] EXCEPT !.lines = Append(Front(disk[f].lines), line),
                                                    !.whole = TRUE]]
    BY <1>9 DEF FinishLine, CaptureInv, DiskOK
  <2>4. DiskOK(disk')
    BY <2>1, <2>2, <2>3, EditDisk DEF CaptureInv, FileState
  <2> QED BY <1>1, <1>9, <2>4 DEF FinishLine, EditFiles, Edit
<1>10. ASSUME NEW f \in File, NEW k \in 1 .. MaxLines, NEW line \in Lines, OverwriteLine(f, k, line)
       PROVE  CaptureInv'
  <2>1. disk[f] \in FileState(f)
    BY <1>10 DEF OverwriteLine, CaptureInv, DiskOK
  <2>2. [disk[f].lines EXCEPT ![k] = line] \in Seq(Line)
    BY <1>10, <2>1 DEF FileState, Line, OverwriteLine
  <2>3. disk' = [disk EXCEPT ![f] = [disk[f] EXCEPT !.lines = [disk[f].lines EXCEPT ![k] = line],
                                                    !.whole = TRUE]]
    BY <1>10 DEF OverwriteLine, CaptureInv, DiskOK
  <2>4. DiskOK(disk')
    BY <2>1, <2>2, <2>3, EditDisk DEF CaptureInv, FileState
  <2> QED BY <1>1, <1>10, <2>4 DEF OverwriteLine, EditFiles, Edit
<1>11. ASSUME NEW f \in File, NEW k \in 0 .. MaxLines, Truncate(f, k) PROVE CaptureInv'
  <2>1. disk[f] \in FileState(f)
    BY <1>11 DEF Truncate, CaptureInv, DiskOK
  <2>2. SubSeq(disk[f].lines, 1, k) \in Seq(Line)
    BY <1>11, <2>1 DEF FileState, Truncate
  <2>3. disk' = [disk EXCEPT ![f] = [disk[f] EXCEPT !.lines = SubSeq(disk[f].lines, 1, k),
                                                    !.whole = TRUE]]
    BY <1>11 DEF Truncate, CaptureInv, DiskOK
  <2>4. DiskOK(disk')
    BY <2>1, <2>2, <2>3, EditDisk DEF CaptureInv, FileState
  <2> QED BY <1>1, <1>11, <2>4 DEF Truncate, EditFiles, Edit
<1>12. ASSUME NEW f \in File, NEW g \in File, Copy(f, g) PROVE CaptureInv'
  <2> DEFINE inode == IF disk[f] = None THEN 0 ELSE 1 - disk[f].inode
  <2>1. disk[g] \in FileState(g) /\ inode \in {0, 1}
    BY <1>12 DEF Copy, CaptureInv, DiskOK, FileState
  <2>2. disk' = [disk EXCEPT ![f] = [disk[g] EXCEPT !.path = f, !.inode = inode]]
    BY <1>12 DEF Copy
  <2> HIDE DEF inode
  <2>3. [disk[g] EXCEPT !.path = f, !.inode = inode] \in FileState(f)
    BY <2>1 DEF FileState
  <2>4. DiskOK(disk')
    BY <2>2, <2>3, EditDisk DEF CaptureInv
  <2> QED BY <1>1, <1>12, <2>4 DEF Copy, EditFiles, Edit
<1>13. ASSUME NEW f \in File, RemoveFile(f) PROVE CaptureInv'
  <2>1. DiskOK(disk')
    BY <1>13, EditDisk DEF RemoveFile, CaptureInv
  <2> QED BY <1>1, <1>13, <2>1 DEF RemoveFile, EditFiles, Edit
<1>14. ASSUME NEW cwd \in Cwds, NEW found \in Worktrees \cup {"other", "unresolved"}, Move(cwd, found)
       PROVE  CaptureInv'
  BY <1>0, <1>14, KindKept DEF Move, Edit, CaptureInv, ScopeOK, IndexOK, DiskOK, FileState, Worktrees
<1>15. ASSUME Upgrade PROVE CaptureInv'
  BY <1>2, <1>15, CollectOK DEF Upgrade, Edit, CaptureInv, IndexOK
<1>16. ASSUME UNCHANGED vars PROVE CaptureInv'
  BY <1>2, <1>16 DEF vars, CaptureInv, IndexOK
<1> QED BY <1>3, <1>4, <1>5, <1>6, <1>7, <1>8, <1>9, <1>10, <1>11, <1>12, <1>13, <1>14, <1>15, <1>16
        DEF Next

THEOREM CaptureInvariant == Spec => []CaptureInv
BY CaptureInit, CaptureStep, PTL DEF Spec

\* Whatever happened to the files, the index, the rules and the worktrees since a cursor
\* was made, a pass that resumes captures what a pass from the start does.
THEOREM ResumingIsReading == Spec => []IncrementalIsFull
<1>1. CaptureInv => IncrementalIsFull
  BY CollectIsFull DEF CaptureInv, IncrementalIsFull
<1> QED BY <1>1, CaptureInvariant, PTL

----------------------------------------------------------------------------
(* What files say between them *)

\* Of several copies, one is the first.
LEMMA FirstIsCopy ==
    ASSUME NEW copies, copies # {}, \A i \in copies : i.path \in File
    PROVE  First(copies) \in copies
<1>1. ASSUME NEW f \in File PROVE Position(f) \in Nat
  <2>1. \E n \in DOMAIN Files : Files[n] = f
    BY DEF File, ToSet
  <2>2. DOMAIN Files \subseteq Nat
    BY FilesAssumption
  <2> QED BY <2>1, <2>2 DEF Position
<1> DEFINE T == {Position(i.path) : i \in copies}
<1>2. T \subseteq Nat /\ T # {}
  BY <1>1
<1>3. PICK n \in T : \A m \in T : n <= m
  <2> HIDE DEF T
  <2> QED BY <1>2, LeastNumber
<1>4. \E i \in copies : \A j \in copies : Position(i.path) <= Position(j.path)
  BY <1>3
<1> QED BY <1>4 DEF First

LEMMA ItemsHavePaths ==
    ASSUME NEW file, NEW s, Ended(file, s), NEW i \in s.items
    PROVE  i.path = file.path
<1>1. \A h, k : \A j \in ItemsIn(file.path, file.lines, h, k) : j.path = file.path
  BY DEF ItemsIn, Captured
<1>2. FromStart.items = {} /\ [FromStart EXCEPT !.phase = "unrelated"].items = {}
  BY DEF FromStart
<1>3. \A r : Stop(FromStart, r).items = {}
  BY DEF FromStart, Stop
<1>4. \A h, k : Body(file, h, k).items = ItemsIn(file.path, file.lines, h, k)
  BY DEF Body
<1>5. \A h, k, r : Stop(Body(file, h, k), r).items = ItemsIn(file.path, file.lines, h, k)
  BY DEF Body, Stop
<1>6. s.items = {} \/ \E h, k : s.items = ItemsIn(file.path, file.lines, h, k)
  <2>1. CASE s = [FromStart EXCEPT !.phase = "unrelated"] \/ \E r \in Reasons : s = Stop(FromStart, r)
    BY <1>2, <1>3, <2>1
  <2>2. ASSUME NEW h, NEW k, s = Body(file, h, k) \/ \E r \in Reasons : s = Stop(Body(file, h, k), r)
        PROVE  s.items = ItemsIn(file.path, file.lines, h, k)
    BY <1>4, <1>5, <2>2
  <2> QED BY <2>1, <2>2 DEF Ended
<1> QED BY <1>1, <1>6

LEMMA EvidencePaths ==
    ASSUME NEW files, DiskOK(files), ScopeOK, NEW i \in Evidence(Scans(files, NoCache))
    PROVE  i.path \in File /\ files[i.path] # None /\ i \in Scans(files, NoCache)[i.path].items
<1>1. PICK f \in File : files[f] # None /\ i \in Scans(files, NoCache)[f].items
  BY DEF Evidence, Scans
<1>2. files[f] \in FileState(f) /\ Scans(files, NoCache)[f] = Scan(files[f], NoCache)
  BY <1>1 DEF DiskOK, Scans
<1>3. Ended(files[f], Scan(files[f], NoCache))
  BY <1>2, ScanEnds DEF FileState
<1>4. i.path = f
  BY <1>1, <1>2, <1>3, ItemsHavePaths DEF FileState
<1> QED BY <1>1, <1>4

\* An item of which there are copies is captured or contradicted.
LEMMA CapturedOrNot ==
    ASSUME NEW files, DiskOK(files), ScopeOK
    PROVE  LET items == {i.item : i \in Evidence(Scans(files, NoCache))}
           IN /\ Contradicted(files) \subseteq items
              /\ Capturable(files) = items \ Contradicted(files)
<1> DEFINE scan == Scans(files, NoCache)
           items == {i.item : i \in Evidence(scan)}
           conflicts == {item \in items : ~Agree(Copies(scan, item))}
<1>1. ASSUME NEW item \in items PROVE First(Copies(scan, item)).item = item
  <2>1. Copies(scan, item) # {} /\ \A i \in Copies(scan, item) : i.path \in File /\ i.item = item
    BY EvidencePaths DEF Copies
  <2> QED BY <2>1, FirstIsCopy
<1>2. Contradicted(files) = conflicts
  BY DEF Contradicted, Collect, Coalesced
<1>3. Collect(files, NoCache).items = {First(Copies(scan, item)) : item \in items \ conflicts}
  BY DEF Collect, Coalesced
<1>4. Capturable(files) = {First(Copies(scan, item)).item : item \in items \ conflicts}
  BY <1>3 DEF Capturable
<1> HIDE DEF scan
<1>5. Capturable(files) = items \ conflicts
  BY <1>1, <1>4
<1> QED BY <1>2, <1>5 DEF scan

----------------------------------------------------------------------------
(* Appending to a file *)

LEMMA AdvanceKeeps ==
    ASSUME NEW file, file.lines \in Seq(Line), NEW k \in 1 .. Len(file.lines),
           NEW s, Shape(file, k - 1, s)
    PROVE  s.items \subseteq Advance(file, s, k).items
<1> DEFINE t == Advance(file, s, k)
<1>1. CASE s.phase \in {"stopped", "unrelated"}
  BY <1>1 DEF Advance
<1>2. CASE s.items = {}
  BY <1>2
<1>3. ASSUME NEW h \in 1 .. k - 1, s = Body(file, h, k - 1) PROVE s.items \subseteq t.items
  <2>1. h \in Nat \ {0} /\ k \in h + 1 .. Len(file.lines)
    OBVIOUS
  <2>2. t = Body(file, h, k) \/ \E r \in Reasons : t = Stop(s, r)
    BY <1>3, <2>1, AdvanceBody
  <2>3. \A r \in Reasons : Stop(s, r).items = s.items
    BY <1>3 DEF Stop, Body
  <2>4. s.items \subseteq Body(file, h, k).items
    BY <1>3, <2>1 DEF Body, ItemsIn
  <2> QED BY <2>2, <2>3, <2>4
<1>4. FromStart.items = {} /\ [FromStart EXCEPT !.phase = "unrelated"].items = {}
  BY DEF FromStart
<1>5. \A r : Stop(FromStart, r).items = {}
  BY DEF FromStart, Stop
<1>6. \A h, j, r : Stop(Body(file, h, j), r).phase = "stopped"
  BY DEF Body, Stop
<1> QED BY <1>1, <1>2, <1>3, <1>4, <1>5, <1>6 DEF Shape

\* A whole file that is appended to holds the items it held.
LEMMA LongerFile ==
    ASSUME NEW f \in File, NEW file \in FileState(f), NEW longer \in FileState(f), ScopeOK,
           file.whole, IsStrictPrefix(file.lines, longer.lines)
    PROVE  Scan(file, NoCache).items \subseteq Scan(longer, NoCache).items
<1> DEFINE n == Len(file.lines)
           N == Len(longer.lines)
           R == Readings(file, NoCache)
           Q == Readings(longer, NoCache)
<1>1. /\ file.lines \in Seq(Line) /\ longer.lines \in Seq(Line)
      /\ file.path \in File /\ longer.path = file.path /\ n \in Nat /\ N \in Nat
  BY DEF FileState
<1>2. n < N /\ \A k \in 1 .. n : longer.lines[k] = file.lines[k]
  <2>1. n <= N /\ SubSeq(file.lines, 1, n) = SubSeq(longer.lines, 1, n) /\ file.lines # longer.lines
    BY DEF IsStrictPrefix, IsPrefix
  <2>2. \A k \in 1 .. n : /\ SubSeq(file.lines, 1, n)[k] = file.lines[k]
                          /\ SubSeq(longer.lines, 1, n)[k] = longer.lines[k]
    BY <1>1, <2>1
  <2>3. n = N => file.lines = longer.lines
    BY <1>1, <2>1, <2>2, SeqEqual
  <2> QED BY <1>1, <2>1, <2>2, <2>3
<1>3. ReadFromStart(file, R) /\ ReadFromStart(longer, Q)
  BY <1>1, FullReading
<1>4. ASSUME NEW s, NEW k \in 1 .. n PROVE Advance(longer, s, k) = Advance(file, s, k)
  <2>1. k # N /\ longer.lines[k] = file.lines[k]
    BY <1>1, <1>2
  <2>2. ReadEntry(longer, s, file.lines[k], k) = ReadEntry(file, s, file.lines[k], k)
    BY <1>1 DEF ReadEntry
  <2> QED BY <2>1, <2>2 DEF Advance
<1> HIDE DEF R, Q
<1>5. R[n] = Q[n]
  <2> DEFINE T == {k \in 0 .. n : Q[k] = R[k]}
  <2>1. 0 \in T
    BY <1>1, <1>3 DEF ReadFromStart
  <2>2. ASSUME NEW k \in 0 .. n - 1, k \in T PROVE k + 1 \in T
    <3>1. k + 1 \in 1 .. n /\ k + 1 \in 1 .. N /\ (k + 1) - 1 = k
      BY <1>1, <1>2
    <3> QED BY <1>3, <1>4, <2>2, <3>1 DEF ReadFromStart
  <2>3. 0 .. n \subseteq T
    <3> HIDE DEF T, n
    <3> QED BY <1>1, <2>1, <2>2, ReachesAll
  <2> QED BY <1>1, <2>3
<1>6. Q[n].items \subseteq Q[N].items
  <2>0. n \in Nat /\ N \in Nat /\ n < N
    BY <1>1, <1>2
  <2> HIDE DEF n
  <2> DEFINE T == {k \in 0 .. N - n : Q[n].items \subseteq Q[n + k].items}
  <2>1. 0 \in T
    BY <1>1, <1>2
  <2>2. ASSUME NEW k \in 0 .. (N - n) - 1, k \in T PROVE k + 1 \in T
    <3>1. n + k \in 0 .. N /\ n + k + 1 \in 1 .. N /\ (n + k + 1) - 1 = n + k /\ k + 1 \in 0 .. N - n
      <4> HIDE DEF N, T
      <4> QED BY <2>0
    <3>2. Shape(longer, n + k, Q[n + k])
      BY <1>1, <1>3, <3>1, ScanShape
    <3>3. Q[n + k + 1] = Advance(longer, Q[n + k], n + k + 1)
      BY <1>3, <3>1 DEF ReadFromStart
    <3>4. Q[n + k].items \subseteq Q[n + k + 1].items
      BY <1>1, <3>1, <3>2, <3>3, AdvanceKeeps
    <3>5. n + (k + 1) = n + k + 1
      BY <2>0
    <3> QED BY <2>2, <3>1, <3>4, <3>5
  <2>3. 0 .. N - n \subseteq T
    <3>1. N - n \in Nat
      BY <2>0
    <3> HIDE DEF T, N
    <3> QED BY <2>1, <2>2, <3>1, ReachesAll
  <2>4. N - n \in 0 .. N - n /\ n + (N - n) = N
    <3> HIDE DEF N
    <3> QED BY <2>0
  <2> QED BY <2>3, <2>4
<1>7. Scan(file, NoCache).items = R[n].items /\ Scan(longer, NoCache).items = Q[N].items
  BY <1>1, ScanEnds DEF R, Q
<1> QED BY <1>5, <1>6, <1>7

LEMMA GrowingKeeps ==
    ASSUME NEW D, NEW E, DiskOK(D), DiskOK(E), ScopeOK, NEW f \in File,
           D[f] # None, E[f] # None, D[f].whole, IsStrictPrefix(D[f].lines, E[f].lines),
           E = [D EXCEPT ![f].lines = E[f].lines, ![f].whole = E[f].whole]
    PROVE  Capturable(D) \subseteq Capturable(E) \cup Contradicted(E)
<1>1. D[f] \in FileState(f) /\ E[f] \in FileState(f)
  BY DEF DiskOK
<1>2. \A g \in File \ {f} : E[g] = D[g]
  BY DEF DiskOK
<1>3. ASSUME NEW g \in File, D[g] # None PROVE E[g] # None /\ Scan(D[g], NoCache).items \subseteq Scan(E[g], NoCache).items
  BY <1>1, <1>2, <1>3, LongerFile
<1>4. Evidence(Scans(D, NoCache)) \subseteq Evidence(Scans(E, NoCache))
  <2> SUFFICES ASSUME NEW i \in Evidence(Scans(D, NoCache)) PROVE i \in Evidence(Scans(E, NoCache))
    OBVIOUS
  <2>1. PICK g \in File : D[g] # None /\ i \in Scan(D[g], NoCache).items
    BY DEF Evidence, Scans
  <2>2. g \in DOMAIN Scans(E, NoCache) /\ Scans(E, NoCache)[g] = Scan(E[g], NoCache)
    BY <1>3, <2>1 DEF Scans
  <2> QED BY <1>3, <2>1, <2>2 DEF Evidence
<1> QED BY <1>4, CapturedOrNot

\* Appending to a session file, be it half a record or one that cannot be read, never
\* takes away what could be captured before, unless a new copy contradicts it.
THEOREM AppendingKeeps == Spec => AppendKeeps
<1>1. ASSUME CaptureInv, CaptureInv', NEW f \in File, Grows(f)
      PROVE  Capturable(disk) \subseteq Capturable(disk') \cup Contradicted(disk')
  <2>1. DiskOK(disk) /\ DiskOK(disk') /\ ScopeOK
    BY <1>1 DEF CaptureInv, DiskOK, FileState
  <2> QED BY <1>1, <2>1, GrowingKeeps DEF Grows
<1>2. CaptureInv /\ CaptureInv' /\ [Next]_vars =>
        [(\E f \in File : Grows(f)) =>
            Capturable(disk) \subseteq Capturable(disk') \cup Contradicted(disk')]_vars
  BY <1>1
<1> QED BY <1>2, CaptureInvariant, PTL DEF Spec, AppendKeeps

----------------------------------------------------------------------------
(* Publishing *)

\* The header of a session is the only one.
LEMMA OneHeader ==
    ASSUME NEW L \in Seq(Line), NEW h, NEW j \in h .. Len(L), HeaderAt(L, h), Taken(L, h, j),
           NEW k \in 1 .. j, L[k].t = "entry"
    PROVE  h < k /\ L[CHOOSE i \in 1 .. k : L[i].t = "header"] = L[h]
<1>1. h \in 1 .. Len(L) /\ L[h].t = "header" /\ \A i \in 1 .. h - 1 : L[i].t = "title"
  BY DEF HeaderAt
<1>2. \A i \in h + 1 .. j : L[i].t \in {"entry", "pin"}
  BY DEF Taken, Usable, KnownEntry
<1>3. h < k
  BY <1>1
<1>4. \A i \in 1 .. k : L[i].t = "header" <=> i = h
  BY <1>1, <1>2, <1>3
<1>5. (CHOOSE i \in 1 .. k : L[i].t = "header") = h
  BY <1>1, <1>3, <1>4
<1> QED BY <1>3, <1>5

\* Where the offset of a scan is, and what it has captured up to there.
LEMMA OffsetIsTaken ==
    ASSUME NEW file, NEW s, Ended(file, s)
    PROVE  \/ s.offset = 0
           \/ \E h, j \in 1 .. Len(file.lines) :
                 /\ h <= j /\ Opens(file.lines, h) /\ Taken(file.lines, h, j)
                 /\ s.offset = j /\ s.items = ItemsIn(file.path, file.lines, h, j)
<1>1. [FromStart EXCEPT !.phase = "unrelated"].offset = 0 /\ \A r : Stop(FromStart, r).offset = 0
  BY DEF FromStart, Stop
<1>2. \A h, k : /\ Body(file, h, k).items = ItemsIn(file.path, file.lines, h, k)
                /\ Body(file, h, k).offset = k
  BY DEF Body
<1>3. \A h, k, r : /\ Stop(Body(file, h, k), r).items = ItemsIn(file.path, file.lines, h, k)
                   /\ Stop(Body(file, h, k), r).offset = k
  BY DEF Body, Stop
<1>4. CASE s = [FromStart EXCEPT !.phase = "unrelated"] \/ \E r \in Reasons : s = Stop(FromStart, r)
  BY <1>1, <1>4
<1>5. ASSUME NEW h \in 1 .. Len(file.lines), Opens(file.lines, h),
             Taken(file.lines, h, Len(file.lines)), s = Body(file, h, Len(file.lines))
      PROVE  \E j \in 1 .. Len(file.lines) :
                 /\ h <= j /\ Opens(file.lines, h) /\ Taken(file.lines, h, j)
                 /\ s.offset = j /\ s.items = ItemsIn(file.path, file.lines, h, j)
  <2>1. Len(file.lines) \in 1 .. Len(file.lines) /\ h <= Len(file.lines)
    OBVIOUS
  <2> QED BY <1>2, <1>5, <2>1
<1>6. ASSUME NEW h \in 1 .. Len(file.lines), NEW j \in 1 .. Len(file.lines), NEW r \in Reasons,
             h <= j, Opens(file.lines, h), Taken(file.lines, h, j), s = Stop(Body(file, h, j), r)
      PROVE  s.offset = j /\ s.items = ItemsIn(file.path, file.lines, h, j)
  BY <1>3, <1>6
<1> QED BY <1>4, <1>5, <1>6 DEF Ended

\* A pass captures what stands before the offset of a file that is not paused.
LEMMA CapturedBefore ==
    ASSUME NEW files, DiskOK(files), ScopeOK, NEW f \in File, files[f] # None,
           NEW h, NEW j \in h .. Len(files[f].lines), Opens(files[f].lines, h),
           Scan(files[f], NoCache).items = ItemsIn(f, files[f].lines, h, j),
           \A item \in Contradicted(files) : \A i \in Copies(Scans(files, NoCache), item) : i.path # f,
           NEW k \in h + 1 .. j, EntryAt(files[f].lines, h, k).state = "retained"
    PROVE  \E i \in Collect(files, NoCache).items : i.version = EntryAt(files[f].lines, h, k).version
<1> DEFINE scan == Scans(files, NoCache)
           L == files[f].lines
           i == Captured(f, Session(L[h]), EntryAt(L, h, k).version, k)
           items == {e.item : e \in Evidence(scan)}
           conflicts == {item \in items : ~Agree(Copies(scan, item))}
           first == First(Copies(scan, i.item))
<1>1. i \in scan[f].items /\ f \in DOMAIN scan
  BY DEF ItemsIn, Scans
<1>2. i \in Evidence(scan) /\ i.path = f /\ i.version = EntryAt(L, h, k).version
  BY <1>1 DEF Evidence, Captured
<1> HIDE DEF i
<1>3. i \in Copies(scan, i.item) /\ i.item \in items
  BY <1>2 DEF Copies
<1>4. Contradicted(files) = conflicts
      /\ Collect(files, NoCache).items = {First(Copies(scan, item)) : item \in items \ conflicts}
  BY DEF Contradicted, Collect, Coalesced
<1>5. i.item \in items \ conflicts
  BY <1>2, <1>3, <1>4
<1>6. first \in Copies(scan, i.item)
  BY <1>3, FirstIsCopy, EvidencePaths DEF Copies
<1>7. first.version = i.version
  BY <1>3, <1>5, <1>6 DEF Agree
<1> QED BY <1>2, <1>4, <1>5, <1>7

\* A published cursor never stands past an entry that the index does not hold.
THEOREM ProgressIsHeld == Spec => ProgressIsEvidence
<1>1. ASSUME CaptureInv, Publish, NEW f \in File, index'.cursors[f] # index.cursors[f]
      PROVE  Held(f, index'.cursors[f], index')
  <2> DEFINE captured == Collect(disk, NoCache)
             scan == Scans(disk, NoCache)
             L == disk[f].lines
             after == CursorAfter(disk[f], scan[f])
             paused == {i.path : i \in UNION {Copies(scan, item) : item \in Contradicted(disk)}}
  <2>1. DiskOK(disk) /\ ScopeOK /\ Collect(disk, cache) = captured
    BY <1>1, CollectIsFull DEF CaptureInv
  <2>2. /\ index'.cursors[f] = captured.cursors[f] /\ captured.cursors[f] # None
        /\ {i.version : i \in captured.items} \subseteq index'.bodies
    BY <1>1, <2>1 DEF Publish
  <2>3. /\ f \in DOMAIN scan /\ scan[f].phase # "unrelated"
        /\ \/ f \in paused /\ captured.cursors[f] = Paused(after)
           \/ f \notin paused /\ captured.cursors[f] = after
    BY <2>2 DEF Collect, Coalesced, Contradicted
  <2>4. disk[f] # None /\ disk[f] \in FileState(f) /\ scan[f] = Scan(disk[f], NoCache)
    BY <2>1, <2>3 DEF DiskOK, Scans
  <2>5. Paused(after).offset = 0 /\ after.offset = scan[f].offset
    BY DEF Paused, CursorAfter
  <2>6. CASE index'.cursors[f].offset = 0
    BY <2>6 DEF Held
  <2>7. CASE index'.cursors[f].offset # 0
    <3>1. f \notin paused /\ index'.cursors[f].offset = scan[f].offset /\ scan[f].offset # 0
      BY <2>2, <2>3, <2>5, <2>7
    <3>2. Ended(disk[f], scan[f])
      BY <2>1, <2>4, ScanEnds DEF FileState
    <3>3. PICK h, j \in 1 .. Len(L) :
             /\ h <= j /\ Opens(L, h) /\ Taken(L, h, j)
             /\ scan[f].offset = j /\ scan[f].items = ItemsIn(disk[f].path, L, h, j)
      BY <3>1, <3>2, OffsetIsTaken
    <3>4. L \in Seq(Line) /\ Len(L) \in Nat /\ disk[f].path = f
      BY <2>4 DEF FileState
    <3>5. SUFFICES ASSUME NEW k \in 1 .. j, L[k].t = "entry"
          PROVE  LET header == L[CHOOSE i \in 1 .. k : L[i].t = "header"]
                     version == Version(Session(header), L[k])
                 IN Excluded(version.item, version.text) \/ version \in index'.bodies
      BY <3>1, <3>3 DEF Held
    <3>6. k \in h + 1 .. j /\ j \in h .. Len(L) /\ L[CHOOSE i \in 1 .. k : L[i].t = "header"] = L[h]
      <4>1. j \in h .. Len(L) /\ HeaderAt(L, h) /\ Taken(L, h, j)
        BY <3>3, <3>4 DEF Opens
      <4>2. h < k /\ L[CHOOSE i \in 1 .. k : L[i].t = "header"] = L[h]
        BY <3>4, <3>5, <4>1, OneHeader
      <4> QED BY <3>3, <3>4, <4>1, <4>2
    <3> DEFINE version == Version(Session(L[h]), L[k])
    <3>7. CASE Excluded(version.item, L[k].text)
      BY <3>6, <3>7 DEF Version
    <3>8. CASE ~Excluded(version.item, L[k].text)
      <4>1. EntryAt(L, h, k).state = "retained" /\ EntryAt(L, h, k).version = version
        BY <3>5, <3>8 DEF EntryAt, Entry
      <4>2. \A item \in Contradicted(disk) : \A i \in Copies(scan, item) : i.path # f
        BY <3>1
      <4>3. \E i \in captured.items : i.version = version
        BY <2>1, <2>4, <3>3, <3>4, <3>6, <4>1, <4>2, CapturedBefore
      <4> QED BY <2>2, <3>6, <4>3
    <3> QED BY <3>7, <3>8
  <2> QED BY <2>6, <2>7
<1>2. CaptureInv /\ [Next]_vars =>
        [Publish => \A f \in File : index'.cursors[f] # index.cursors[f]
                                        => Held(f, index'.cursors[f], index')]_vars
  BY <1>1
<1> QED BY <1>2, CaptureInvariant, PTL DEF Spec, ProgressIsEvidence

----------------------------------------------------------------------------
(* The database of OpenCode *)

SessionTable == [1 .. Sessions -> SessionState]
PartTable == [Part -> RowState]

TablesOK == sessions \in SessionTable /\ rows \in PartTable

\* Items and their inventory were read together.
ReadFrom(inventory, items) ==
    \E ss \in SessionTable, rs \in PartTable :
        inventory = Inventory(ss, rs) /\ items = Items(ss, rs)

NewestOK == newest # Nothing => ReadFrom(newest.hash.inventory, newest.items)

SnapshotOK ==
    scanAt \in {"verify", "commit"} =>
        /\ ReadFrom(snapshot.inventory, snapshot.items)
        /\ snapshot.hash.inventory = snapshot.inventory

\* The history variables follow the database while a command runs, which has
\* not answered yet.
HistoryOK ==
    scanAt # "idle" =>
        /\ Items(sessions, rows) \in true
        /\ ~broken => Malformed(sessions, rows) = {}
        /\ served = Nothing

OpenCodeInv == TablesOK /\ NewestOK /\ SnapshotOK /\ HistoryOK /\ ScanWasTrue

USE SessionsAssumption, PartsAssumption, MaxRowEditsAssumption, NothingAssumption

----------------------------------------------------------------------------

LEMMA InventoryIsRecord ==
    ASSUME NEW ss \in SessionTable, NEW rs \in PartTable, Malformed(ss, rs) = {}
    PROVE  Inventory(ss, rs) # Nothing
<1> DEFINE D == {q \in Part : Scanned(ss, q)}
<1>1. Inventory(ss, rs) = [sessions |-> ss, parts |-> [p \in D |-> rs[p]]]
  BY DEF Inventory
<1>2. [p \in D |-> rs[p]] \in [D -> RowState] /\ D \in SUBSET Part
  BY DEF PartTable
<1> HIDE DEF D
<1>3. [sessions |-> ss, parts |-> [p \in D |-> rs[p]]]
         \in [sessions : SessionTable, parts : UNION {[E -> RowState] : E \in SUBSET Part}]
  BY <1>2
<1> QED BY <1>1, <1>3 DEF SessionTable

\* Two scans with the same inventory, one of which met nothing malformed, made
\* the same items.
LEMMA SameInventory ==
    ASSUME NEW ss \in SessionTable, NEW rs \in PartTable,
           NEW tt \in SessionTable, NEW us \in PartTable,
           Malformed(tt, us) = {}, Inventory(ss, rs) = Inventory(tt, us)
    PROVE  Items(ss, rs) = Items(tt, us)
<1>1. Malformed(ss, rs) = {}
  BY InventoryIsRecord DEF Inventory
<1> DEFINE D(x) == {q \in Part : Scanned(x, q)}
           f(x, y) == [p \in D(x) |-> y[p]]
<1>2. [sessions |-> ss, parts |-> f(ss, rs)] = [sessions |-> tt, parts |-> f(tt, us)]
  BY <1>1 DEF Inventory
<1> HIDE DEF f
<1>3. ss = tt /\ f(ss, rs) = f(tt, us)
  <2>1. [sessions |-> ss, parts |-> f(ss, rs)].sessions
          = [sessions |-> tt, parts |-> f(tt, us)].sessions
    BY <1>2
  <2>2. [sessions |-> ss, parts |-> f(ss, rs)].parts
          = [sessions |-> tt, parts |-> f(tt, us)].parts
    BY <1>2
  <2> QED BY <2>1, <2>2
<1>4. \A q \in Part : Scanned(ss, q) => rs[q] = us[q]
  <2> SUFFICES ASSUME NEW q \in Part, Scanned(ss, q)
               PROVE  rs[q] = us[q]
    OBVIOUS
  <2>1. f(ss, rs)[q] = rs[q] /\ f(tt, us)[q] = us[q]
    BY <1>3 DEF f
  <2> QED BY <1>3, <2>1
<1> DEFINE Kept(x, y) == {q \in Part : Scanned(x, q) /\ y[q].s = "part"}
<1>5. Kept(ss, rs) = Kept(tt, us)
  BY <1>3, <1>4
<1>6. /\ Items(ss, rs) = {[part |-> p, data |-> rs[p].data] : p \in Kept(ss, rs)}
      /\ Items(tt, us) = {[part |-> p, data |-> us[p].data] : p \in Kept(tt, us)}
  BY <1>1 DEF Items
<1>7. \A p \in Kept(ss, rs) : rs[p].data = us[p].data
  BY <1>4
<1> HIDE DEF Kept
<1> QED BY <1>5, <1>6, <1>7

\* What was read together with the present inventory is true now.
LEMMA ReadNow ==
    ASSUME TablesOK, Malformed(sessions, rows) = {},
           NEW items, ReadFrom(Inventory(sessions, rows), items)
    PROVE  items = Items(sessions, rows)
<1> PICK ss \in SessionTable, rs \in PartTable :
        Inventory(sessions, rows) = Inventory(ss, rs) /\ items = Items(ss, rs)
  BY DEF ReadFrom
<1> QED BY SameInventory DEF TablesOK

LEMMA OpenCodeStart == OpenCodeInit => OpenCodeInv
<1> SUFFICES ASSUME OpenCodeInit PROVE OpenCodeInv
  OBVIOUS
<1>1. TablesOK
  BY DEF OpenCodeInit, TablesOK, SessionTable, PartTable, SessionState, RowState
<1> QED BY <1>1 DEF OpenCodeInit, OpenCodeInv, NewestOK, SnapshotOK, HistoryOK, ScanWasTrue,
                    ServedWasTrue

LEMMA EditStep ==
    ASSUME OpenCodeInv, EditDatabase
    PROVE  OpenCodeInv'
<1> USE DEF OpenCodeInv
<1>1. TablesOK'
  BY DEF EditDatabase, TablesOK, SessionTable, PartTable
<1>2. UNCHANGED <<stored, newest, scanAt, attempt, snapshot, served>>
  BY DEF EditDatabase
<1>3. (NewestOK /\ SnapshotOK)'
  BY <1>2 DEF NewestOK, SnapshotOK
<1>4. CASE scanAt = "idle"
  <2>1. UNCHANGED <<true, broken>>
    BY <1>4 DEF EditDatabase
  <2> QED BY <1>1, <1>2, <1>3, <1>4, <2>1 DEF HistoryOK, ScanWasTrue, ServedWasTrue
<1>5. CASE scanAt # "idle"
  <2>1. /\ true' = true \cup {Items(sessions', rows')}
        /\ broken' = (broken \/ Malformed(sessions', rows') # {})
    BY <1>5 DEF EditDatabase
  <2>2. HistoryOK'
    BY <1>2, <1>5, <2>1 DEF HistoryOK, Items, Malformed
  <2>3. ScanWasTrue'
    BY <1>2, <1>5 DEF HistoryOK, ScanWasTrue, ServedWasTrue
  <2> QED BY <1>1, <1>3, <2>2, <2>3
<1> QED BY <1>4, <1>5

LEMMA LoseStep ==
    ASSUME OpenCodeInv, LoseStored \/ BeginScan \/ ScanDies
    PROVE  OpenCodeInv'
<1> USE DEF OpenCodeInv
<1>1. CASE LoseStored
  BY <1>1 DEF LoseStored, database, TablesOK, NewestOK, SnapshotOK, HistoryOK, ScanWasTrue,
              ServedWasTrue
<1>2. CASE BeginScan
  <2>1. TablesOK' /\ NewestOK' /\ SnapshotOK'
    BY <1>2 DEF BeginScan, database, TablesOK, NewestOK, SnapshotOK
  <2>2. HistoryOK' /\ ScanWasTrue'
    BY <1>2 DEF BeginScan, database, HistoryOK, ScanWasTrue, ServedWasTrue, Items, Malformed
  <2> QED BY <2>1, <2>2
<1>3. CASE ScanDies
  BY <1>3 DEF ScanDies, database, TablesOK, NewestOK, SnapshotOK, HistoryOK, ScanWasTrue,
              ServedWasTrue
<1> QED BY <1>1, <1>2, <1>3

LEMMA ScanIsRead ==
    ASSUME TablesOK
    PROVE  /\ ReadFrom(DatabaseScan.inventory, DatabaseScan.items)
           /\ DatabaseScan.hash.inventory = Inventory(sessions, rows)
           /\ DatabaseScan.inventory = Inventory(sessions, rows)
  BY DEF ReadFrom, DatabaseScan, TablesOK, InputsHash

\* A view that is current with one pass has the inventory of that pass.
LEMMA FirstPassStep ==
    ASSUME OpenCodeInv, FirstPass
    PROVE  OpenCodeInv'
<1> USE DEF OpenCodeInv
<1>1. UNCHANGED <<sessions, rows, newest, true, broken>> /\ scanAt = "scan"
  BY DEF FirstPass, database
<1>2. TablesOK' /\ NewestOK'
  BY <1>1 DEF TablesOK, NewestOK
<1>3. CASE IsCurrent(DatabaseScan)
  <2>1. scanAt' = "idle" /\ served' = newest.items
    BY <1>3 DEF FirstPass, AnswerWith
  <2>2. ReadFrom(Inventory(sessions, rows), newest.items)
    BY <1>3, ScanIsRead DEF IsCurrent, NewestOK
  <2>3. ~broken => newest.items = Items(sessions, rows)
    BY <1>1, <2>2, ReadNow DEF HistoryOK
  <2>4. ScanWasTrue'
    BY <1>1, <2>1, <2>3 DEF ScanWasTrue, ServedWasTrue, HistoryOK
  <2> QED BY <1>2, <2>1, <2>4 DEF SnapshotOK, HistoryOK
<1>4. CASE ~IsCurrent(DatabaseScan)
  <2>1. scanAt' = "verify" /\ snapshot' = DatabaseScan /\ served' = served
    BY <1>4 DEF FirstPass
  <2>2. SnapshotOK'
    BY <2>1, ScanIsRead DEF SnapshotOK
  <2>3. HistoryOK' /\ ScanWasTrue'
    BY <1>1, <2>1 DEF HistoryOK, ScanWasTrue, ServedWasTrue, Items, Malformed
  <2> QED BY <1>2, <2>2, <2>3
<1> QED BY <1>3, <1>4

\* The second pass only decides whether to go on.
LEMMA SecondPassStep ==
    ASSUME OpenCodeInv, SecondPass
    PROVE  OpenCodeInv'
<1> USE DEF OpenCodeInv
<1>1. /\ UNCHANGED <<sessions, rows, newest, true, broken, served>> /\ scanAt = "verify"
      /\ \/ scanAt' = "commit" /\ snapshot' = snapshot
         \/ scanAt' \in {"scan", "idle"}
  BY DEF SecondPass, Again, database
<1>2. TablesOK' /\ NewestOK' /\ SnapshotOK'
  BY <1>1 DEF TablesOK, NewestOK, SnapshotOK
<1>3. HistoryOK' /\ ScanWasTrue'
  BY <1>1 DEF HistoryOK, ScanWasTrue, ServedWasTrue, Items, Malformed
<1> QED BY <1>2, <1>3

\* The guard compares the inventory with the database of that moment.
LEMMA CommitStep ==
    ASSUME OpenCodeInv, Commit
    PROVE  OpenCodeInv'
<1> USE DEF OpenCodeInv
<1>1. UNCHANGED <<sessions, rows, true, broken>> /\ scanAt = "commit"
  BY DEF Commit, database
<1>2. TablesOK'
  BY <1>1 DEF TablesOK
<1>3. CASE DatabaseScan.inventory = snapshot.inventory
  <2>1. /\ newest' = [hash |-> snapshot.hash, items |-> snapshot.items]
        /\ served' = snapshot.items /\ scanAt' = "idle"
    BY <1>3 DEF Commit, AnswerWith
  <2>2. ReadFrom(Inventory(sessions, rows), snapshot.items)
    BY <1>1, <1>3, ScanIsRead DEF SnapshotOK
  <2>3. ~broken => snapshot.items = Items(sessions, rows)
    BY <1>1, <2>2, ReadNow DEF HistoryOK
  <2>4. ScanWasTrue'
    BY <1>1, <2>1, <2>3 DEF ScanWasTrue, ServedWasTrue, HistoryOK
  <2>5. SnapshotOK' /\ HistoryOK'
    BY <2>1 DEF SnapshotOK, HistoryOK
  <2>6. NewestOK'
    BY <1>1, <2>1 DEF NewestOK, SnapshotOK
  <2> QED BY <1>2, <2>4, <2>5, <2>6
<1>4. CASE DatabaseScan.inventory # snapshot.inventory
  <2>1. newest' = newest /\ served' = served /\ scanAt' \in {"scan", "idle"}
    BY <1>4 DEF Commit, Again
  <2>2. NewestOK' /\ SnapshotOK'
    BY <2>1 DEF NewestOK, SnapshotOK
  <2>3. HistoryOK' /\ ScanWasTrue'
    BY <1>1, <2>1 DEF HistoryOK, ScanWasTrue, ServedWasTrue, Items, Malformed
  <2> QED BY <1>2, <2>2, <2>3
<1> QED BY <1>3, <1>4

\* The invariant holds for any number of sessions and parts, contents and edits
\* (opencode.rs with the passes of reconcile.rs).
THEOREM OpenCodeInvariant == OpenCodeSpec => []OpenCodeInv
<1>1. OpenCodeInit => OpenCodeInv
  BY OpenCodeStart
<1>2. OpenCodeInv /\ [OpenCodeNext]_openCodeVars => OpenCodeInv'
  <2> SUFFICES ASSUME OpenCodeInv, [OpenCodeNext]_openCodeVars
               PROVE  OpenCodeInv'
    OBVIOUS
  <2>1. CASE UNCHANGED openCodeVars
    <3>1. /\ UNCHANGED <<sessions, rows, newest, scanAt, snapshot, served, true, broken>>
      BY <2>1 DEF openCodeVars, database
    <3> QED BY <3>1 DEF OpenCodeInv, TablesOK, NewestOK, SnapshotOK, HistoryOK, ScanWasTrue,
                        ServedWasTrue, Items, Malformed
  <2>2. CASE OpenCodeNext
    BY <2>2, EditStep, LoseStep, FirstPassStep, SecondPassStep, CommitStep DEF OpenCodeNext
  <2> QED BY <2>1, <2>2
<1> QED BY <1>1, <1>2, PTL DEF OpenCodeSpec

\* As long as no part is malformed, what a command answers is what the database
\* held at some moment while it ran (opencode.rs, reconcile.rs, publication.rs).
THEOREM ScansAreTrue == OpenCodeSpec => []ScanWasTrue
<1>1. OpenCodeInv => ScanWasTrue
  BY DEF OpenCodeInv
<1> QED BY <1>1, OpenCodeInvariant, PTL

----------------------------------------------------------------------------
(* The composition *)

\* What holds of one adapter alone holds of it in the composition, the specification
\* that is model-checked.
THEOREM AdaptersCompose == AdaptersSpec => Spec /\ OpenCodeSpec
<1>1. AdaptersInit => Init /\ OpenCodeInit
  BY DEF AdaptersInit
<1>2. [AdaptersNext]_<<subject, vars, openCodeVars>> => [Next]_vars /\ [OpenCodeNext]_openCodeVars
  BY DEF AdaptersNext, OfSessions, OfDatabase
<1> QED BY <1>1, <1>2, PTL DEF AdaptersSpec, Spec, OpenCodeSpec
=============================================================================
