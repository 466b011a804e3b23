------------------------------ MODULE Capture ------------------------------
(***************************************************************************)
(* Capture of append-only session files (JSONL).  A capture reads every    *)
(* file of a source from its start, or resumes after a prefix that an      *)
(* earlier capture has read: the manifest in the cursor of the file says   *)
(* what the prefix held, and the bodies of its records come from the       *)
(* index.  In between people and tools append to the files, truncate,      *)
(* rewrite, replace, copy and remove them, move worktrees, forget records, *)
(* upgrade memq, and the index may be lost.                                *)
(*                                                                         *)
(* A file is a sequence of lines and a flag that says whether the last one *)
(* is terminated; offsets are numbers of lines, and a hash is the content  *)
(* it is a hash of.  The files of one capture are read in one step: edits  *)
(* in between are the subject of module Reconcile.                         *)
(***************************************************************************)
EXTENDS Integers, FiniteSets, SequencesExt

CONSTANTS
    Kinds,      \* the adapters a source may have: "omp", "codex"
    Files,      \* the paths of a source in the order they are read
    Present,    \* the paths that exist at first
    Contents,   \* what a tool writes when it creates a file
    Lines,      \* the lines that tools append or write over others
    Cwds,       \* working directories of sessions
    RuleSets,   \* the sets of rules a command may load
    MaxLines,   \* bound on the length of a file
    MaxEdits,   \* bound on the number of edits
    None

Line == Lines \cup UNION {ToSet(content) : content \in Contents}

ASSUME KindsAssumption == Kinds \subseteq {"omp", "codex"}
ASSUME FilesAssumption == Files \in Seq(ToSet(Files))
ASSUME ContentsAssumption == Contents \subseteq Seq(Line)
ASSUME CwdsAssumption == \A line \in Line : line.t = "header" => line.cwd \in Cwds
ASSUME NoneAssumption == None \notin {"scope_unresolved", "capture_schema", "incomplete_tail"}

VARIABLES
    kind,       \* the adapter of the source, which never changes
    disk,       \* per path: [path, inode, lines, whole], or None
    scope,      \* per working directory: the worktree git finds there
    redaction,  \* the revision of the parsers and of redaction
    rules,      \* the rules of the running command
    forgotten,  \* the items that a rule has matched
    index,      \* the committed cursors and bodies
    cache,      \* the cursors and bodies given to the next pass
    edits
vars == <<kind, disk, scope, redaction, rules, forgotten, index, cache, edits>>

File == ToSet(Files)
Position(f) == CHOOSE n \in DOMAIN Files : Files[n] = f
Worktrees == {"here", "linked"}
NoCache == [cursors |-> [f \in File |-> None], bodies |-> {}]

(***************************************************************************)
(* Records                                                                 *)
(***************************************************************************)
Version(session, line) ==
    [item |-> <<session.id, line.id>>, text |-> line.text, redaction |-> redaction]

\* The recorded time of an entry is part of its text.
Excluded(item, text) ==
    \/ item \in forgotten
    \/ [item |-> item] \in rules
    \/ [time |-> text] \in rules

Session(header) == [id |-> header.session, cwd |-> header.cwd, worktree |-> scope[header.cwd]]

Captured(f, session, version, k) ==
    [item |-> version.item, version |-> version, worktree |-> session.worktree,
     path |-> f, line |-> k]

(***************************************************************************)
(* Reading a file from its start.  A scan is in its head until it has read *)
(* the session header, then in the body, and ends early when the session   *)
(* belongs to another repository or a line cannot be used.                 *)
(***************************************************************************)
FromStart ==
    [phase |-> "head", session |-> None, headerOrdinal |-> None, ordinal |-> None,
     ids |-> {}, items |-> {}, entries |-> <<>>, offset |-> 0, error |-> None]

\* A bug: a line that cannot be used rejects what came before it.
StopMutant(s, reason) == [s EXCEPT !.phase = "stopped", !.error = reason, !.items = {}]

Stop(s, reason) == [s EXCEPT !.phase = "stopped", !.error = reason]

Readable(line) == line.t \notin {"broken", "cut"}

\* Only the numbers of Codex are looked at.
HeaderOrdinal(header) == IF kind = "codex" THEN header.ordinal ELSE None

FollowHeader(s, header, k) ==
    CASE scope[header.cwd] = "unresolved" -> Stop(s, "scope_unresolved")
      [] scope[header.cwd] = "other"      -> [s EXCEPT !.phase = "unrelated"]
      [] scope[header.cwd] \in Worktrees ->
           [s EXCEPT !.phase = "body", !.session = Session(header), !.offset = k,
                     !.headerOrdinal = HeaderOrdinal(header),
                     !.ordinal = HeaderOrdinal(header)]

ReadHeader(s, line, k) ==
    CASE line.t = "header"                -> FollowHeader(s, line, k)
      [] line.t = "title" /\ kind = "omp" -> s
      [] OTHER                            -> Stop(s, "capture_schema")

\* Codex entries are numbered by the tool; the numbers of a file only grow.
KnownEntry(s, line) ==
    IF kind = "codex" THEN line.t = "entry" /\ line.id > s.ordinal
                      ELSE line.t \in {"entry", "pin"}

Entry(session, line, k) ==
    LET version == Version(session, line)
        excluded == Excluded(version.item, line.text)
    IN IF line.t = "pin"
       THEN [id |-> line.id, line |-> k, text |-> None, state |-> "pin", version |-> None]
       ELSE [id |-> line.id, line |-> k, text |-> line.text,
             state |-> IF excluded THEN "tombstoned" ELSE "retained",
             version |-> IF excluded THEN None ELSE version]

ReadEntry(file, s, line, k) ==
    LET entry == Entry(s.session, line, k)
        item == Captured(file.path, s.session, entry.version, k)
    IN IF ~KnownEntry(s, line) \/ line.id \in s.ids THEN Stop(s, "capture_schema")
       ELSE [s EXCEPT !.ids = @ \cup {line.id},
                      !.ordinal = IF kind = "codex" THEN line.id ELSE @,
                      !.items = IF entry.state = "retained" THEN @ \cup {item} ELSE @,
                      !.entries = Append(@, entry),
                      !.offset = k]

Advance(file, s, k) ==
    LET line == file.lines[k]
        last == k = Len(file.lines) /\ ~file.whole
    IN IF s.phase \in {"stopped", "unrelated"} THEN s
       ELSE IF ~Readable(line) THEN Stop(s, IF last THEN "incomplete_tail" ELSE "capture_schema")
       ELSE IF s.phase = "head" THEN ReadHeader(s, line, k)
       ELSE ReadEntry(file, s, line, k)

(***************************************************************************)
(* Resuming after a prefix.                                                *)
(***************************************************************************)
Binding(file) == [path |-> file.path, inode |-> file.inode, redaction |-> redaction]

Decoded(cursor) == cursor # None /\ cursor.complete /\ cursor.manifest # None

PrefixUnchanged(file, prefix) ==
    /\ IsPrefix(prefix, file.lines)
    /\ Len(prefix) < Len(file.lines) \/ file.whole

RestoredEntry(m, e) ==
    IF e.state # "pin" /\ Excluded(<<m.session.id, e.id>>, e.text)
    THEN [e EXCEPT !.state = "tombstoned", !.version = None] ELSE e

\* A bug: the scope in the manifest is taken for the present one.
CanRestoreMutant(m, c) ==
    \A e \in ToSet(m.entries) :
       \/ e.state = "pin"
       \/ Excluded(<<m.session.id, e.id>>, e.text)
       \/ e.state = "retained" /\ e.version \in c.bodies

CanRestore(m, c) ==
    /\ scope[m.session.cwd] = m.session.worktree
    /\ \A e \in ToSet(m.entries) :
          \/ e.state = "pin"
          \/ Excluded(<<m.session.id, e.id>>, e.text)
          \/ e.state = "retained" /\ e.version \in c.bodies

CanResume(file, c) ==
    /\ Decoded(c.cursors[file.path])
    /\ LET m == c.cursors[file.path].manifest IN
       /\ m.binding = Binding(file)
       /\ PrefixUnchanged(file, m.prefix)
       /\ CanRestore(m, c)

\* A bug: after a prefix, numbers are compared with that of the header.
LastOrdinalMutant(m) == m.headerOrdinal

LastOrdinal(m) ==
    IF kind = "codex" /\ m.entries # <<>> THEN Last(m.entries).id ELSE m.headerOrdinal

\* The state of a scan of the prefix of manifest m, without reading a record of it.
Resumed(file, m) ==
    LET entries == [n \in DOMAIN m.entries |-> RestoredEntry(m, m.entries[n])] IN
    [phase |-> "body", session |-> m.session, headerOrdinal |-> m.headerOrdinal,
     ordinal |-> LastOrdinal(m), ids |-> {e.id : e \in ToSet(entries)},
     items |-> {Captured(file.path, m.session, e.version, e.line) :
                   e \in {e \in ToSet(entries) : e.state = "retained"}},
     entries |-> entries, offset |-> Len(m.prefix), error |-> None]

\* What a scan knows after every line; nothing is known of the lines before the end
\* of a prefix it resumes after, and nothing depends on them.
Readings(file, c) ==
    LET m == c.cursors[file.path].manifest
        resumes == CanResume(file, c)
        after[k \in 0..Len(file.lines)] ==
            IF resumes /\ k = Len(m.prefix) THEN Resumed(file, m)
            ELSE IF k = 0 THEN FromStart
            ELSE Advance(file, after[k - 1], k)
    IN after

Scan(file, c) ==
    LET s == Readings(file, c)[Len(file.lines)]
    IN IF s.phase = "head" THEN Stop(s, "capture_schema") ELSE s

(***************************************************************************)
(* One pass over all files of the source.                                  *)
(***************************************************************************)
MayResume(file, s) == s.error = None /\ file.whole /\ s.offset = Len(file.lines)

Manifest(file, s) ==
    [binding |-> Binding(file), prefix |-> file.lines, session |-> s.session,
     headerOrdinal |-> s.headerOrdinal, entries |-> s.entries]

CursorAfter(file, s) ==
    [offset |-> s.offset, complete |-> s.error = None,
     manifest |-> IF MayResume(file, s) THEN Manifest(file, s) ELSE None]

\* A bug: a conflict leaves the progress of the file as it is.
PausedMutant(cursor) == cursor

\* A file whose records disagree with copies in other files is read again next time.
Paused(cursor) == [cursor EXCEPT !.offset = 0, !.complete = FALSE, !.manifest = None]

Witness(file, s) ==
    {<<file.path, "scope", session>> : session \in {s.session} \ {None}}
      \cup {<<file.path, "pin", e.id>> : e \in {e \in ToSet(s.entries) : e.state = "pin"}}
      \cup {IF s.phase = "unrelated" THEN <<file.path, "unrelated">>
            ELSE <<file.path, "bytes", file.lines, file.whole>>}

Agree(copies) == \A i, j \in copies : i.version = j.version /\ i.worktree = j.worktree

First(copies) ==
    CHOOSE i \in copies : \A j \in copies : Position(i.path) <= Position(j.path)

Scans(files, c) == [f \in {f \in File : files[f] # None} |-> Scan(files[f], c)]

Evidence(scan) == UNION {scan[f].items : f \in DOMAIN scan}

Copies(scan, item) == {i \in Evidence(scan) : i.item = item}

\* Copies of an item that differ are not captured, and their files are paused.
Coalesced(files, scan) ==
    LET items == {i.item : i \in Evidence(scan)}
        conflicts == {item \in items : ~Agree(Copies(scan, item))}
        paused == {i.path : i \in UNION {Copies(scan, item) : item \in conflicts}}
        read == {f \in DOMAIN scan : scan[f].phase # "unrelated"}
        cursor(f) == CASE f \notin read           -> None
                       [] f \in read \cap paused -> Paused(CursorAfter(files[f], scan[f]))
                       [] f \in read \ paused    -> CursorAfter(files[f], scan[f])
    IN [items     |-> {First(Copies(scan, item)) : item \in items \ conflicts},
        conflicts |-> conflicts,
        errors    |-> {<<f, scan[f].error>> : f \in {f \in read : scan[f].error # None}},
        cursors   |-> [f \in File |-> cursor(f)],
        inventory |-> UNION {Witness(files[f], scan[f]) : f \in DOMAIN scan}]

Collect(files, c) == Coalesced(files, Scans(files, c))

(***************************************************************************)
(* The cache                                                               *)
(***************************************************************************)
Referenced(cursors) ==
    {e.version : e \in UNION {{e \in ToSet(cursors[f].manifest.entries) : e.state = "retained"} :
                                 f \in {f \in File : Decoded(cursors[f])}}}

\* The cache a command starts with, from the index.
Loaded(ix, gone) ==
    [cursors |-> ix.cursors,
     bodies |-> {v \in ix.bodies \cap Referenced(ix.cursors) : v.item \notin gone}]

\* The cache for another pass of the same command, from what the last pass captured.
CacheInput(captured) ==
    [cursors |-> [f \in File |-> IF Decoded(captured.cursors[f]) THEN captured.cursors[f] ELSE None],
     bodies |-> {i.version : i \in captured.items} \cap Referenced(captured.cursors)]

(***************************************************************************)
(* The system                                                              *)
(***************************************************************************)
NewFile(f, content) == [path |-> f, inode |-> 0, lines |-> content, whole |-> TRUE]

Init ==
    /\ kind \in Kinds
    /\ \E content \in [Present -> Contents] :
          disk = [f \in File |-> IF f \in Present THEN NewFile(f, content[f]) ELSE None]
    /\ scope = [cwd \in Cwds |-> "here"]
    /\ redaction = 0
    /\ rules = {}
    /\ forgotten = {}
    /\ index = NoCache
    /\ cache = NoCache
    /\ edits = 0

Matched(R, bodies) ==
    {v.item : v \in {v \in bodies : [item |-> v.item] \in R \/ [time |-> v.text] \in R}}

\* A command opens the store, loads the rules of its branch, applies them to the
\* index, and loads the cache.
Begin(R) ==
    LET gone == forgotten \cup Matched(R, index.bodies) IN
    /\ rules' = R
    /\ forgotten' = gone
    /\ index' = [index EXCEPT !.bodies = {v \in @ : v.item \notin gone}]
    /\ cache' = Loaded(index', gone)
    /\ UNCHANGED <<kind, disk, scope, redaction, edits>>

\* A pass over the files whose result is only compared with another pass.
Pass ==
    /\ UNCHANGED <<kind, disk, scope, redaction, rules, forgotten, index, edits>>
    /\ cache' = CacheInput(Collect(disk, cache))

\* A pass whose result is published.
Publish ==
    LET captured == Collect(disk, cache) IN
    /\ UNCHANGED <<kind, disk, scope, redaction, rules, forgotten, edits>>
    /\ index' = [cursors |-> [f \in File |-> IF captured.cursors[f] = None
                                             THEN index.cursors[f] ELSE captured.cursors[f]],
                 bodies |-> index.bodies \cup {i.version : i \in captured.items}]
    /\ cache' = CacheInput(captured)

\* The index is damaged or rebuilt; what was forgotten is kept elsewhere.
LoseIndex ==
    /\ index' = NoCache
    /\ cache' = NoCache
    /\ UNCHANGED <<kind, disk, scope, redaction, rules, forgotten, edits>>

(***************************************************************************)
(* People and tools                                                        *)
(***************************************************************************)
Edit ==
    /\ edits < MaxEdits
    /\ edits' = edits + 1
    /\ UNCHANGED <<kind, rules, forgotten, index>>

EditFiles == Edit /\ UNCHANGED <<scope, redaction, cache>>

Create(f, content) ==
    /\ EditFiles
    /\ disk[f] = None
    /\ disk' = [disk EXCEPT ![f] = NewFile(f, content)]

\* A tool appends a record, in one write or up to somewhere in the middle.
AppendLine(f, line, whole) ==
    /\ EditFiles
    /\ disk[f] # None
    /\ disk[f].whole
    /\ Len(disk[f].lines) < MaxLines
    /\ line.t = "cut" => ~whole
    /\ disk' = [disk EXCEPT ![f].lines = Append(@, line), ![f].whole = whole]

FinishLine(f, line) ==
    /\ EditFiles
    /\ disk[f] # None
    /\ ~disk[f].whole
    /\ line.t # "cut"
    /\ Last(disk[f].lines).t # "cut" => line = Last(disk[f].lines)
    /\ disk' = [disk EXCEPT ![f].lines = Append(Front(@), line), ![f].whole = TRUE]

OverwriteLine(f, k, line) ==
    /\ EditFiles
    /\ disk[f] # None
    /\ k \in DOMAIN disk[f].lines
    /\ line.t # "cut"
    /\ disk' = [disk EXCEPT ![f].lines[k] = line, ![f].whole = TRUE]

Truncate(f, k) ==
    /\ EditFiles
    /\ disk[f] # None
    /\ k < Len(disk[f].lines)
    /\ disk' = [disk EXCEPT ![f].lines = SubSeq(@, 1, k), ![f].whole = TRUE]

\* The content of f is replaced by that of g, in a new file.
Copy(f, g) ==
    /\ EditFiles
    /\ f # g
    /\ disk[g] # None
    /\ disk' = [disk EXCEPT ![f] = [disk[g] EXCEPT !.path = f, !.inode =
                   IF disk[f] = None THEN 0 ELSE 1 - disk[f].inode]]

RemoveFile(f) ==
    /\ EditFiles
    /\ disk[f] # None
    /\ disk' = [disk EXCEPT ![f] = None]

\* Git finds another worktree, another repository or none at a directory.
Move(cwd, found) ==
    /\ Edit
    /\ scope[cwd] # found
    /\ scope' = [scope EXCEPT ![cwd] = found]
    /\ UNCHANGED <<kind, disk, redaction, cache>>

\* memq is upgraded; the next command is a new process.
Upgrade ==
    /\ Edit
    /\ redaction = 0
    /\ redaction' = 1
    /\ cache' = Loaded(index, forgotten)
    /\ UNCHANGED <<kind, disk, scope>>

Next ==
    \/ \E R \in RuleSets : Begin(R)
    \/ Pass
    \/ Publish
    \/ LoseIndex
    \/ \E f \in File, content \in Contents : Create(f, content)
    \/ \E f \in File, line \in Lines, whole \in BOOLEAN : AppendLine(f, line, whole)
    \/ \E f \in File, line \in Lines : FinishLine(f, line)
    \/ \E f \in File, k \in 1..MaxLines, line \in Lines : OverwriteLine(f, k, line)
    \/ \E f \in File, k \in 0..MaxLines : Truncate(f, k)
    \/ \E f, g \in File : Copy(f, g)
    \/ \E f \in File : RemoveFile(f)
    \/ \E cwd \in Cwds, found \in Worktrees \cup {"other", "unresolved"} : Move(cwd, found)
    \/ Upgrade

Spec == Init /\ [][Next]_vars

(***************************************************************************)
(* Properties                                                              *)
(***************************************************************************)
\* The variables have their types: cursors and manifests never point past what a
\* file could hold, and bodies are of records that were in a file (jsonl_cache.rs).
TypeOK ==
    LET cursorOK(c) ==
            \/ c = None
            \/ /\ c.offset \in 0..MaxLines
               /\ c.complete \in BOOLEAN
               /\ c.manifest = None \/ Len(c.manifest.prefix) = c.offset
        bodiesOK(S) == \A v \in S : v.redaction \in 0..redaction
    IN /\ kind \in Kinds
       /\ \A f \in File : \/ disk[f] = None
                          \/ /\ disk[f].inode \in {0, 1}
                             /\ Len(disk[f].lines) <= MaxLines
                             /\ disk[f].whole \in BOOLEAN
       /\ scope \in [Cwds -> Worktrees \cup {"other", "unresolved"}]
       /\ redaction \in {0, 1}
       /\ rules \in RuleSets
       /\ \A c \in {index, cache} : bodiesOK(c.bodies) /\ \A f \in File : cursorOK(c.cursors[f])
       /\ edits \in 0..MaxEdits

\* Whatever happened to the files, the index, the rules and the worktrees since the
\* cache was made, a pass that resumes captures exactly what a pass that reads every
\* file from its start would: items, conflicts, errors, cursors and inventory.
IncrementalIsFull == Collect(disk, cache) = Collect(disk, NoCache)

\* A published cursor never stands past an entry that the index does not hold: each
\* one is stored, excluded by a rule, or was never evidence (jsonl.rs, coalesce).
Held(f, c, ix) ==
    \A k \in 1..c.offset :
       disk[f].lines[k].t = "entry" =>
          LET header == disk[f].lines[CHOOSE h \in 1..k : disk[f].lines[h].t = "header"]
              version == Version(Session(header), disk[f].lines[k])
          IN Excluded(version.item, version.text) \/ version \in ix.bodies

ProgressIsEvidence ==
    [][Publish => \A f \in File : index'.cursors[f] # index.cursors[f]
                                     => Held(f, index'.cursors[f], index')]_vars

Capturable(files) == {i.item : i \in Collect(files, NoCache).items}
Contradicted(files) == Collect(files, NoCache).conflicts
Grows(f) ==
    /\ disk[f] # None /\ disk'[f] # None
    /\ disk[f].whole
    /\ disk' = [disk EXCEPT ![f].lines = disk'[f].lines, ![f].whole = disk'[f].whole]
    /\ IsStrictPrefix(disk[f].lines, disk'[f].lines)

\* Appending to a session file, be it half a record or one that cannot be read, never
\* takes away what could be captured before, unless a new copy contradicts it.
AppendKeeps ==
    [][(\E f \in File : Grows(f)) =>
         Capturable(disk) \subseteq Capturable(disk') \cup Contradicted(disk')]_vars
=============================================================================
