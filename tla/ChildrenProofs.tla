--------------------------- MODULE ChildrenProofs ---------------------------
(***************************************************************************)
(* Proofs about the child processes of memq.  Module Process: output that  *)
(* is returned is whole, and no member of the group is left.  Module       *)
(* Remote: a remembered tip was upstream.  Module Embed: vectors belong to *)
(* their versions, and none is stored for what was forgotten.              *)
(***************************************************************************)
EXTENDS Children, FiniteSetTheorems, TLAPS


----------------------------------------------------------------------------
(* The bounded child process *)

\* What the processes wrote is with the reader or in the pipe.  A reader that
\* ended has its bound or left nothing in the pipe, to which nobody writes any
\* more.
PipeOK ==
    /\ written = got + outPipe
    /\ "reader" \notin threads => got = Limit + 1 \/ outPipe = 0

\* Output is only returned below the bound, when the reader has ended.
AnswerOK ==
    answer = "output" => callAt = "returned" /\ "reader" \notin threads /\ got <= Limit

ProcessInv == ProcessTypeOK /\ PipeOK /\ AnswerOK /\ NothingLeft

USE LimitAssumption, ErrLimitAssumption, InputAssumption, PipeAssumption, OutMaxAssumption

----------------------------------------------------------------------------

LEMMA ProcessStart == ProcessInit => ProcessInv
<1> SUFFICES ASSUME ProcessInit PROVE ProcessInv
  OBVIOUS
<1>1. ProcessTypeOK
  <2>1. timedOut \in BOOLEAN
    BY DEF ProcessInit
  <2>2. /\ inPipe \in 0 .. PipeSize /\ fed \in 0 .. InputSize
        /\ outPipe \in 0 .. PipeSize /\ got \in 0 .. Limit + 1 /\ written \in 0 .. OutMax
        /\ errPipe \in 0 .. PipeSize /\ drained \in 0 .. ErrLimit /\ complained \in 0 .. OutMax
    BY DEF ProcessInit
  <2>3. alive \subseteq started /\ started \subseteq Proc /\ threads \subseteq Thread
    BY DEF ProcessInit
  <2> QED BY <2>1, <2>2, <2>3 DEF ProcessInit, ProcessTypeOK
<1>2. PipeOK /\ AnswerOK
  BY DEF ProcessInit, PipeOK, AnswerOK
<1>3. NothingLeft
  BY DEF ProcessInit, NothingLeft, Thread
<1> QED BY <1>1, <1>2, <1>3 DEF ProcessInv

\* The caller moves no byte, and starts joining the threads only after the
\* second kill.
LEMMA CallerStep == ProcessInv /\ callAt # "returned" /\ Caller => ProcessInv'
<1> SUFFICES ASSUME ProcessInv, callAt # "returned", Caller
             PROVE  ProcessInv'
  OBVIOUS
<1> USE DEF ProcessInv, ProcessTypeOK, PipeOK, AnswerOK, NothingLeft, Thread, Proc, Group, pipes
<1>1. CASE SpawnFails
  BY <1>1 DEF SpawnFails
<1>2. CASE Spawn
  BY <1>2 DEF Spawn
<1>3. CASE PollExited
  BY <1>3 DEF PollExited
<1>4. CASE Timeout
  BY <1>4 DEF Timeout, Killed
<1>5. CASE Sweep
  BY <1>5 DEF Sweep, Killed
<1>6. CASE Join
  <2>1. CASE JoinOf("writer", "errors") /\ UNCHANGED answer
    BY <2>1 DEF JoinOf
  <2>2. CASE JoinOf("errors", "reader") /\ UNCHANGED answer
    BY <2>2 DEF JoinOf
  <2>3. CASE /\ JoinOf("reader", "returned")
             /\ answer' = IF got > Limit THEN "error" ELSE "output"
    BY <2>3 DEF JoinOf
  <2> QED BY <1>6, <2>1, <2>2, <2>3 DEF Join
<1> QED BY <1>1, <1>2, <1>3, <1>4, <1>5, <1>6 DEF Caller

\* A byte the reader takes leaves the pipe; a reader ends only at its bound or
\* when there is nothing left.
LEMMA ServeStep == ProcessInv /\ callAt # "returned" /\ Serve => ProcessInv'
<1> SUFFICES ASSUME ProcessInv, callAt # "returned", Serve
             PROVE  ProcessInv'
  OBVIOUS
<1> USE DEF ProcessInv, ProcessTypeOK, PipeOK, AnswerOK, NothingLeft, Thread, Proc, Group, pipes
<1>1. CASE WriterFeeds
  BY <1>1 DEF WriterFeeds
<1>2. CASE ReaderTakes
  BY <1>2 DEF ReaderTakes, ReadBound
<1>3. CASE ErrorsDrain
  BY <1>3 DEF ErrorsDrain
<1>4. ASSUME NEW thread \in Thread, ThreadEnds(thread)
      PROVE  ProcessInv'
  BY <1>4 DEF ThreadEnds, HasEnded, ReadBound
<1> QED BY <1>1, <1>2, <1>3, <1>4 DEF Serve

\* Only a member of the group starts another member; nobody writes to a pipe
\* that has no reader.
LEMMA ChildrenStep == ProcessInv /\ callAt # "returned" /\ Children => ProcessInv'
<1> SUFFICES ASSUME ProcessInv, callAt # "returned", Children
             PROVE  ProcessInv'
  OBVIOUS
<1> USE DEF ProcessInv, ProcessTypeOK, PipeOK, AnswerOK, NothingLeft, Thread, Proc, Group, pipes
<1>1. ASSUME NEW p \in {"kin", "stray"}, Fork(p)
      PROVE  ProcessInv'
  BY <1>1 DEF Fork
<1>2. CASE Consume
  BY <1>2 DEF Consume
<1>3. CASE WriteOut
  BY <1>3 DEF WriteOut
<1>4. CASE WriteErr
  BY <1>4 DEF WriteErr
<1>5. ASSUME NEW p \in Proc, End(p)
      PROVE  ProcessInv'
  BY <1>5 DEF End
<1> QED BY <1>1, <1>2, <1>3, <1>4, <1>5 DEF Children

\* The invariant of the child, its pipes and its caller holds for every limit
\* and every size of a pipe (process.rs, bounded).
THEOREM ProcessInvariant == ProcessSpec => []ProcessInv
<1>1. ProcessInit => ProcessInv
  BY ProcessStart
<1>2. ProcessInv /\ [ProcessNext]_processVars => ProcessInv'
  <2> SUFFICES ASSUME ProcessInv, [ProcessNext]_processVars
               PROVE  ProcessInv'
    OBVIOUS
  <2>1. CASE UNCHANGED processVars
    BY <2>1 DEF processVars, pipes, ProcessInv, ProcessTypeOK, PipeOK, AnswerOK, NothingLeft
  <2>2. CASE ProcessNext
    BY <2>2, CallerStep, ServeStep, ChildrenStep DEF ProcessNext
  <2> QED BY <2>1, <2>2
<1> QED BY <1>1, <1>2, PTL DEF ProcessSpec

\* Output that is returned is all the output there was, whatever the child and
\* its descendants did and when the time was up (process.rs, bounded).
THEOREM OutputWhole == ProcessSpec => []OutputIsWhole
<1>1. ProcessInv => OutputIsWhole
  BY DEF ProcessInv, ProcessTypeOK, PipeOK, AnswerOK, OutputIsWhole
<1> QED BY <1>1, ProcessInvariant, PTL

\* No member of the group is left while the caller joins its threads
\* (process.rs, the second kill).
THEOREM GroupGone == ProcessSpec => []NothingLeft
<1>1. ProcessInv => NothingLeft
  BY DEF ProcessInv
<1> QED BY <1>1, ProcessInvariant, PTL

----------------------------------------------------------------------------
(* The fetch of the remote branch *)

\* The tip is one the branch of u pointed to when it had moved from..upto times.
WasTip(tip, u, from, upto) == tip # NoTip => tip[1] = u /\ tip[2] \in from .. upto

RowTrue(r, u) == r.undisturbed => WasTip(r.tip, u, r.since, upstream[u])

\* Between commands there is no fetch of a command, and nothing disturbs it.
IdleOK ==
    /\ observeAt # "fetching" => fetches["own"].at = "none"
    /\ observeAt = "idle" => ~disturbed

\* A command that nothing disturbs works for the configured url and alone.
AloneOK ==
    observeAt # "idle" /\ ~disturbed =>
        /\ url = scope
        /\ fetches["orphan"].at = "none"

SinceOK == observeAt # "idle" => \A u \in Url : since[u] <= upstream[u]

\* What its fetch read, and then the ref, is a tip from after it began.
FetchTrue ==
    ~disturbed =>
        /\ observeAt = "fetching" /\ fetches["own"].at \in {"read", "moved"} =>
              /\ fetches["own"].tip # NoTip
              /\ WasTip(fetches["own"].tip, scope, since[scope], upstream[scope])
        /\ observeAt = "fetching" /\ fetches["own"].at = "moved" => ref = fetches["own"].tip
        /\ observeAt = "succeeded" => WasTip(ref, scope, since[scope], upstream[scope])

RowsTrue == \A u \in Url : RowTrue(rows[u], u)

\* So is what a failed attempt would keep.
KeptTrue == observeAt # "idle" => RowTrue(row, scope)

RemoteInv ==
    RemoteTypeOK /\ IdleOK /\ AloneOK /\ SinceOK /\ FetchTrue /\ RowsTrue /\ KeptTrue

USE MinIntervalAssumption, MaxNowAssumption, MaxMovesAssumption, MaxTurnsAssumption,
    NoTipAssumption

----------------------------------------------------------------------------

LEMMA RemoteStart == RemoteInit => RemoteInv
<1> SUFFICES ASSUME RemoteInit PROVE RemoteInv
  OBVIOUS
<1>1. Unknown \in Row /\ NoFetch \in Fetch
  BY DEF Unknown, Row, NoFetch, Fetch, TipOrNone
<1>2. RemoteTypeOK
  <2>1. /\ upstream \in [Url -> 0 .. MaxMoves] /\ since \in [Url -> 0 .. MaxMoves]
        /\ clock \in 0 .. MaxNow /\ now \in 0 .. MaxNow /\ turns \in 0 .. MaxTurns
    BY DEF RemoteInit
  <2>2. unsafePush \in BOOLEAN /\ disturbed \in BOOLEAN
    BY DEF RemoteInit
  <2>3. /\ rows \in [Url -> Row] /\ row \in Row /\ fetches \in [Slot -> Fetch]
        /\ ref \in TipOrNone
    BY <1>1 DEF RemoteInit, TipOrNone
  <2> QED BY <2>1, <2>2, <2>3 DEF RemoteInit, RemoteTypeOK
<1>3. IdleOK /\ AloneOK /\ SinceOK /\ FetchTrue /\ KeptTrue
  <2>1. fetches["own"].at = "none"
    BY DEF RemoteInit, Slot, NoFetch
  <2>2. ~disturbed /\ observeAt = "idle"
    BY DEF RemoteInit
  <2> QED BY <2>1, <2>2 DEF IdleOK, AloneOK, SinceOK, FetchTrue, KeptTrue
<1>4. RowsTrue
  BY DEF RemoteInit, RowsTrue, RowTrue, WasTip, Unknown
<1> QED BY <1>2, <1>3, <1>4 DEF RemoteInv

\* A branch only moves forward.
LEMMA TipLasts ==
    ASSUME NEW tip, NEW u, NEW from \in Nat, NEW upto \in Nat, NEW later \in Nat,
           upto <= later, WasTip(tip, u, from, upto)
    PROVE  WasTip(tip, u, from, later)
  BY DEF WasTip

LEMMA PushStep ==
    ASSUME RemoteInv, NEW u \in Url, Push(u)
    PROVE  RemoteInv'
<1> USE DEF RemoteInv, Push, command
<1>1. upstream' \in [Url -> 0 .. MaxMoves] /\ \A v \in Url : upstream[v] <= upstream'[v]
  BY DEF RemoteTypeOK
<1>2. RemoteTypeOK'
  BY <1>1 DEF RemoteTypeOK
<1>3. (IdleOK /\ AloneOK)'
  BY DEF IdleOK, AloneOK
<1>4. SinceOK'
  BY <1>1 DEF SinceOK, RemoteTypeOK
<1>5. ASSUME NEW r \in Row, NEW v \in Url, RowTrue(r, v)
      PROVE  RowTrue(r, v)'
  BY <1>1, <1>5 DEF RowTrue, WasTip, Row, RemoteTypeOK
<1>6. RowsTrue'
  BY <1>5 DEF RowsTrue, RemoteTypeOK
<1>7. KeptTrue'
  BY <1>5 DEF KeptTrue, RemoteTypeOK
<1>8. FetchTrue'
  <2>1. ASSUME NEW tip, WasTip(tip, scope, since[scope], upstream[scope])
        PROVE  WasTip(tip, scope, since[scope], upstream'[scope])
    BY <1>1, <2>1, TipLasts DEF RemoteTypeOK
  <2> QED BY <2>1 DEF FetchTrue
<1> QED BY <1>2, <1>3, <1>4, <1>6, <1>7, <1>8

LEMMA ReconfigureStep ==
    ASSUME RemoteInv, Tick \/ Reconfigure
    PROVE  RemoteInv'
<1> USE DEF RemoteInv
<1>1. /\ UNCHANGED <<upstream, ref, rows, fetches, observeAt, scope, row, now, since>>
      /\ (disturbed' = disturbed /\ url' = url) \/ disturbed' = (observeAt # "idle")
  BY DEF Tick, Reconfigure, command
<1>2. RemoteTypeOK'
  <2>1. clock' \in 0 .. MaxNow /\ turns' \in 0 .. MaxTurns
    BY DEF Tick, Reconfigure, RemoteTypeOK
  <2>2. unsafePush' \in BOOLEAN /\ disturbed' \in BOOLEAN
    BY DEF Tick, Reconfigure, RemoteTypeOK, command
  <2>3. url' \in Url
    BY DEF Tick, Reconfigure, RemoteTypeOK, command
  <2> QED BY <1>1, <2>1, <2>2, <2>3 DEF RemoteTypeOK
<1>3. (IdleOK /\ AloneOK)'
  <2>1. observeAt = "idle" => ~disturbed'
    BY <1>1 DEF IdleOK
  <2>2. IdleOK'
    BY <1>1, <2>1 DEF IdleOK
  <2> QED BY <1>1, <2>2 DEF AloneOK
<1>4. (SinceOK /\ FetchTrue)'
  BY <1>1 DEF SinceOK, FetchTrue, WasTip, IdleOK
<1>5. (RowsTrue /\ KeptTrue)'
  BY <1>1 DEF RowsTrue, KeptTrue, RowTrue, WasTip
<1> QED BY <1>2, <1>3, <1>4, <1>5

\* The fetch of an undisturbed command reads the branch of its scope.
LEMMA ReadsStep ==
    ASSUME RemoteInv, NEW slot \in Slot, FetchReads(slot)
    PROVE  RemoteInv'
<1> USE DEF RemoteInv, FetchReads, world, command
<1>1. [at |-> "read", tip |-> <<url, upstream[url]>>, old |-> ref] \in Fetch
  BY DEF RemoteTypeOK, Fetch, TipOrNone, Tip
<1>2. RemoteTypeOK'
  BY <1>1 DEF RemoteTypeOK
<1>3. (IdleOK /\ AloneOK)'
  BY DEF IdleOK, AloneOK, Slot, RemoteTypeOK
<1>4. (SinceOK /\ RowsTrue /\ KeptTrue)'
  BY DEF SinceOK, RowsTrue, KeptTrue, RowTrue, WasTip
<1>5. FetchTrue'
  <2>1. CASE slot = "own"
    <3>1. fetches'["own"].at = "read" /\ fetches'["own"].tip = <<url, upstream[url]>>
      BY <2>1 DEF RemoteTypeOK, Slot
    <3>2. <<url, upstream[url]>> # NoTip
      BY DEF RemoteTypeOK
    <3>3. observeAt = "fetching"
      BY <2>1 DEF IdleOK
    <3>4. ~disturbed => url = scope /\ since[scope] <= upstream[scope]
      BY <3>3 DEF AloneOK, SinceOK, RemoteTypeOK
    <3>5. ~disturbed => WasTip(<<url, upstream[url]>>, scope, since[scope], upstream[scope])
      BY <3>4 DEF WasTip, RemoteTypeOK
    <3> QED BY <3>1, <3>2, <3>3, <3>5 DEF FetchTrue, WasTip
  <2>2. CASE slot = "orphan"
    <3>1. fetches'["own"] = fetches["own"]
      BY <2>2 DEF RemoteTypeOK, Slot
    <3> QED BY <3>1 DEF FetchTrue, WasTip
  <2> QED BY <2>1, <2>2 DEF Slot
<1> QED BY <1>2, <1>3, <1>4, <1>5

LEMMA MovesStep ==
    ASSUME RemoteInv, NEW slot \in Slot, FetchMoves(slot)
    PROVE  RemoteInv'
<1> USE DEF RemoteInv, FetchMoves, world, command
<1>1. fetches[slot] \in Fetch
  BY DEF RemoteTypeOK
<1>2. fetches' \in [Slot -> Fetch] /\ ref' \in TipOrNone
  BY <1>1 DEF RemoteTypeOK, Fetch
<1>3. RemoteTypeOK'
  BY <1>2 DEF RemoteTypeOK
<1>4. (IdleOK /\ AloneOK)'
  BY DEF IdleOK, AloneOK, Slot, RemoteTypeOK
<1>5. (SinceOK /\ RowsTrue /\ KeptTrue)'
  BY DEF SinceOK, RowsTrue, KeptTrue, RowTrue, WasTip
<1>6. FetchTrue'
  <2>1. CASE slot = "own"
    <3>1. /\ fetches'["own"].at = "moved" /\ fetches'["own"].tip = fetches["own"].tip
          /\ ref' = fetches["own"].tip
      BY <2>1, <1>1 DEF RemoteTypeOK, Slot, Fetch
    <3>2. observeAt = "fetching"
      BY <2>1 DEF IdleOK
    <3> QED BY <2>1, <3>1, <3>2 DEF FetchTrue, WasTip
  <2>2. CASE slot = "orphan"
    <3>1. observeAt # "idle" => disturbed
      BY <2>2 DEF AloneOK
    <3> QED BY <3>1 DEF FetchTrue
  <2> QED BY <2>1, <2>2 DEF Slot
<1> QED BY <1>3, <1>4, <1>5, <1>6

LEMMA OrphanStep ==
    ASSUME RemoteInv, OrphanEnds
    PROVE  RemoteInv'
<1> USE DEF RemoteInv, OrphanEnds, world, command
<1>1. NoFetch \in Fetch
  BY DEF NoFetch, Fetch, TipOrNone
<1>2. fetches'["own"] = fetches["own"] /\ fetches'["orphan"].at = "none"
  BY DEF RemoteTypeOK, Slot, NoFetch
<1>3. RemoteTypeOK'
  BY <1>1 DEF RemoteTypeOK
<1>4. (IdleOK /\ AloneOK)'
  BY <1>2 DEF IdleOK, AloneOK
<1>5. (SinceOK /\ RowsTrue /\ KeptTrue /\ FetchTrue)'
  BY <1>2 DEF SinceOK, RowsTrue, KeptTrue, FetchTrue, RowTrue, WasTip
<1> QED BY <1>3, <1>4, <1>5

LEMMA LoadStep ==
    ASSUME RemoteInv, Load
    PROVE  RemoteInv'
<1> USE DEF RemoteInv, Load, world
<1>1. RemoteTypeOK'
  BY DEF RemoteTypeOK
<1>2. (IdleOK /\ AloneOK /\ FetchTrue)'
  BY DEF IdleOK, AloneOK, FetchTrue
<1>3. SinceOK'
  BY DEF SinceOK, RemoteTypeOK
<1>4. (RowsTrue /\ KeptTrue)'
  BY DEF RowsTrue, KeptTrue, RowTrue, WasTip, RemoteTypeOK
<1> QED BY <1>1, <1>2, <1>3, <1>4

LEMMA StartFetchStep ==
    ASSUME RemoteInv, StartFetch
    PROVE  RemoteInv'
<1> USE DEF RemoteInv, StartFetch, world
<1>1. fetches["own"] \in Fetch
  BY DEF RemoteTypeOK, Slot
<1>2. /\ fetches' \in [Slot -> Fetch] /\ fetches'["own"].at = "asked"
      /\ fetches'["orphan"] = fetches["orphan"]
  BY <1>1 DEF RemoteTypeOK, Slot, Fetch
<1>3. RemoteTypeOK'
  BY <1>2 DEF RemoteTypeOK
<1>4. (IdleOK /\ AloneOK /\ FetchTrue)'
  BY <1>2 DEF IdleOK, AloneOK, FetchTrue
<1>5. (SinceOK /\ RowsTrue /\ KeptTrue)'
  BY DEF SinceOK, RowsTrue, KeptTrue, RowTrue, WasTip
<1> QED BY <1>3, <1>4, <1>5

LEMMA FetchEndsStep ==
    ASSUME RemoteInv, FetchEnds
    PROVE  RemoteInv'
<1> USE DEF RemoteInv, FetchEnds, world
<1>1. NoFetch \in Fetch
  BY DEF NoFetch, Fetch, TipOrNone
<1>2. /\ fetches' \in [Slot -> Fetch] /\ fetches'["own"].at = "none"
      /\ fetches'["orphan"] = fetches["orphan"]
  BY <1>1 DEF RemoteTypeOK, Slot, NoFetch
<1>3. RemoteTypeOK'
  BY <1>2 DEF RemoteTypeOK
<1>4. (IdleOK /\ AloneOK)'
  BY <1>2 DEF IdleOK, AloneOK
<1>5. FetchTrue'
  BY <1>2 DEF FetchTrue, WasTip
<1>6. (SinceOK /\ RowsTrue /\ KeptTrue)'
  BY DEF SinceOK, RowsTrue, KeptTrue, RowTrue, WasTip
<1> QED BY <1>3, <1>4, <1>5, <1>6

\* A command that ends has its types, and nothing is left to relate.
LEMMA ReturnStep ==
    ASSUME RemoteInv, Return, UNCHANGED <<world, ref>>, RowsTrue',
           rows' \in [Url -> Row], fetches' \in [Slot -> Fetch], fetches'["own"].at = "none"
    PROVE  RemoteInv'
<1> USE DEF RemoteInv, Return, world
<1>1. Unknown \in Row
  BY DEF Unknown, Row, TipOrNone
<1>2. RemoteTypeOK'
  <2>1. disturbed' \in BOOLEAN
    OBVIOUS
  <2>2. row' \in Row /\ now' \in 0 .. MaxNow /\ since' \in [Url -> 0 .. MaxMoves]
    BY <1>1
  <2> QED BY <2>1, <2>2 DEF RemoteTypeOK
<1>3. (IdleOK /\ AloneOK /\ SinceOK /\ FetchTrue /\ KeptTrue)'
  BY DEF IdleOK, AloneOK, SinceOK, FetchTrue, KeptTrue
<1> QED BY <1>2, <1>3

\* Answering, failing and dying leave the rows alone.
LEMMA QuietStep ==
    ASSUME RemoteInv, Answer \/ Fails \/ Die
    PROVE  RemoteInv'
<1>1. NoFetch \in Fetch /\ NoFetch.at = "none"
  BY DEF NoFetch, Fetch, TipOrNone
<1>2. fetches' \in [Slot -> Fetch] /\ fetches'["own"].at = "none"
  BY <1>1 DEF Answer, Fails, Die, RemoteInv, RemoteTypeOK, IdleOK, Slot
<1>3. Return /\ UNCHANGED <<world, ref, rows>>
  BY DEF Answer, Fails, Die
<1>4. RowsTrue' /\ rows' \in [Url -> Row]
  BY <1>3 DEF RemoteInv, RemoteTypeOK, RowsTrue, RowTrue, WasTip, world
<1> QED BY <1>2, <1>3, <1>4, ReturnStep

LEMMA RecordStep ==
    ASSUME RemoteInv, Record
    PROVE  RemoteInv'
<1> USE DEF RemoteInv, Record, world
<1>1. Observed(observeAt = "succeeded") \in Row
  BY DEF RemoteTypeOK, Observed, Row
<1>2. RowTrue(Observed(observeAt = "succeeded"), scope)
  <2>1. CASE observeAt = "succeeded"
    BY <2>1 DEF Observed, RowTrue, FetchTrue
  <2>2. CASE observeAt # "succeeded"
    <3>1. /\ Observed(FALSE).undisturbed = row.undisturbed
          /\ Observed(FALSE).tip = row.tip /\ Observed(FALSE).since = row.since
      BY DEF Observed, RemoteTypeOK, Row
    <3>2. RowTrue(row, scope)
      BY DEF KeptTrue
    <3> QED BY <2>2, <3>1, <3>2 DEF RowTrue, Observed
  <2> QED BY <2>1, <2>2
<1>3. RowsTrue'
  BY <1>2 DEF RowsTrue, RowTrue, WasTip, RemoteTypeOK
<1>4. rows' \in [Url -> Row] /\ fetches' \in [Slot -> Fetch] /\ fetches'["own"].at = "none"
  BY <1>1 DEF RemoteTypeOK, IdleOK
<1> QED BY <1>3, <1>4, ReturnStep

\* The invariant of the observation holds for any repositories, intervals and
\* bounds (remote.rs, observe).
THEOREM RemoteInvariant == RemoteSpec => []RemoteInv
<1>1. RemoteInit => RemoteInv
  BY RemoteStart
<1>2. RemoteInv /\ [RemoteNext]_remoteVars => RemoteInv'
  <2> SUFFICES ASSUME RemoteInv, [RemoteNext]_remoteVars
               PROVE  RemoteInv'
    OBVIOUS
  <2>1. CASE UNCHANGED remoteVars
    BY <2>1 DEF remoteVars, world, command, RemoteInv, RemoteTypeOK, IdleOK, AloneOK, SinceOK,
                FetchTrue, RowsTrue, KeptTrue, RowTrue, WasTip
  <2>2. CASE RemoteNext
    BY <2>2, PushStep, ReconfigureStep, ReadsStep, MovesStep, OrphanStep, LoadStep,
       StartFetchStep, FetchEndsStep, QuietStep, RecordStep DEF RemoteNext
  <2> QED BY <2>1, <2>2
<1> QED BY <1>1, <1>2, PTL DEF RemoteSpec

\* A remembered tip is of the repository of its row, which had it at or after
\* the moment the row names (remote.rs, observe).
THEOREM TipsAreTrue == RemoteSpec => []TipWasUpstream
<1>1. RemoteInv => TipWasUpstream
  BY DEF RemoteInv, RowsTrue, RowTrue, WasTip, TipWasUpstream
<1> QED BY <1>1, RemoteInvariant, PTL

----------------------------------------------------------------------------
(* The embedding command *)

\* Behind the model, the k-th vector is that of the k-th text of the batch.
AnswersOK ==
    embedAt \in {"recheck", "publish"} =>
        /\ Len(vectors) = Len(batch)
        /\ \A k \in DOMAIN batch : vectors[k].of = batch[k]

\* What the command may use is in the index and not forgotten, as long as it
\* has not looked again.
ViewOK == \A v \in view : v \in versions /\ v[1] \notin forgotten

\* The members of the newest view that are not in the index were purged.
PublishedOK == \A v \in published : v \in versions \/ v[1] \in forgotten

EmbedInv ==
    /\ EmbedTypeOK /\ AnswersOK /\ ViewOK /\ PublishedOK
    /\ VectorsMatch /\ ForgottenUnembedded

USE FiniteAssumption, BatchAssumption, MaxChangesAssumption, NoneAssumption

----------------------------------------------------------------------------

LEMMA EmbedStart == EmbedInit => EmbedInv
  BY DEF EmbedInit, EmbedInv, EmbedTypeOK, AnswersOK, ViewOK, PublishedOK, VectorsMatch,
         ForgottenUnembedded

\* A batch is a sequence of versions.
LEMMA BatchIsSequence ==
    ASSUME NEW vs \in SUBSET Version, NEW b \in Chunks(vs)
    PROVE  b \in Seq(vs)
<1>1. IsFiniteSet(Version)
  BY FS_Product DEF Version
<1>2. IsFiniteSet(vs)
  BY <1>1, FS_Subset
<1>3. Cardinality(vs) \in Nat
  BY <1>2, FS_CardinalityType
<1> DEFINE n == IF Cardinality(vs) < BatchSize THEN Cardinality(vs) ELSE BatchSize
<1>4. n \in Nat
  BY <1>3
<1>5. b \in [1 .. n -> vs]
  BY DEF Chunks
<1> HIDE DEF n
<1> QED BY <1>4, <1>5, SMTT(30)

\* The rules that apply take their vectors along, and what stays has its row.
LEMMA RulesApplied ==
    ASSUME EmbedInv, ApplyRules, versions' \in SUBSET Version,
           Unforgotten(versions) \subseteq versions'
    PROVE  /\ meta' \in [Version -> Vector \cup {None}]
           /\ \A v \in Version : meta'[v] # None => meta[v] # None /\ meta'[v] = meta[v]
           /\ VectorsMatch' /\ ForgottenUnembedded'
<1>1. \A v \in Version : meta'[v] = IF v[1] \in arrived THEN None ELSE meta[v]
  BY DEF ApplyRules
<1>2. meta' \in [Version -> Vector \cup {None}]
  BY DEF ApplyRules, EmbedInv, EmbedTypeOK
<1>3. VectorsMatch'
  BY <1>1 DEF VectorsMatch, EmbedInv
<1>4. ForgottenUnembedded'
  BY <1>1 DEF ForgottenUnembedded, EmbedInv, ApplyRules, Unforgotten
<1> QED BY <1>1, <1>2, <1>3, <1>4

LEMMA Refreshed ==
    ASSUME EmbedInv, Refresh, UNCHANGED input
    PROVE  /\ forgotten' = arrived
           /\ versions' \in SUBSET Version /\ published' \in SUBSET Version
           /\ view' \in SUBSET Version
           /\ meta' \in [Version -> Vector \cup {None}]
           /\ VectorsMatch' /\ ForgottenUnembedded' /\ ViewOK' /\ PublishedOK'
<1> USE DEF EmbedInv, EmbedTypeOK, input
<1>1. Captured \subseteq Version /\ \A v \in Captured : v[1] \notin arrived
  BY DEF Captured, Unforgotten
<1>2. ApplyRules /\ forgotten' = arrived
  BY DEF Refresh, Fresh, Stale, ApplyRules
<1>3. CASE Fresh
  <2>1. versions' = Unforgotten(versions) \cup Captured /\ published' = Captured /\ view' = Captured
    BY <1>3 DEF Fresh
  <2>2. versions' \in SUBSET Version /\ Unforgotten(versions) \subseteq versions'
    BY <2>1, <1>1 DEF Unforgotten
  <2>3. ViewOK' /\ PublishedOK'
    BY <2>1, <1>1, <1>2 DEF ViewOK, PublishedOK
  <2> QED BY <1>1, <1>2, <2>1, <2>2, <2>3, RulesApplied
<1>4. CASE Stale
  <2>1. versions' = Unforgotten(versions) /\ published' = published /\ view' = Unforgotten(published)
    BY <1>4 DEF Stale
  <2>2. versions' \in SUBSET Version /\ view' \in SUBSET Version
    BY <2>1 DEF Unforgotten
  <2>3. ViewOK' /\ PublishedOK'
    BY <2>1, <1>2 DEF ViewOK, PublishedOK, Unforgotten
  <2> QED BY <1>2, <2>1, <2>2, <2>3, RulesApplied
<1> QED BY <1>3, <1>4 DEF Refresh

\* People change what the next refresh will find.
LEMMA WorldStep ==
    ASSUME EmbedInv,
           \/ \E i \in Item : Author(i) \/ RuleArrives(i)
           \/ \E m \in Model : ChangeConfig(m)
    PROVE  EmbedInv'
<1> USE DEF EmbedInv
<1>1. UNCHANGED <<forgotten, versions, published, meta, embedAt, using, view, pending, batch,
                  vectors>>
  BY DEF Author, RuleArrives, ChangeConfig
<1>2. /\ authored' \in [Item -> Content \cup {None}]
      /\ arrived' \subseteq Item /\ arrived \subseteq arrived'
      /\ config' \in Model /\ changes' \in 0 .. MaxChanges
  BY DEF Author, RuleArrives, ChangeConfig, Change, EmbedTypeOK
<1>3. EmbedTypeOK'
  BY <1>1, <1>2 DEF EmbedTypeOK
<1>4. (AnswersOK /\ ViewOK /\ PublishedOK /\ VectorsMatch /\ ForgottenUnembedded)'
  BY <1>1 DEF AnswersOK, ViewOK, PublishedOK, VectorsMatch, ForgottenUnembedded
<1> QED BY <1>3, <1>4

\* A refresh that fails has applied the rules all the same.
LEMMA RefreshFailsStep ==
    ASSUME EmbedInv, RefreshFails
    PROVE  EmbedInv'
<1> USE DEF EmbedInv
<1>1. /\ ApplyRules /\ forgotten' = arrived /\ versions' = Unforgotten(versions)
      /\ embedAt' = "idle" /\ pending' = {} /\ batch' = <<>> /\ vectors' = <<>> /\ view' = {}
      /\ UNCHANGED <<input, published, using>> /\ changes' \in 0 .. MaxChanges
  BY DEF RefreshFails, ApplyRules, Change, EmbedTypeOK
<1>2. versions' \in SUBSET Version /\ Unforgotten(versions) \subseteq versions'
  BY <1>1 DEF Unforgotten, EmbedTypeOK
<1>3. meta' \in [Version -> Vector \cup {None}] /\ VectorsMatch' /\ ForgottenUnembedded'
  BY <1>1, <1>2, RulesApplied
<1>4. EmbedTypeOK'
  BY <1>1, <1>2, <1>3 DEF EmbedTypeOK, input
<1>5. (AnswersOK /\ ViewOK)'
  BY <1>1 DEF AnswersOK, ViewOK
<1>6. PublishedOK'
  BY <1>1 DEF PublishedOK, Unforgotten, EmbedTypeOK
<1> QED BY <1>3, <1>4, <1>5, <1>6

LEMMA RefreshStep ==
    ASSUME EmbedInv, Collect \/ Recheck
    PROVE  EmbedInv'
<1>1. Refresh /\ UNCHANGED <<input, changes, using, batch, vectors>>
  BY DEF Collect, Recheck
<1>2. /\ forgotten' = arrived
      /\ versions' \in SUBSET Version /\ published' \in SUBSET Version
      /\ view' \in SUBSET Version
      /\ meta' \in [Version -> Vector \cup {None}]
      /\ VectorsMatch' /\ ForgottenUnembedded' /\ ViewOK' /\ PublishedOK'
  BY <1>1, Refreshed
<1>3. pending' \in SUBSET Version /\ embedAt' \in {"chunk", "publish"}
  BY <1>2 DEF Collect, Recheck, Missing, EmbedInv, EmbedTypeOK
<1>4. EmbedTypeOK'
  BY <1>1, <1>2, <1>3 DEF EmbedInv, EmbedTypeOK, input
<1>5. AnswersOK'
  BY <1>1 DEF Collect, Recheck, AnswersOK, EmbedInv
<1> QED BY <1>2, <1>4, <1>5 DEF EmbedInv

\* Starting, taking a batch, ending, failing and dying touch no vector.
LEMMA BetweenStep ==
    ASSUME EmbedInv, Start \/ Chunk \/ Finish \/ CallFails \/ EmbedDies
    PROVE  EmbedInv'
<1> USE DEF EmbedInv
<1>1. /\ UNCHANGED <<input, forgotten, versions, published, meta>>
      /\ embedAt' \in {"refresh", "call", "idle"} /\ view' \in {view, {}}
  BY DEF Start, Chunk, Finish, CallFails, EmbedDies
<1>2. /\ pending' \subseteq Version /\ using' \in Model /\ changes' \in 0 .. MaxChanges
      /\ vectors' \in {vectors, <<>>}
  BY DEF Start, Chunk, Finish, CallFails, EmbedDies, Change, EmbedTypeOK
<1>3. batch' \in Seq(Version)
  <2>1. CASE Chunk
    <3>1. batch' \in Seq(pending)
      BY <2>1, BatchIsSequence DEF Chunk, EmbedTypeOK
    <3> QED BY <3>1 DEF EmbedTypeOK
  <2>2. CASE ~Chunk
    <3>1. batch' = batch \/ batch' = <<>>
      BY <2>2 DEF Start, Finish, CallFails, EmbedDies
    <3>2. batch \in Seq(Version) /\ <<>> \in Seq(Version)
      BY DEF EmbedTypeOK
    <3> QED BY <3>1, <3>2
  <2> QED BY <2>1, <2>2
<1>4. EmbedTypeOK'
  <2>1. vectors' \in Seq(Vector) /\ view' \subseteq Version
    <3>1. vectors \in Seq(Vector) /\ <<>> \in Seq(Vector) /\ view \subseteq Version
      BY DEF EmbedTypeOK
    <3> QED BY <1>1, <1>2, <3>1
  <2>2. /\ authored' \in [Item -> Content \cup {None}]
        /\ arrived' \subseteq Item /\ forgotten' \subseteq arrived' /\ config' \in Model
        /\ versions' \subseteq Version /\ published' \subseteq Version
        /\ meta' \in [Version -> Vector \cup {None}]
    BY <1>1 DEF EmbedTypeOK, input
  <2> QED BY <1>1, <1>2, <1>3, <2>1, <2>2 DEF EmbedTypeOK
<1>5. (AnswersOK /\ ViewOK /\ PublishedOK /\ VectorsMatch /\ ForgottenUnembedded)'
  BY <1>1 DEF AnswersOK, ViewOK, PublishedOK, VectorsMatch, ForgottenUnembedded
<1> QED BY <1>4, <1>5

LEMMA AnswersStep ==
    ASSUME EmbedInv, Answers
    PROVE  EmbedInv'
<1> USE DEF EmbedInv, Answers
<1>1. \A k \in DOMAIN batch : [model |-> using, of |-> batch[k]] \in Vector
  BY DEF EmbedTypeOK, Vector
<1>2. vectors' \in Seq(Vector) /\ Len(vectors') = Len(batch)
  BY <1>1 DEF EmbedTypeOK
<1>3. EmbedTypeOK'
  BY <1>2 DEF EmbedTypeOK, input
<1>4. AnswersOK'
  BY <1>2 DEF AnswersOK
<1>5. (ViewOK /\ PublishedOK /\ VectorsMatch /\ ForgottenUnembedded)'
  BY DEF ViewOK, PublishedOK, VectorsMatch, ForgottenUnembedded
<1> QED BY <1>3, <1>4, <1>5

\* An update is a version of the view with its own vector.
LEMMA PublishStep ==
    ASSUME EmbedInv, Publish
    PROVE  EmbedInv'
<1> USE DEF EmbedInv, Publish
<1>1. \A u \in Updates : u[1] \in view /\ u[2].of = u[1]
  BY DEF Updates, AnswersOK
<1>2. ASSUME NEW v \in Version
      PROVE  \/ meta'[v] = meta[v]
             \/ meta'[v] \in Vector /\ <<v, meta'[v]>> \in Updates
  OBVIOUS
<1>3. meta' \in [Version -> Vector \cup {None}]
  BY DEF EmbedTypeOK
<1>4. EmbedTypeOK'
  BY <1>3 DEF EmbedTypeOK, input
<1>5. VectorsMatch'
  BY <1>1, <1>2 DEF VectorsMatch
<1>6. ForgottenUnembedded'
  BY <1>1, <1>2 DEF ForgottenUnembedded, ViewOK
<1>7. (AnswersOK /\ ViewOK /\ PublishedOK)'
  BY DEF AnswersOK, ViewOK, PublishedOK
<1> QED BY <1>4, <1>5, <1>6, <1>7

\* The invariant holds for any items, contents, models and batch sizes
\* (embedding.rs, embed_pending).
THEOREM EmbedInvariant == EmbedSpec => []EmbedInv
<1>1. EmbedInit => EmbedInv
  BY EmbedStart
<1>2. EmbedInv /\ [EmbedNext]_embedVars => EmbedInv'
  <2> SUFFICES ASSUME EmbedInv, [EmbedNext]_embedVars
               PROVE  EmbedInv'
    OBVIOUS
  <2>1. CASE UNCHANGED embedVars
    BY <2>1 DEF embedVars, input, EmbedInv, EmbedTypeOK, AnswersOK, ViewOK, PublishedOK,
                VectorsMatch, ForgottenUnembedded
  <2>2. CASE EmbedNext
    BY <2>2, WorldStep, RefreshFailsStep, RefreshStep, BetweenStep, AnswersStep, PublishStep
       DEF EmbedNext, Work
  <2> QED BY <2>1, <2>2
<1> QED BY <1>1, <1>2, PTL DEF EmbedSpec

\* A vector belongs to the text of its version, whichever versions of its batch
\* were discarded (embedding.rs, the pairs of versions and vectors).
THEOREM VectorsAreTheirs == EmbedSpec => []VectorsMatch
<1>1. EmbedInv => VectorsMatch
  BY DEF EmbedInv
<1> QED BY <1>1, EmbedInvariant, PTL

\* No vector is stored for what was forgotten while the model worked
\* (embedding.rs, the view is refreshed before the vectors are published).
THEOREM ForgottenStaysOut == EmbedSpec => []ForgottenUnembedded
<1>1. EmbedInv => ForgottenUnembedded
  BY DEF EmbedInv
<1> QED BY <1>1, EmbedInvariant, PTL

----------------------------------------------------------------------------
(* The composition *)

\* What holds of one of the machines alone holds of it in the composition, the
\* specification that is model-checked.
THEOREM ChildrenCompose == ChildrenSpec => ProcessSpec /\ RemoteSpec /\ EmbedSpec
<1>1. ChildrenInit => ProcessInit /\ RemoteInit /\ EmbedInit
  BY DEF ChildrenInit
<1>2. [ChildrenNext]_childVars =>
        [ProcessNext]_processVars /\ [RemoteNext]_remoteVars /\ [EmbedNext]_embedVars
  BY DEF ChildrenNext, OfProcess, OfRemote, OfEmbed, childVars
<1> QED BY <1>1, <1>2, PTL DEF ChildrenSpec, ProcessSpec, RemoteSpec, EmbedSpec
=============================================================================
