------------------------------ MODULE Process ------------------------------
(***************************************************************************)
(* Running one child within a time and an output bound                     *)
(* (src/src/process.rs, bounded).  The Git fetch of module Remote and the  *)
(* model command of module Embed run this way.                             *)
(*                                                                         *)
(* The child leads a process group of its own and may start descendants:   *)
(* "kin" stays in the group, "stray" has left it (setsid).  Every one of   *)
(* them holds the three pipes until it ends.  Three threads serve the      *)
(* pipes: the writer feeds the input, the reader takes at most one byte    *)
(* more than the limit, the drain takes at most ErrLimit bytes of the      *)
(* diagnostics; a thread that ends closes its end, and who then writes     *)
(* there dies of it.  The caller polls the leader, kills the group when    *)
(* the time is up, kills what is left of the group in any case, and joins  *)
(* the three threads.                                                      *)
(*                                                                         *)
(* A definition named ...Mutant is the definition after it with a bug.      *)
(* A kill takes effect at once, and a process id is not used again while   *)
(* the call lasts.  Only unix is modelled.                                 *)
(***************************************************************************)
EXTENDS Integers, FiniteSets

CONSTANTS
    Limit,     \* output_limit
    ErrLimit,  \* how much of the diagnostics is drained (1 MiB in the code)
    InputSize, \* the length of the input
    PipeSize,  \* what a pipe holds
    OutMax     \* bound on what the processes write to either output

ASSUME LimitAssumption == Limit \in Nat
ASSUME ErrLimitAssumption == ErrLimit \in Nat
ASSUME InputAssumption == InputSize \in Nat
ASSUME PipeAssumption == PipeSize \in Nat \ {0}
ASSUME OutMaxAssumption == OutMax \in Nat

VARIABLES
    callAt,    \* where the caller is
    timedOut,  \* timed_out
    answer,    \* what bounded returned
    exit,      \* how the leader ended
    alive,     \* the processes that run
    started,   \* the processes that ever ran
    threads,   \* the threads that have not ended
    inPipe,    \* bytes in the pipe of the standard input
    fed,       \* bytes the writer has written
    outPipe,   \* bytes in the pipe of the standard output
    got,       \* bytes the reader has
    written,   \* bytes the processes have written to it (history)
    errPipe,   \* bytes in the pipe of the diagnostics
    drained,   \* bytes drained from it
    complained \* bytes the processes have written to it (history)

pipes == <<inPipe, fed, outPipe, got, written, errPipe, drained, complained>>
processVars == <<callAt, timedOut, answer, exit, alive, started, threads, pipes>>

Group == {"leader", "kin"}
Proc == Group \cup {"stray"}
Thread == {"writer", "reader", "errors"}

ReadBoundMutant == Limit

\* One byte beyond the limit shows that there is more.
ReadBound == Limit + 1

ProcessTypeOK ==
    /\ callAt \in {"spawn", "poll", "sweep", "writer", "errors", "reader", "returned"}
    /\ timedOut \in BOOLEAN
    /\ answer \in {"none", "output", "error"}
    /\ exit \in {"none", "success", "failure"}
    /\ alive \subseteq started
    /\ started \subseteq Proc
    /\ threads \subseteq Thread
    /\ inPipe \in 0 .. PipeSize /\ fed \in 0 .. InputSize
    /\ outPipe \in 0 .. PipeSize /\ got \in 0 .. Limit + 1 /\ written \in 0 .. OutMax
    /\ errPipe \in 0 .. PipeSize /\ drained \in 0 .. ErrLimit /\ complained \in 0 .. OutMax

ProcessInit ==
    /\ callAt = "spawn"
    /\ timedOut = FALSE
    /\ answer = "none"
    /\ exit = "none"
    /\ alive = {} /\ started = {} /\ threads = {}
    /\ inPipe = 0 /\ fed = 0
    /\ outPipe = 0 /\ got = 0 /\ written = 0
    /\ errPipe = 0 /\ drained = 0 /\ complained = 0

----------------------------------------------------------------------------
(* The caller *)

\* The program does not exist or cannot be started.
SpawnFails ==
    /\ callAt = "spawn"
    /\ callAt' = "returned"
    /\ answer' = "error"
    /\ UNCHANGED <<timedOut, exit, alive, started, threads, pipes>>

Spawn ==
    /\ callAt = "spawn"
    /\ callAt' = "poll"
    /\ alive' = {"leader"} /\ started' = {"leader"}
    /\ threads' = Thread
    /\ UNCHANGED <<timedOut, answer, exit, pipes>>

\* try_wait finds that the leader has ended.
PollExited ==
    /\ callAt = "poll"
    /\ "leader" \notin alive
    /\ callAt' = "sweep"
    /\ UNCHANGED <<timedOut, answer, exit, alive, started, threads, pipes>>

KilledMutant(procs) == procs \ {"leader"}

\* What a SIGKILL to the group leaves.
Killed(procs) == procs \ Group

\* The time is up.  The leader may have ended since try_wait looked; then the
\* status is its own and timed_out is set all the same.
Timeout ==
    /\ callAt = "poll"
    /\ timedOut' = TRUE
    /\ alive' = Killed(alive)
    /\ exit' = IF "leader" \in alive THEN "failure" ELSE exit
    /\ callAt' = "sweep"
    /\ UNCHANGED <<answer, started, threads, pipes>>

\* What is left of the group must not hold the pipes.
Sweep ==
    /\ callAt = "sweep"
    /\ alive' = Killed(alive)
    /\ callAt' = "writer"
    /\ UNCHANGED <<timedOut, answer, exit, started, threads, pipes>>

JoinOf(thread, next) ==
    /\ callAt = thread
    /\ thread \notin threads
    /\ callAt' = next
    /\ UNCHANGED <<timedOut, exit, alive, started, threads, pipes>>

Join ==
    \/ JoinOf("writer", "errors") /\ UNCHANGED answer
    \/ JoinOf("errors", "reader") /\ UNCHANGED answer
    \/ /\ JoinOf("reader", "returned")
       /\ answer' = IF got > Limit THEN "error" ELSE "output"

----------------------------------------------------------------------------
(* The threads *)

\* A broken pipe is ignored: the child need not read what it is given.
WriterFeeds ==
    /\ "writer" \in threads
    /\ fed < InputSize /\ inPipe < PipeSize /\ alive # {}
    /\ fed' = fed + 1 /\ inPipe' = inPipe + 1
    /\ UNCHANGED <<callAt, timedOut, answer, exit, alive, started, threads, outPipe, got,
                   written, errPipe, drained, complained>>

ReaderTakes ==
    /\ "reader" \in threads
    /\ outPipe > 0 /\ got < ReadBound
    /\ got' = got + 1 /\ outPipe' = outPipe - 1
    /\ UNCHANGED <<callAt, timedOut, answer, exit, alive, started, threads, inPipe, fed,
                   written, errPipe, drained, complained>>

ErrorsDrain ==
    /\ "errors" \in threads
    /\ errPipe > 0 /\ drained < ErrLimit
    /\ drained' = drained + 1 /\ errPipe' = errPipe - 1
    /\ UNCHANGED <<callAt, timedOut, answer, exit, alive, started, threads, inPipe, fed,
                   outPipe, got, written, complained>>

\* The writer misses that nobody reads any more.
HasEndedMutant(thread) ==
    \/ thread = "writer" /\ fed = InputSize
    \/ thread = "reader" /\ (got = ReadBound \/ (outPipe = 0 /\ alive = {}))
    \/ thread = "errors" /\ (drained = ErrLimit \/ (errPipe = 0 /\ alive = {}))

\* When the thread has nothing more to do.  Nobody holds the other end of a
\* pipe once every process has ended.
HasEnded(thread) ==
    \/ thread = "writer" /\ (fed = InputSize \/ alive = {})
    \/ thread = "reader" /\ (got = ReadBound \/ (outPipe = 0 /\ alive = {}))
    \/ thread = "errors" /\ (drained = ErrLimit \/ (errPipe = 0 /\ alive = {}))

ThreadEnds(thread) ==
    /\ thread \in threads
    /\ HasEnded(thread)
    /\ threads' = threads \ {thread}
    /\ UNCHANGED <<callAt, timedOut, answer, exit, alive, started, pipes>>

----------------------------------------------------------------------------
(* The processes *)

\* A member of the group starts another one, or anyone one that leaves it.
Fork(p) ==
    /\ p \notin started
    /\ IF p = "kin" THEN alive \cap Group # {} ELSE alive # {}
    /\ started # {}
    /\ alive' = alive \cup {p} /\ started' = started \cup {p}
    /\ UNCHANGED <<callAt, timedOut, answer, exit, threads, pipes>>

Consume ==
    /\ alive # {} /\ inPipe > 0
    /\ inPipe' = inPipe - 1
    /\ UNCHANGED <<callAt, timedOut, answer, exit, alive, started, threads, fed, outPipe,
                   got, written, errPipe, drained, complained>>

WriteOut ==
    /\ alive # {} /\ "reader" \in threads
    /\ outPipe < PipeSize /\ written < OutMax
    /\ outPipe' = outPipe + 1 /\ written' = written + 1
    /\ UNCHANGED <<callAt, timedOut, answer, exit, alive, started, threads, inPipe, fed,
                   got, errPipe, drained, complained>>

WriteErr ==
    /\ alive # {} /\ "errors" \in threads
    /\ errPipe < PipeSize /\ complained < OutMax
    /\ errPipe' = errPipe + 1 /\ complained' = complained + 1
    /\ UNCHANGED <<callAt, timedOut, answer, exit, alive, started, threads, inPipe, fed,
                   outPipe, got, written, drained>>

\* A process ends as it likes.  Writing where nobody reads any more is one
\* way to fail.
End(p) ==
    /\ p \in alive
    /\ alive' = alive \ {p}
    /\ IF p = "leader" THEN exit' \in {"success", "failure"} ELSE UNCHANGED exit
    /\ UNCHANGED <<callAt, timedOut, answer, started, threads, pipes>>

Caller == SpawnFails \/ Spawn \/ PollExited \/ Timeout \/ Sweep \/ Join

Serve ==
    \/ WriterFeeds \/ ReaderTakes \/ ErrorsDrain
    \/ \E thread \in Thread : ThreadEnds(thread)

Children ==
    \/ \E p \in {"kin", "stray"} : Fork(p)
    \/ Consume \/ WriteOut \/ WriteErr
    \/ \E p \in Proc : End(p)

\* A stray that outlives the call is no longer followed.
ProcessNext == callAt # "returned" /\ (Caller \/ Serve \/ Children)

ProcessSpec == ProcessInit /\ [][ProcessNext]_processVars

----------------------------------------------------------------------------
(* Properties *)

\* Output that is returned is all the output there was: a pipe that a
\* descendant keeps open, a kill or the bound never cut it off unnoticed.
OutputIsWhole == answer = "output" => got = written /\ got <= Limit

\* No member of the group is left once the caller starts to join the threads,
\* whether the leader ended by itself or not.
NothingLeft == callAt \in Thread => alive \cap Group = {}

\* The call ends whatever the child does or leaves undone, unless a process
\* that left the group keeps the pipes open: the comments of the code claim
\* the bound for the group only.
CallEnds == (callAt # "spawn") ~> (callAt = "returned" \/ "stray" \in alive)
=============================================================================
