------------------------------ MODULE Children ------------------------------
(***************************************************************************)
(* The bounded child process and the two operations that run one: the      *)
(* fetch of the remote branch and the embedding command.  They share no    *)
(* state, so a behaviour shows one of them, the subject.                   *)
(***************************************************************************)
EXTENDS Process, Remote, Embed

VARIABLE subject \* the machine that moves in this behaviour

childVars == <<subject, processVars, remoteVars, embedVars>>

ChildrenInit ==
    /\ subject \in {"process", "remote", "embed"}
    /\ ProcessInit /\ RemoteInit /\ EmbedInit
    /\ subject # "remote" => url = CHOOSE u \in Url : TRUE
    /\ subject # "embed" => /\ config = CHOOSE m \in Model : TRUE
                            /\ \A i \in Item : authored[i] = None

OfProcess(A) == subject = "process" /\ A /\ UNCHANGED <<subject, remoteVars, embedVars>>
OfRemote(A) == subject = "remote" /\ A /\ UNCHANGED <<subject, processVars, embedVars>>
OfEmbed(A) == subject = "embed" /\ A /\ UNCHANGED <<subject, processVars, remoteVars>>

ChildrenNext == OfProcess(ProcessNext) \/ OfRemote(RemoteNext) \/ OfEmbed(EmbedNext)

\* The caller and its threads run and time passes; the child need not do
\* anything.  People run the embedding command again, and the model answers.
ChildrenFairness ==
    /\ WF_childVars(OfProcess(PollExited \/ Timeout))
    /\ WF_childVars(OfProcess(Spawn \/ SpawnFails \/ Sweep \/ Join))
    /\ WF_childVars(OfProcess(WriterFeeds))
    /\ WF_childVars(OfProcess(ReaderTakes))
    /\ WF_childVars(OfProcess(ErrorsDrain))
    /\ \A thread \in Thread : WF_childVars(OfProcess(ThreadEnds(thread)))
    /\ WF_childVars(OfEmbed(Work))

ChildrenSpec == ChildrenInit /\ [][ChildrenNext]_childVars /\ ChildrenFairness

\* The variables of the three machines have their types.
TypeOK == ProcessTypeOK /\ RemoteTypeOK /\ EmbedTypeOK
=============================================================================
