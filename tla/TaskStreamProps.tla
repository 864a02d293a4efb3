-------------------------- MODULE TaskStreamProps --------------------------
(***************************************************************************)
(* What the supplier promises for the tasks it runs, and that it keeps the *)
(* contract of StreamedTask.                                               *)
(***************************************************************************)
EXTENDS TaskStream

\* Every variable has its type; a stream has at most one frame more than deltas.
TypeOK ==
    /\ waiting \in SUBSET Tasks
    /\ stage \in Stages
    /\ cur \in Tasks \union {NoTask}
    /\ stage # "idle" => cur \in Tasks
    /\ busy \in BOOLEAN
    /\ seq \in 0 .. MaxDeltas + 1
    /\ result \in Frames
    /\ frames \in [Tasks -> Seq(Frames)]
    /\ row \in [Tasks -> Answers \union {"none"}]
    /\ format \in Formats \union {NoFormat}
    /\ stage \in {"calling", "streaming"} => format # NoFormat
    /\ reader \in ReaderStates
    /\ buffered \in SUBSET UsageParts
    /\ chan \in Seq(Events)
    /\ begun \in [Tasks -> 0 .. MaxDeltas]
    /\ split \in SUBSET (Tasks \X (1 .. MaxDeltas))
    /\ deltas \in [Tasks -> 0 .. MaxDeltas]

\* The frames as the cloud numbers them.
Numbered(t) ==
    [i \in DOMAIN frames[t] |->
        [status |-> frames[t][i].status, sequence |-> frames[t][i].sequence]]

Contract == INSTANCE StreamedTask WITH sent <- [t \in Tasks |-> Numbered(t)]

\* The frames of each task are chunks numbered without a gap and then one answer,
\* whatever the upstream sends and wherever its stream stops.
ImplementsStreamedTask == Contract!Spec

\* Every task is answered in the end (handle_task, handle_task_stream), also when
\* its upstream breaks off, unless the handler has died in a panic of truncate_str.
EveryTaskAnswered == \A t \in Tasks : <>(Contract!Answered(t) \/ stage = "dead")

AnswerOf(t) == {frames[t][i].status : i \in DOMAIN frames[t]} \intersect Answers

\* When the handler is done with a task, its row in p2p_task_log says what the
\* cloud was told.
RowSaysWhatWasAnswered ==
    \A t \in Tasks \ waiting : t # cur => AnswerOf(t) = {row[t]}

\* What the node says for a task is what it read for it, in order and nothing
\* twice: what was sent, then what is on the channel, begins with the text of each
\* delta read (execute_stream, handle_task_stream).  Of what the upstream said, the
\* last delta at most is missing: the one the body stops in.  A delta whose
\* characters arrive whole is told as it was.
Said(t) == frames[t] \o (IF t = cur THEN chan ELSE <<>>)
ContentComplete ==
    \A t \in Tasks :
        /\ begun[t] \in {deltas[t], deltas[t] + 1}
        /\ deltas[t] <= Len(Said(t))
        /\ \A i \in DOMAIN Said(t) :
            Said(t)[i].content = IF i <= deltas[t] THEN Text(t, i) ELSE 0
=============================================================================
