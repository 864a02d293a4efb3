---------------------------- MODULE StreamedTask ----------------------------
(***************************************************************************)
(* What the cloud may rely on for every task it dispatches: the frames of  *)
(* TaskResult it receives are numbered chunks without a gap, then exactly  *)
(* one answer, then nothing.  A plain task has no chunks.                  *)
(***************************************************************************)
EXTENDS Naturals, Sequences

CONSTANTS
    Tasks,       \* task ids
    StreamTasks  \* the tasks dispatched with stream = true

VARIABLE sent    \* the frames sent so far, per task

\* The states of TaskStatus that end a task.
Answers == {"completed", "failed", "rejected", "busy"}

Frames == [status : {"running"} \union Answers, sequence : Nat]

Answered(t) == \E i \in DOMAIN sent[t] : sent[t][i].status \in Answers

\* A frame that carries no number has number 0 here.
Send(t, status, number) ==
    /\ ~Answered(t)
    /\ sent' = [sent EXCEPT ![t] = Append(@, [status |-> status, sequence |-> number])]

Chunk(t) == t \in StreamTasks /\ Send(t, "running", Len(sent[t]) + 1)

\* The answer of a stream that ran to its end is numbered like a chunk.
Answer(t) ==
    \/ \E status \in Answers : Send(t, status, 0)
    \/ t \in StreamTasks /\ Send(t, "completed", Len(sent[t]) + 1)

Init == sent = [t \in Tasks |-> <<>>]

Next == \E t \in Tasks : Chunk(t) \/ Answer(t)

Spec == Init /\ [][Next]_sent

\* Every task is answered in the end.
AllAnswered == \A t \in Tasks : <>Answered(t)
=============================================================================
