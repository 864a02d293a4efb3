----------------------------- MODULE TaskStream -----------------------------
(***************************************************************************)
(* How the supplier runs a task: Supplier::handle_task and                 *)
(* handle_task_stream, the local mutex around the executor, and            *)
(* ProxyExecutor, whose reader task turns the upstream's server-sent events *)
(* into StreamEvents on a channel that the handler drains.                 *)
(*                                                                         *)
(* One handler takes one task at a time.  The network between the reader   *)
(* and the upstream may break, or close early, at any point, and hands the *)
(* body over in pieces of any size.                                        *)
(***************************************************************************)
EXTENDS Naturals, Sequences, FiniteSets

CONSTANTS
    Tasks,       \* tasks of the task channel
    StreamTasks, \* the tasks dispatched with stream = true
    Blocked,     \* the tasks the content filter rejects
    Formats,     \* API formats the models of the tasks lead to
    MaxDeltas,   \* bound: content deltas an upstream sends for a task
    MaxSplits    \* bound: characters that a boundary between two pieces cuts

AllFormats == {"anthropic", "openai", "gemini"}
NoFormat == "no format"

ASSUME ConstAssumption ==
    /\ StreamTasks \subseteq Tasks
    /\ Blocked \subseteq Tasks
    /\ Formats \subseteq AllFormats
    /\ MaxDeltas \in Nat
    /\ MaxSplits \in Nat

NoTask == "no task"
ASSUME NoTaskAssumption == NoTask \notin Tasks

VARIABLES
    waiting,   \* tasks not yet taken from the task channel
    stage,     \* where the handler stands
    cur,       \* the task it works on
    busy,      \* MutexChecker: the provider "default" is marked busy
    seq,       \* seq of handle_task_stream
    result,    \* final_result
    frames,    \* TaskResults handed to on_result, or sent, per task
    row,       \* status in p2p_task_log, per task
    format,    \* ApiFormat of the request
    reader,    \* the task spawned by execute_stream
    buffered,  \* usage_buffer of the reader; {} is None
    chan,      \* the StreamEvent channel
    begun,     \* history: content deltas that began to arrive, per task; one more
               \* than deltas while sse_buffer holds a part of the next one
    split,     \* history: the <<task, delta>> with a character cut in two
    deltas     \* history: content deltas the reader has read, per task

handlerVars == <<waiting, stage, cur, busy, seq, result, frames, row>>
arrivalVars == <<begun, split>>
readerVars == <<reader, buffered, chan, deltas, arrivalVars>>
vars == <<handlerVars, format, readerVars>>

Stages == {"idle", "calling", "streaming", "cooling", "dead"}
ReaderStates == {"none", "reading", "done"}

\* The parts of TokenUsage an upstream has reported.
UsageParts == {"prompt", "completion"}

Answers == {"completed", "failed", "rejected", "busy"}

\* TaskResult; sequence 0 stands for None, content 0 for the empty string,
\* content n for the n-th delta and MaxDeltas + n for that delta with
\* replacement characters in it.
Frame(status, number, content, usage) ==
    [status |-> status, sequence |-> number, content |-> content, usage |-> usage]
Frames == [status : {"running"} \union Answers, sequence : Nat, content : Nat,
           usage : SUBSET UsageParts]

\* StreamEvent.
Delta(n) == [kind |-> "delta", content |-> n, usage |-> {}]
Usage(parts) == [kind |-> "usage", content |-> 0, usage |-> parts]
End == [kind |-> "end", content |-> 0, usage |-> {}]
Events == [kind : {"delta", "usage", "end"}, content : Nat, usage : SUBSET UsageParts]

Emit(t, frame) == frames' = [frames EXCEPT ![t] = Append(@, frame)]
LogRow(t, status) == row' = [row EXCEPT ![t] = status]

----------------------------------------------------------------------------
(* The handler.                                                            *)

\* Content filter or local mutex: the task is answered without being run.
Refused(t) == t \in Blocked \/ busy

Refuse(t) ==
    /\ stage = "idle"
    /\ t \in waiting
    /\ Refused(t)
    /\ waiting' = waiting \ {t}
    /\ LET status == IF t \in Blocked THEN "rejected" ELSE "busy" IN
        /\ Emit(t, Frame(status, 0, 0, {}))
        /\ LogRow(t, status)
    /\ UNCHANGED <<stage, cur, busy, seq, result, format, readerVars>>

\* The mutex is set and the request goes out.
Call(t) ==
    /\ stage = "idle"
    /\ t \in waiting
    /\ ~Refused(t)
    /\ waiting' = waiting \ {t}
    /\ cur' = t
    /\ busy' = TRUE
    /\ seq' = 0
    /\ result' = Frame("failed", 0, 0, {})
    /\ format' \in Formats
    /\ stage' = "calling"
    /\ UNCHANGED <<frames, row, readerVars>>

\* set_busy(false) after the executor.
Released(status) == FALSE

\* The executor has returned or the stream is drained: release, log, cool down.
Finish(status) ==
    /\ busy' = Released(status)
    /\ LogRow(cur, status)
    /\ stage' = "cooling"

\* No connection, or an error status.  A streamed task answers at once.
CallFails ==
    /\ stage = "calling"
    /\ result' = Frame("failed", 0, 0, {})
    /\ IF cur \in StreamTasks THEN Emit(cur, result') ELSE UNCHANGED frames
    /\ Finish("failed")
    /\ UNCHANGED <<waiting, cur, seq, format, readerVars>>

\* truncate_str shortens a long error body for the log, or a document that has no
\* content, at a byte: inside a character it panics.  The handler dies with the
\* task it works on, and nobody takes another from the channel.
CallPanics ==
    /\ stage = "calling"
    /\ stage' = "dead"
    /\ UNCHANGED <<waiting, cur, busy, seq, result, frames, row, format, readerVars>>

\* execute: the whole answer as one JSON document.
PlainCompletes ==
    /\ stage = "calling"
    /\ cur \notin StreamTasks
    /\ \E usage \in {{}, UsageParts} : result' = Frame("completed", 0, 0, usage)
    /\ Finish("completed")
    /\ UNCHANGED <<waiting, cur, seq, frames, format, readerVars>>

\* execute_stream: the reader is spawned with an empty usage buffer.
StreamOpens ==
    /\ stage = "calling"
    /\ cur \in StreamTasks
    /\ stage' = "streaming"
    /\ reader' = "reading"
    /\ buffered' = {}
    /\ UNCHANGED <<waiting, cur, busy, seq, result, frames, row, format, chan,
                   deltas, arrivalVars>>

Receives(kind) ==
    /\ stage = "streaming"
    /\ chan # <<>>
    /\ Head(chan).kind = kind
    /\ chan' = Tail(chan)

ReceiveDelta ==
    /\ Receives("delta")
    /\ seq' = seq + 1
    /\ Emit(cur, Frame("running", seq + 1, Head(chan).content, {}))
    /\ UNCHANGED <<waiting, stage, cur, busy, result, row, format, reader,
                   buffered, deltas, arrivalVars>>

ReceiveUsage ==
    /\ Receives("usage")
    /\ result' = [result EXCEPT !.usage = Head(chan).usage]
    /\ UNCHANGED <<waiting, stage, cur, busy, seq, frames, row, format, reader,
                   buffered, deltas, arrivalVars>>

\* The number of the last frame, and a faulty variant that repeats the last
\* chunk's.
EndNumberRepeated == seq
EndNumber == seq + 1

ReceiveEnd ==
    /\ Receives("end")
    /\ seq' = EndNumber
    /\ result' = [result EXCEPT !.status = "completed", !.sequence = EndNumber]
    /\ Emit(cur, result')
    /\ UNCHANGED <<waiting, stage, cur, busy, row, format, reader, buffered,
                   deltas, arrivalVars>>

\* The channel is drained and its sender gone.  The row is written from
\* final_result; a faulty variant logs what it was before the stream ran.
LoggedStatusInitial == "failed"
LoggedStatus == result.status

Drained ==
    /\ stage = "streaming"
    /\ reader = "done"
    /\ chan = <<>>
    /\ Finish(LoggedStatus)
    /\ reader' = "none"
    /\ UNCHANGED <<waiting, cur, seq, result, frames, format, buffered, chan,
                   deltas, arrivalVars>>

\* After the cooldown the plain task is answered, and the next one is taken.  What
\* the handler knew of the task is gone.
Cooled ==
    /\ stage = "cooling"
    /\ stage' = "idle"
    /\ cur' = NoTask
    /\ IF cur \in StreamTasks THEN UNCHANGED frames ELSE Emit(cur, result)
    /\ seq' = 0
    /\ result' = Frame("failed", 0, 0, {})
    /\ format' = NoFormat
    /\ UNCHANGED <<waiting, busy, row, readerVars>>

----------------------------------------------------------------------------
(* The reader.  Its task, the one being streamed, is cur.                  *)

Flush == IF buffered = {} THEN <<>> ELSE <<Usage(buffered)>>

\* What the node reads for a delta: from_utf8_lossy is applied to every piece of
\* the body by itself, and replaces the halves of a character between two pieces.
Text(t, n) == IF <<t, n>> \in split THEN MaxDeltas + n ELSE n

\* The first bytes of the next delta arrive without the rest, and perhaps a
\* character is cut.
ReadPart ==
    /\ reader = "reading"
    /\ format # "gemini"
    /\ deltas[cur] < MaxDeltas
    /\ begun[cur] = deltas[cur]
    /\ begun' = [begun EXCEPT ![cur] = @ + 1]
    /\ \/ UNCHANGED split
       \/ /\ Cardinality(split) < MaxSplits
          /\ split' = split \union {<<cur, deltas[cur] + 1>>}
    /\ UNCHANGED <<handlerVars, format, reader, buffered, chan, deltas>>

\* A content delta is there with the blank line after it, and in the OpenAI
\* format perhaps the usage with it.
ReadDelta ==
    /\ reader = "reading"
    /\ format # "gemini"
    /\ deltas[cur] < MaxDeltas
    /\ deltas' = [deltas EXCEPT ![cur] = @ + 1]
    /\ begun' = [begun EXCEPT ![cur] = deltas[cur] + 1]
    /\ chan' = Append(chan, Delta(Text(cur, deltas[cur] + 1)))
    /\ buffered' \in IF format = "openai" THEN {buffered, UsageParts} ELSE {buffered}
    /\ UNCHANGED <<handlerVars, format, reader, split>>

\* Events are whole in the order they arrive: none is behind a part of one.
NothingPartial == begun[cur] = deltas[cur]

\* message_start adds the input tokens to the buffer, message_delta replaces the
\* buffer by what it reports; a usage-only chunk of OpenAI replaces it too.
ReadUsage ==
    /\ reader = "reading"
    /\ NothingPartial
    /\ \/ format = "anthropic" /\ buffered' = buffered \union {"prompt"}
       \/ format = "anthropic" /\ buffered' \in {{"completion"}, UsageParts}
       \/ format = "openai" /\ buffered' = UsageParts
    /\ UNCHANGED <<handlerVars, format, reader, chan, deltas, arrivalVars>>

\* The reader's task ends with a terminal event; a faulty variant reads on.
AfterTerminalReadsOn == "reading"
AfterTerminal == "done"

\* [DONE] in any format: the buffered usage is dropped.
ReadDone ==
    /\ reader = "reading"
    /\ NothingPartial
    /\ chan' = Append(chan, End)
    /\ reader' = AfterTerminal
    /\ buffered' = {}
    /\ UNCHANGED <<handlerVars, format, deltas, arrivalVars>>

\* message_stop.
ReadMessageStop ==
    /\ reader = "reading"
    /\ format = "anthropic"
    /\ NothingPartial
    /\ chan' = chan \o Flush \o <<End>>
    /\ reader' = AfterTerminal
    /\ buffered' = {}
    /\ UNCHANGED <<handlerVars, format, deltas, arrivalVars>>

\* What the chunk with the finish_reason says, and a faulty variant that looks at
\* the reason only.
FinalContentSkipped(n) == <<>>
FinalContent(n) == <<Delta(n)>>

\* The chunk with a finish_reason: perhaps its content, the buffered usage, its
\* own usage, and the end.  A usage chunk that follows is never read.
ReadFinish ==
    /\ reader = "reading"
    /\ format = "openai"
    /\ \E more \in {0, 1}, usage \in {<<>>, <<Usage(UsageParts)>>} :
        /\ deltas[cur] + more <= MaxDeltas
        /\ begun[cur] <= deltas[cur] + more
        /\ deltas' = [deltas EXCEPT ![cur] = @ + more]
        /\ begun' = [begun EXCEPT ![cur] = deltas[cur] + more]
        /\ LET content == IF more = 0 THEN <<>>
                          ELSE FinalContent(Text(cur, deltas[cur] + 1)) IN
            chan' = chan \o content \o Flush \o usage \o <<End>>
    /\ reader' = AfterTerminal
    /\ buffered' = {}
    /\ UNCHANGED <<handlerVars, format, split>>

\* The body ends without a terminal event.  A part of an event that is left in
\* sse_buffer is dropped, be it a delta, usage or the terminal event itself.
ReadEof ==
    /\ reader = "reading"
    /\ chan' = chan \o Flush \o <<End>>
    /\ reader' = "done"
    /\ buffered' = {}
    /\ UNCHANGED <<handlerVars, format, deltas, arrivalVars>>

\* What the reader says when the connection breaks or times out, and a faulty
\* variant that only leaves.
BrokenQuietly == <<>>
BrokenEvents == <<End>>

ReadFails ==
    /\ reader = "reading"
    /\ chan' = chan \o BrokenEvents
    /\ reader' = "done"
    /\ buffered' = {}
    /\ UNCHANGED <<handlerVars, format, deltas, arrivalVars>>

----------------------------------------------------------------------------
Init ==
    /\ waiting = Tasks
    /\ stage = "idle"
    /\ cur = NoTask
    /\ busy = FALSE
    /\ seq = 0
    /\ result = Frame("failed", 0, 0, {})
    /\ frames = [t \in Tasks |-> <<>>]
    /\ row = [t \in Tasks |-> "none"]
    /\ format = NoFormat
    /\ reader = "none"
    /\ buffered = {}
    /\ chan = <<>>
    /\ begun = [t \in Tasks |-> 0]
    /\ split = {}
    /\ deltas = [t \in Tasks |-> 0]

Takes == \E t \in Tasks : Refuse(t) \/ Call(t)
Returns == CallFails \/ CallPanics \/ PlainCompletes \/ StreamOpens
Receive == ReceiveDelta \/ ReceiveUsage \/ ReceiveEnd \/ Drained
Ends == ReadDone \/ ReadMessageStop \/ ReadFinish \/ ReadEof \/ ReadFails

Reads == ReadPart \/ ReadDelta \/ ReadUsage
Next == Takes \/ Returns \/ Receive \/ Cooled \/ Reads \/ Ends

Spec == Init /\ [][Next]_vars

\* The handler is polled; a call returns within the timeout of its HTTP client;
\* so does a stream: the client for streams has a total timeout of 600 seconds,
\* after which the read fails.
Fairness ==
    /\ WF_vars(Takes)
    /\ WF_vars(Returns)
    /\ WF_vars(Receive)
    /\ WF_vars(Cooled)
    /\ WF_vars(Ends)

FairSpec == Spec /\ Fairness
=============================================================================
