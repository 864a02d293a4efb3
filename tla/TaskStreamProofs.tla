-------------------------- MODULE TaskStreamProofs --------------------------
(***************************************************************************)
(* Proofs about the task runner, for any tasks, formats and numbers of     *)
(* deltas: what it sends for a task, and that it keeps the contract of     *)
(* StreamedTask.                                                           *)
(***************************************************************************)
EXTENDS TaskStreamProps, SequenceTheorems, TLAPS

----------------------------------------------------------------------------
(* The inductive invariant.                                                *)

\* The frame of the n-th delta of t: chunks are numbered as the deltas are.
ChunkFrame(t, n) == Frame("running", n, Text(t, n), {})

\* A task for which nothing was sent or read.
Untouched(t) == frames[t] = <<>> /\ deltas[t] = 0

\* The first n frames of a task are its first n chunks.
ChunksFirst(t, n) == \A i \in 1 .. n : frames[t][i] = ChunkFrame(t, i)

\* A task that has all its chunks and then the answer status.
AnsweredWith(t, status) ==
    /\ Len(frames[t]) = deltas[t] + 1
    /\ ChunksFirst(t, deltas[t])
    /\ frames[t][deltas[t] + 1].status = status
    /\ frames[t][deltas[t] + 1].content = 0

\* Tasks still on the task channel are untouched, those the handler is done with
\* answered as their row says.
OtherTasksInv ==
    /\ \A t \in waiting : t # cur /\ Untouched(t)
    /\ \A t \in Tasks \ waiting :
        t # cur => row[t] \in Answers /\ AnsweredWith(t, row[t])

\* There is a task but when the handler is idle, and a reader and events for it
\* only while it is streamed.
PlaceInv ==
    /\ stage = "idle" <=> cur = NoTask
    /\ stage = "streaming" => cur \in StreamTasks /\ reader # "none"
    /\ stage # "streaming" => reader = "none" /\ chan = <<>>

\* The events on the channel after the first n: usage, and the end once the reader
\* is done.
TailOfChannel(n) ==
    /\ \A i \in n + 1 .. Len(chan) : chan[i].kind # "delta" /\ chan[i].content = 0
    /\ \A i \in DOMAIN chan : chan[i].kind = "end" => i = Len(chan)
    /\ reader = "reading" => Len(chan) = n
    /\ reader = "done" => Len(chan) > n /\ chan[Len(chan)] = End

\* The stream runs: chunks up to seq are sent, the deltas after seq come next.
Running ==
    /\ result.status = "failed" /\ result.content = 0
    /\ seq <= deltas[cur]
    /\ Len(frames[cur]) = seq
    /\ ChunksFirst(cur, seq)
    /\ deltas[cur] - seq <= Len(chan)
    /\ \A i \in 1 .. deltas[cur] - seq : chan[i] = Delta(Text(cur, seq + i))
    /\ TailOfChannel(deltas[cur] - seq)

\* The end has been received: the channel is drained, the answer sent.
Ended ==
    /\ result.status = "completed" /\ result.content = 0
    /\ reader = "done" /\ chan = <<>>
    /\ AnsweredWith(cur, "completed")

\* What has been sent for the task the handler works on.
CurrentInv ==
    /\ stage \in {"calling", "dead"} => Untouched(cur)
    /\ stage = "calling" => seq = 0 /\ result = Frame("failed", 0, 0, {})
    /\ stage = "streaming" => Running \/ Ended
    /\ stage = "cooling" =>
        /\ row[cur] \in Answers
        /\ cur \in StreamTasks => AnsweredWith(cur, row[cur])
        /\ cur \notin StreamTasks =>
            /\ Untouched(cur)
            /\ result.status = row[cur] /\ result.content = 0 /\ result.sequence = 0

StreamInv == TypeOK /\ OtherTasksInv /\ PlaceInv /\ CurrentInv

----------------------------------------------------------------------------
(* Frames and events.                                                      *)

\* What emitting a frame for a task changes.
LEMMA EmitFacts ==
    ASSUME frames \in [Tasks -> Seq(Frames)], NEW t \in Tasks, NEW f \in Frames, Emit(t, f)
    PROVE  /\ frames' \in [Tasks -> Seq(Frames)]
           /\ \A u \in Tasks : u # t => frames'[u] = frames[u]
           /\ frames'[t] = Append(frames[t], f)
           /\ Len(frames[t]) \in Nat /\ Len(frames'[t]) = Len(frames[t]) + 1
           /\ \A i \in 1 .. Len(frames[t]) : frames'[t][i] = frames[t][i]
           /\ frames'[t][Len(frames[t]) + 1] = f
  <1>1. frames' = [frames EXCEPT ![t] = Append(@, f)]
    BY DEF Emit
  <1>2. frames[t] \in Seq(Frames)
    OBVIOUS
  <1>3. frames'[t] = Append(frames[t], f)
    BY <1>1
  <1>4. Append(frames[t], f) \in Seq(Frames)
    BY <1>2, AppendProperties
  <1>5. Len(frames[t]) \in Nat
    BY <1>2, LenProperties
  <1> QED
    BY <1>1, <1>2, <1>3, <1>4, <1>5, AppendProperties

\* The answer completes the frames of a task whose chunks have all been sent.
LEMMA AnswerCompletes ==
    ASSUME frames \in [Tasks -> Seq(Frames)], NEW t \in Tasks, NEW f \in Frames, Emit(t, f),
           deltas[t] \in Nat, deltas'[t] = deltas[t], split' = split,
           Len(frames[t]) = deltas[t], ChunksFirst(t, deltas[t]),
           f.content = 0, NEW status, status = f.status
    PROVE  AnsweredWith(t, status)'
  BY EmitFacts DEF ChunksFirst, ChunkFrame, Text, AnsweredWith

\* The records sent and queued have their types.
LEMMA RecordTypes ==
    /\ \A status \in {"running"} \union Answers, n, c \in Nat, usage \in SUBSET UsageParts :
        Frame(status, n, c, usage) \in Frames
    /\ \A n \in Nat : Delta(n) \in Events
    /\ \A parts \in SUBSET UsageParts : Usage(parts) \in Events
    /\ End \in Events
  BY DEF Frame, Frames, Delta, Usage, End, Events

\* What is read for a delta is content.
LEMMA TextIsContent ==
    ASSUME NEW t, NEW n \in Nat
    PROVE  Text(t, n) \in Nat
  BY ConstAssumption DEF Text

\* A channel that holds the deltas of t after m up to n and nothing else.
HoldsDeltas(c, t, m, n) ==
    /\ c \in Seq(Events)
    /\ Len(c) = n - m
    /\ \A i \in 1 .. n - m : c[i] = Delta(Text(t, m + i))

\* Events without content that finish a stream: the end comes last and once.
TerminalTail(s) ==
    /\ s \in Seq(Events)
    /\ Len(s) > 0
    /\ s[Len(s)] = End
    /\ \A i \in 1 .. Len(s) : s[i].kind # "delta" /\ s[i].content = 0
    /\ \A i \in 1 .. Len(s) : s[i].kind = "end" => i = Len(s)

\* One delta more on the channel.
LEMMA OneMoreDelta ==
    ASSUME NEW c, NEW t, NEW m \in Nat, NEW n \in Nat, m <= n, HoldsDeltas(c, t, m, n)
    PROVE  /\ HoldsDeltas(c \o <<Delta(Text(t, n + 1))>>, t, m, n + 1)
           /\ HoldsDeltas(Append(c, Delta(Text(t, n + 1))), t, m, n + 1)
  <1>1. c \in Seq(Events) /\ Delta(Text(t, n + 1)) \in Events
    BY RecordTypes, TextIsContent DEF HoldsDeltas
  <1>2. Append(c, Delta(Text(t, n + 1))) = c \o <<Delta(Text(t, n + 1))>>
    BY <1>1, AppendIsConcat
  <1>3. HoldsDeltas(Append(c, Delta(Text(t, n + 1))), t, m, n + 1)
    <2>1. /\ Append(c, Delta(Text(t, n + 1))) \in Seq(Events)
          /\ Len(Append(c, Delta(Text(t, n + 1)))) = Len(c) + 1
          /\ \A i \in 1 .. Len(c) : Append(c, Delta(Text(t, n + 1)))[i] = c[i]
          /\ Append(c, Delta(Text(t, n + 1)))[Len(c) + 1] = Delta(Text(t, n + 1))
      BY <1>1, AppendProperties
    <2>2. Len(c) = n - m /\ Len(c) + 1 = (n + 1) - m /\ m + (Len(c) + 1) = n + 1
      BY DEF HoldsDeltas
    <2>3. \A i \in 1 .. Len(c) : Append(c, Delta(Text(t, n + 1)))[i] = Delta(Text(t, m + i))
      BY <2>1, <2>2 DEF HoldsDeltas
    <2>4. Append(c, Delta(Text(t, n + 1)))[Len(c) + 1] = Delta(Text(t, m + (Len(c) + 1)))
      BY <2>1, <2>2
    <2>5. \A i \in 1 .. (n + 1) - m : i \in 1 .. Len(c) \/ i = Len(c) + 1
      BY <2>2
    <2> QED
      BY <2>1, <2>2, <2>3, <2>4, <2>5 DEF HoldsDeltas
  <1> QED
    BY <1>2, <1>3

\* The end alone finishes a stream, and so does usage before what finishes it.
LEMMA EndFinishes == TerminalTail(<<End>>)
  BY RecordTypes DEF TerminalTail, End

LEMMA UsageBeforeEnd ==
    ASSUME NEW s, TerminalTail(s), NEW parts \in SUBSET UsageParts
    PROVE  TerminalTail(<<Usage(parts)>> \o s)
  <1> DEFINE u == <<Usage(parts)>>
  <1>1. u \in Seq(Events) /\ Len(u) = 1 /\ u[1].kind = "usage" /\ u[1].content = 0
    BY RecordTypes DEF Usage
  <1>2. s \in Seq(Events) /\ Len(s) \in Nat
    BY LenProperties DEF TerminalTail
  <1> HIDE DEF u
  <1>3. /\ u \o s \in Seq(Events)
        /\ Len(u \o s) = 1 + Len(s)
        /\ \A i \in 1 .. 1 + Len(s) : (u \o s)[i] = IF i <= 1 THEN u[1] ELSE s[i - 1]
    <2>1. /\ u \o s \in Seq(Events)
          /\ Len(u \o s) = Len(u) + Len(s)
          /\ \A i \in 1 .. Len(u) + Len(s) :
                (u \o s)[i] = IF i <= Len(u) THEN u[i] ELSE s[i - Len(u)]
      BY <1>1, <1>2, ConcatProperties, Zenon
    <2>2. \A i \in 1 .. 1 + Len(s) : i <= 1 => i = 1
      BY <1>2
    <2> QED
      BY <1>1, <2>1, <2>2
  <1>4. Len(s) > 0 /\ (u \o s)[1] = u[1] /\ \A i \in 1 .. Len(s) : (u \o s)[i + 1] = s[i]
    <2>1. Len(s) > 0
      BY DEF TerminalTail
    <2>2. 1 \in 1 .. 1 + Len(s)
      BY <1>2
    <2>3. ASSUME NEW i \in 1 .. Len(s) PROVE (u \o s)[i + 1] = s[i]
      <3>1. i + 1 \in 1 .. 1 + Len(s) /\ ~(i + 1 <= 1) /\ (i + 1) - 1 = i
        BY <1>2
      <3>2. (u \o s)[i + 1] = s[(i + 1) - 1]
        BY <1>3, <3>1
      <3> QED
        BY <3>1, <3>2
    <2> QED
      BY <1>3, <2>1, <2>2, <2>3
  <1>5. \A i \in 1 .. Len(u \o s) : i = 1 \/ \E j \in 1 .. Len(s) : i = j + 1
    <2> SUFFICES ASSUME NEW i \in 1 .. Len(u \o s), i # 1
                 PROVE  \E j \in 1 .. Len(s) : i = j + 1
      OBVIOUS
    <2>1. i - 1 \in 1 .. Len(s) /\ i = (i - 1) + 1
      BY <1>2, <1>3
    <2> QED
      BY <2>1
  <1>6. \A i \in 1 .. Len(u \o s) :
            (u \o s)[i].kind # "delta" /\ (u \o s)[i].content = 0
    <2>1. (u \o s)[1].kind # "delta" /\ (u \o s)[1].content = 0
      BY <1>1, <1>4
    <2>2. \A j \in 1 .. Len(s) :
              (u \o s)[j + 1].kind # "delta" /\ (u \o s)[j + 1].content = 0
      BY <1>4 DEF TerminalTail
    <2> QED
      BY <1>5, <2>1, <2>2
  <1>7. \A i \in 1 .. Len(u \o s) : (u \o s)[i].kind = "end" => i = Len(u \o s)
    BY <1>1, <1>2, <1>3, <1>4, <1>5 DEF TerminalTail
  <1>8. (u \o s)[Len(u \o s)] = End /\ Len(u \o s) > 0
    BY <1>2, <1>3, <1>4 DEF TerminalTail
  <1>9. TerminalTail(u \o s)
    BY <1>3, <1>6, <1>7, <1>8 DEF TerminalTail
  <1> QED
    BY <1>9 DEF u

\* Concatenation to the left and to the right.
Regroups(a, b, d) == (a \o b) \o d = a \o (b \o d)

LEMMA Regroup ==
    ASSUME NEW a \in Seq(Events), NEW b \in Seq(Events), NEW d \in Seq(Events)
    PROVE  Regroups(a, b, d)
  BY DEF Regroups

\* What the reader sends after the content of its last chunk.
LEMMA LastEvents ==
    ASSUME buffered \in SUBSET UsageParts, NEW c \in Seq(Events),
           NEW usage \in {<<>>, <<Usage(UsageParts)>>}
    PROVE  \E s : TerminalTail(s) /\ c \o Flush \o usage \o <<End>> = c \o s
  <1>1. Flush \in Seq(Events) /\ usage \in Seq(Events) /\ <<End>> \in Seq(Events)
    <2>1. Usage(buffered) \in Events /\ Usage(UsageParts) \in Events /\ End \in Events
      BY RecordTypes
    <2>2. \A e \in Events : <<e>> \in Seq(Events)
      OBVIOUS
    <2>3. <<>> \in Seq(Events)
      OBVIOUS
    <2> QED
      BY <2>1, <2>2, <2>3 DEF Flush
  <1>2. usage \o <<End>> \in Seq(Events) /\ c \o Flush \in Seq(Events)
    BY <1>1, ConcatProperties
  <1>3. c \o Flush \o usage \o <<End>> = c \o (Flush \o (usage \o <<End>>))
    <2>1. Regroups(c \o Flush, usage, <<End>>)
      BY <1>1, <1>2, Regroup, Zenon
    <2>2. Regroups(c, Flush, usage \o <<End>>)
      BY <1>1, <1>2, Regroup, Zenon
    <2> QED
      BY <2>1, <2>2, Zenon DEF Regroups
  <1>4. TerminalTail(usage \o <<End>>)
    <2>1. CASE usage = <<>>
      BY <2>1, <1>1, EndFinishes, ConcatEmptySeq
    <2>2. CASE usage = <<Usage(UsageParts)>>
      BY <2>2, EndFinishes, UsageBeforeEnd
    <2> QED
      BY <2>1, <2>2
  <1>5. TerminalTail(Flush \o (usage \o <<End>>))
    <2>1. CASE buffered = {}
      BY <2>1, <1>2, <1>4, ConcatEmptySeq DEF Flush
    <2>2. CASE buffered # {}
      BY <2>2, <1>4, UsageBeforeEnd DEF Flush
    <2> QED
      BY <2>1, <2>2
  <1> QED
    BY <1>3, <1>5

\* The same without usage of the last chunk's own.
LEMMA FlushedEvents ==
    ASSUME buffered \in SUBSET UsageParts, NEW c \in Seq(Events)
    PROVE  \E s : TerminalTail(s) /\ c \o Flush \o <<End>> = c \o s
  <1>1. c \o Flush \in Seq(Events)
    BY RecordTypes, ConcatProperties DEF Flush
  <1>2. c \o Flush \o <<>> = c \o Flush
    BY <1>1, ConcatEmptySeq
  <1>3. \E s : TerminalTail(s) /\ c \o Flush \o <<>> \o <<End>> = c \o s
    BY LastEvents
  <1> QED
    BY <1>2, <1>3

----------------------------------------------------------------------------
(* The initial state.                                                      *)

LEMMA InitStreamInv == Init => StreamInv
  <1> SUFFICES ASSUME Init PROVE StreamInv
    OBVIOUS
  <1>1. TypeOK
    <2>1. seq \in 0 .. MaxDeltas + 1 /\ \A t \in Tasks : deltas[t] \in 0 .. MaxDeltas
      BY ConstAssumption DEF Init
    <2>2. result \in Frames
      BY RecordTypes DEF Init, Answers
    <2>3. frames \in [Tasks -> Seq(Frames)] /\ chan \in Seq(Events)
      BY DEF Init
    <2>4. deltas \in [Tasks -> 0 .. MaxDeltas]
      BY <2>1 DEF Init
    <2> QED
      BY <2>1, <2>2, <2>3, <2>4 DEF Init, TypeOK, Stages, ReaderStates
  <1>2. OtherTasksInv
    BY NoTaskAssumption DEF Init, OtherTasksInv, Untouched
  <1>3. PlaceInv
    BY DEF Init, PlaceInv
  <1>4. CurrentInv
    BY DEF Init, CurrentInv
  <1> QED
    BY <1>1, <1>2, <1>3, <1>4 DEF StreamInv

----------------------------------------------------------------------------
(* The steps of the handler.                                               *)

\* The types of single variables.
LEMMA Types ==
    ASSUME TypeOK
    PROVE  /\ waiting \in SUBSET Tasks
           /\ stage # "idle" => cur \in Tasks
           /\ seq \in Nat
           /\ result \in Frames
           /\ frames \in [Tasks -> Seq(Frames)]
           /\ \A t \in Tasks : deltas[t] \in 0 .. MaxDeltas /\ deltas[t] \in Nat
           /\ chan \in Seq(Events)
           /\ MaxDeltas \in Nat
  BY ConstAssumption DEF TypeOK

\* A step that touches no task but the one the handler works on.
LEMMA OthersKept ==
    ASSUME TypeOK, OtherTasksInv, UNCHANGED <<waiting, cur, split>>,
           \A t \in Tasks : t # cur =>
                frames'[t] = frames[t] /\ deltas'[t] = deltas[t] /\ row'[t] = row[t]
    PROVE  OtherTasksInv'
  <1>1. waiting \in SUBSET Tasks
    BY Types
  <1>2. \A t \in waiting' : t # cur' /\ Untouched(t)'
    BY <1>1 DEF OtherTasksInv, Untouched
  <1>3. ASSUME NEW t \in Tasks \ waiting', t # cur'
        PROVE  row'[t] \in Answers /\ AnsweredWith(t, row[t])'
    <2>1. row[t] \in Answers /\ AnsweredWith(t, row[t])
      BY <1>3 DEF OtherTasksInv
    <2>2. frames'[t] = frames[t] /\ deltas'[t] = deltas[t] /\ row'[t] = row[t]
      BY <1>3
    <2> QED
      BY <2>1, <2>2 DEF AnsweredWith, ChunksFirst, ChunkFrame, Text
  <1> QED
    BY <1>2, <1>3 DEF OtherTasksInv

\* An answered task stays so while nothing is sent or read for it.
LEMMA AnsweredStays ==
    ASSUME NEW t, NEW status, AnsweredWith(t, status),
           frames'[t] = frames[t], deltas'[t] = deltas[t], split' = split
    PROVE  AnsweredWith(t, status)'
  BY DEF AnsweredWith, ChunksFirst, ChunkFrame, Text

LEMMA RefuseKeepsInv ==
    ASSUME StreamInv, NEW t \in Tasks, Refuse(t)
    PROVE  StreamInv'
  <1> USE DEF StreamInv
  <1>1. PICK status \in {"rejected", "busy"} :
            Emit(t, Frame(status, 0, 0, {})) /\ LogRow(t, status)
    BY DEF Refuse
  <1>2. /\ stage = "idle" /\ t \in waiting /\ waiting' = waiting \ {t}
        /\ UNCHANGED <<stage, cur, busy, seq, result, format, reader, buffered, chan, deltas, begun, split>>
    BY DEF Refuse, readerVars, arrivalVars
  <1>3. Frame(status, 0, 0, {}) \in Frames /\ Frame(status, 0, 0, {}).content = 0
        /\ Frame(status, 0, 0, {}).status = status
    BY RecordTypes DEF Answers, Frame
  <1>4. cur = NoTask /\ Untouched(t)
    BY <1>2 DEF PlaceInv, OtherTasksInv
  <1>5. /\ frames' \in [Tasks -> Seq(Frames)]
        /\ \A u \in Tasks : u # t => frames'[u] = frames[u]
    BY <1>1, <1>3, Types, EmitFacts
  <1>6. row' = [row EXCEPT ![t] = status] /\ row \in [Tasks -> Answers \union {"none"}]
    BY <1>1 DEF LogRow, TypeOK
  <1>7. row' \in [Tasks -> Answers \union {"none"}]
    BY <1>6 DEF Answers
  <1>8. TypeOK'
    BY <1>2, <1>5, <1>7 DEF TypeOK
  <1>9. AnsweredWith(t, status)'
    <2>1. Len(frames[t]) = deltas[t] /\ deltas[t] = 0 /\ ChunksFirst(t, deltas[t])
      BY <1>4 DEF Untouched, ChunksFirst, ChunkFrame, Text
    <2>2. frames \in [Tasks -> Seq(Frames)] /\ deltas'[t] = deltas[t] /\ split' = split
      BY <1>2, Types
    <2>3. deltas[t] \in Nat
      BY Types
    <2> QED
      BY <1>1, <1>3, <2>1, <2>2, <2>3, AnswerCompletes
  <1>10. OtherTasksInv'
    <2>1. \A u \in waiting' : u # cur' /\ Untouched(u)'
      BY <1>2, <1>4, <1>5, Types DEF OtherTasksInv, Untouched
    <2>2. ASSUME NEW u \in Tasks \ waiting', u # cur'
          PROVE  row'[u] \in Answers /\ AnsweredWith(u, row[u])'
      <3>1. CASE u = t
        <4>1. row'[u] = status /\ status \in Answers
          BY <1>6, <3>1 DEF Answers
        <4> QED
          BY <4>1, <3>1, <1>9 DEF AnsweredWith, ChunksFirst, ChunkFrame, Text
      <3>2. CASE u # t
        <4>1. row[u] \in Answers /\ AnsweredWith(u, row[u])
          BY <1>2, <2>2, <3>2 DEF OtherTasksInv
        <4>2. row'[u] = row[u] /\ frames'[u] = frames[u] /\ deltas'[u] = deltas[u] /\ split' = split
          BY <1>2, <1>5, <1>6, <3>2
        <4> QED
          BY <4>1, <4>2 DEF AnsweredWith, ChunksFirst, ChunkFrame, Text
      <3> QED
        BY <3>1, <3>2
    <2> QED
      BY <2>1, <2>2 DEF OtherTasksInv
  <1>11. PlaceInv'
    BY <1>2 DEF PlaceInv
  <1>12. CurrentInv'
    BY <1>2 DEF CurrentInv
  <1> QED
    BY <1>8, <1>10, <1>11, <1>12

LEMMA CallKeepsInv ==
    ASSUME StreamInv, NEW t \in Tasks, Call(t)
    PROVE  StreamInv'
  <1> USE DEF StreamInv
  <1>1. /\ stage = "idle" /\ stage' = "calling" /\ t \in waiting
        /\ waiting' = waiting \ {t} /\ cur' = t /\ seq' = 0
        /\ result' = Frame("failed", 0, 0, {})
        /\ UNCHANGED <<frames, row, reader, buffered, chan, deltas, begun, split>>
    BY DEF Call, readerVars, arrivalVars
  <1>2. cur = NoTask /\ Untouched(t)
    BY <1>1 DEF PlaceInv, OtherTasksInv
  <1>3. result' \in Frames /\ seq' \in 0 .. MaxDeltas + 1
    BY <1>1, RecordTypes, ConstAssumption DEF Answers
  <1>4. busy' \in BOOLEAN /\ format' \in Formats /\ format' # NoFormat
    BY ConstAssumption DEF Call, AllFormats, NoFormat
  <1>5. TypeOK'
    BY <1>1, <1>3, <1>4 DEF TypeOK, Stages
  <1>6. OtherTasksInv'
    <2>1. \A u \in waiting' : u # cur' /\ Untouched(u)'
      BY <1>1, Types DEF OtherTasksInv, Untouched
    <2>2. ASSUME NEW u \in Tasks \ waiting', u # cur'
          PROVE  row'[u] \in Answers /\ AnsweredWith(u, row[u])'
      <3>1. u \in Tasks \ waiting /\ u # cur
        BY <1>1, <1>2, <2>2, NoTaskAssumption
      <3>2. row[u] \in Answers /\ AnsweredWith(u, row[u])
        BY <3>1 DEF OtherTasksInv
      <3> QED
        BY <1>1, <3>2 DEF AnsweredWith, ChunksFirst, ChunkFrame, Text
    <2> QED
      BY <2>1, <2>2 DEF OtherTasksInv
  <1>7. PlaceInv'
    BY <1>1, NoTaskAssumption DEF PlaceInv
  <1>8. CurrentInv'
    BY <1>1, <1>2 DEF CurrentInv, Untouched
  <1> QED
    BY <1>5, <1>6, <1>7, <1>8

LEMMA CallFailsKeepsInv ==
    ASSUME StreamInv, CallFails
    PROVE  StreamInv'
  <1> USE DEF StreamInv
  <1>1. /\ stage = "calling" /\ stage' = "cooling" /\ busy' = FALSE
        /\ result' = Frame("failed", 0, 0, {})
        /\ row' = [row EXCEPT ![cur] = "failed"]
        /\ UNCHANGED <<waiting, cur, seq, format, reader, buffered, chan, deltas, begun, split>>
    BY DEF CallFails, Finish, Released, LogRow, readerVars, arrivalVars
  <1>2. cur \in Tasks /\ cur # NoTask
    BY <1>1, Types DEF PlaceInv
  <1>3. Untouched(cur)
    BY <1>1 DEF CurrentInv
  <1>4. /\ result' \in Frames
        /\ result'.status = "failed" /\ result'.content = 0 /\ result'.sequence = 0
    BY <1>1, RecordTypes DEF Answers, Frame
  <1>5. /\ frames' \in [Tasks -> Seq(Frames)]
        /\ \A u \in Tasks : u # cur => frames'[u] = frames[u]
    <2>1. CASE cur \in StreamTasks
      <3>1. Emit(cur, result') /\ frames \in [Tasks -> Seq(Frames)]
        BY <2>1, Types DEF CallFails
      <3> QED
        BY <3>1, <1>2, <1>4, EmitFacts
    <2>2. CASE cur \notin StreamTasks
      BY <2>2, Types DEF CallFails
    <2> QED
      BY <2>1, <2>2
  <1>6. row' \in [Tasks -> Answers \union {"none"}]
        /\ \A u \in Tasks : u # cur => row'[u] = row[u]
    <2>1. row \in [Tasks -> Answers \union {"none"}]
      BY DEF TypeOK
    <2> QED
      BY <1>1, <2>1 DEF Answers
  <1>7. row'[cur] = "failed"
    BY <1>1, <1>2 DEF TypeOK
  <1>8. TypeOK'
    BY <1>1, <1>2, <1>4, <1>5, <1>6 DEF TypeOK, Stages
  <1>9. OtherTasksInv'
    BY <1>1, <1>5, <1>6, OthersKept
  <1>10. PlaceInv'
    BY <1>1, <1>2 DEF PlaceInv
  <1>11. CurrentInv'
    <2>1. row'[cur'] \in Answers
      BY <1>1, <1>7 DEF Answers
    <2>2. ASSUME cur \in StreamTasks PROVE AnsweredWith(cur, "failed")'
      <3>1. PICK t \in Tasks, f \in Frames : t = cur /\ f = result'
        BY <1>2, <1>4
      <3>2. Len(frames[t]) = deltas[t] /\ ChunksFirst(t, deltas[t])
        BY <1>3, <3>1 DEF Untouched, ChunksFirst, ChunkFrame, Text
      <3>3. /\ Emit(t, f) /\ frames \in [Tasks -> Seq(Frames)]
            /\ deltas[t] \in Nat /\ deltas'[t] = deltas[t] /\ split' = split
        BY <1>1, <2>2, <3>1, Types DEF CallFails
      <3>4. AnsweredWith(t, "failed")'
        BY <1>4, <3>1, <3>2, <3>3, AnswerCompletes
      <3> QED
        BY <1>1, <3>1, <3>4 DEF AnsweredWith, ChunksFirst, ChunkFrame, Text
    <2>3. ASSUME cur \notin StreamTasks PROVE Untouched(cur)'
      BY <1>1, <1>3, <2>3 DEF CallFails, Untouched
    <2> QED
      BY <1>1, <1>4, <1>7, <2>1, <2>2, <2>3 DEF CurrentInv, AnsweredWith, ChunksFirst, ChunkFrame, Text
  <1> QED
    BY <1>8, <1>9, <1>10, <1>11

LEMMA CallPanicsKeepsInv ==
    ASSUME StreamInv, CallPanics
    PROVE  StreamInv'
  <1> USE DEF StreamInv
  <1>1. /\ stage = "calling" /\ stage' = "dead"
        /\ UNCHANGED <<waiting, cur, busy, seq, result, frames, row, format, reader, buffered,
                       chan, deltas, begun, split>>
    BY DEF CallPanics, readerVars, arrivalVars
  <1>2. TypeOK' /\ PlaceInv'
    BY <1>1 DEF TypeOK, Stages, PlaceInv
  <1>3. OtherTasksInv'
    BY <1>1, OthersKept
  <1>4. CurrentInv'
    BY <1>1 DEF CurrentInv, Untouched
  <1> QED
    BY <1>2, <1>3, <1>4

LEMMA PlainCompletesKeepsInv ==
    ASSUME StreamInv, PlainCompletes
    PROVE  StreamInv'
  <1> USE DEF StreamInv
  <1>1. /\ stage = "calling" /\ stage' = "cooling" /\ busy' = FALSE
        /\ cur \notin StreamTasks
        /\ row' = [row EXCEPT ![cur] = "completed"]
        /\ UNCHANGED <<waiting, cur, seq, frames, format, reader, buffered, chan, deltas, begun, split>>
    BY DEF PlainCompletes, Finish, Released, LogRow, readerVars, arrivalVars
  <1>2. cur \in Tasks /\ cur # NoTask
    BY <1>1, Types DEF PlaceInv
  <1>3. Untouched(cur)
    BY <1>1 DEF CurrentInv
  <1>4. /\ result' \in Frames
        /\ result'.status = "completed" /\ result'.content = 0 /\ result'.sequence = 0
    <2>1. PICK usage \in {{}, UsageParts} : result' = Frame("completed", 0, 0, usage)
      BY DEF PlainCompletes
    <2> QED
      BY <2>1, RecordTypes DEF Answers, Frame
  <1>5. row' \in [Tasks -> Answers \union {"none"}]
        /\ \A u \in Tasks : u # cur => row'[u] = row[u]
    <2>1. row \in [Tasks -> Answers \union {"none"}]
      BY DEF TypeOK
    <2> QED
      BY <1>1, <2>1 DEF Answers
  <1>6. row'[cur] = "completed"
    BY <1>1, <1>2 DEF TypeOK
  <1>7. TypeOK'
    BY <1>1, <1>2, <1>4, <1>5 DEF TypeOK, Stages
  <1>8. OtherTasksInv'
    BY <1>1, <1>5, OthersKept
  <1>9. PlaceInv'
    BY <1>1, <1>2 DEF PlaceInv
  <1>10. CurrentInv'
    BY <1>1, <1>3, <1>4, <1>6 DEF CurrentInv, Untouched, Answers
  <1> QED
    BY <1>7, <1>8, <1>9, <1>10

LEMMA StreamOpensKeepsInv ==
    ASSUME StreamInv, StreamOpens
    PROVE  StreamInv'
  <1> USE DEF StreamInv
  <1>1. /\ stage = "calling" /\ stage' = "streaming" /\ cur \in StreamTasks
        /\ reader' = "reading" /\ buffered' = {}
        /\ UNCHANGED <<waiting, cur, busy, seq, result, frames, row, format, chan, deltas, begun, split>>
    BY DEF StreamOpens, arrivalVars
  <1>2. cur # NoTask /\ chan = <<>>
    BY <1>1 DEF PlaceInv
  <1>3. Untouched(cur) /\ seq = 0 /\ result.status = "failed" /\ result.content = 0
    BY <1>1 DEF CurrentInv, Frame
  <1>4. TypeOK'
    BY <1>1 DEF TypeOK, Stages, ReaderStates
  <1>5. OtherTasksInv'
    BY <1>1, OthersKept
  <1>6. PlaceInv'
    BY <1>1, <1>2 DEF PlaceInv
  <1>7. Running'
    BY <1>1, <1>2, <1>3 DEF Running, Untouched, ChunksFirst, ChunkFrame, Text, TailOfChannel
  <1>8. CurrentInv'
    BY <1>1, <1>7 DEF CurrentInv
  <1> QED
    BY <1>4, <1>5, <1>6, <1>8

LEMMA CooledKeepsInv ==
    ASSUME StreamInv, Cooled
    PROVE  StreamInv'
  <1> USE DEF StreamInv
  <1>1. /\ stage = "cooling" /\ stage' = "idle" /\ cur' = NoTask
        /\ seq' = 0 /\ result' = Frame("failed", 0, 0, {}) /\ format' = NoFormat
        /\ UNCHANGED <<waiting, busy, row, reader, buffered, chan, deltas, begun, split>>
    BY DEF Cooled, readerVars, arrivalVars
  <1>2. cur \in Tasks /\ cur # NoTask
    BY <1>1, Types DEF PlaceInv
  <1>3. PICK t \in Tasks, f \in Frames : t = cur /\ f = result
    BY <1>2, Types
  <1>4. /\ row[t] \in Answers
        /\ t \in StreamTasks => AnsweredWith(t, row[t])
        /\ t \notin StreamTasks => Untouched(t) /\ f.status = row[t] /\ f.content = 0
    BY <1>1, <1>3 DEF CurrentInv
  <1>5. /\ frames' \in [Tasks -> Seq(Frames)]
        /\ \A u \in Tasks : u # t => frames'[u] = frames[u]
    <2>1. frames \in [Tasks -> Seq(Frames)]
      BY Types
    <2>2. CASE t \in StreamTasks
      BY <1>3, <2>1, <2>2 DEF Cooled
    <2>3. CASE t \notin StreamTasks
      <3>1. Emit(t, f)
        BY <1>3, <2>3 DEF Cooled
      <3> QED
        BY <2>1, <3>1, EmitFacts
    <2> QED
      BY <2>2, <2>3
  <1>6. AnsweredWith(t, row[t])'
    <2>1. CASE t \in StreamTasks
      BY <1>1, <1>3, <1>4, <2>1 DEF Cooled, AnsweredWith, ChunksFirst, ChunkFrame, Text
    <2>2. CASE t \notin StreamTasks
      <3>1. PICK status \in Answers : status = row[t]
        BY <1>4
      <3>2. Len(frames[t]) = deltas[t] /\ ChunksFirst(t, deltas[t])
        BY <1>4, <2>2 DEF Untouched, ChunksFirst, ChunkFrame, Text
      <3>3. /\ Emit(t, f) /\ frames \in [Tasks -> Seq(Frames)]
            /\ deltas[t] \in Nat /\ deltas'[t] = deltas[t] /\ split' = split
        BY <1>1, <1>3, <2>2, Types DEF Cooled
      <3>4. AnsweredWith(t, status)'
        BY <1>4, <2>2, <3>1, <3>2, <3>3, AnswerCompletes
      <3> QED
        BY <1>1, <3>1, <3>4 DEF AnsweredWith, ChunksFirst, ChunkFrame, Text
    <2> QED
      BY <2>1, <2>2
  <1>7. TypeOK'
    <2>1. result' \in Frames /\ seq' \in 0 .. MaxDeltas + 1
      BY <1>1, RecordTypes, ConstAssumption DEF Answers
    <2> QED
      BY <1>1, <1>5, <2>1 DEF TypeOK, Stages
  <1>8. OtherTasksInv'
    <2>1. \A u \in waiting' : u # cur' /\ Untouched(u)'
      <3>1. \A u \in waiting : u \in Tasks /\ u # t /\ Untouched(u)
        BY <1>3, Types DEF OtherTasksInv
      <3> QED
        BY <1>1, <1>5, <3>1, NoTaskAssumption DEF Untouched
    <2>2. ASSUME NEW u \in Tasks \ waiting', u # cur'
          PROVE  row'[u] \in Answers /\ AnsweredWith(u, row[u])'
      <3>1. CASE u = t
        BY <1>1, <1>4, <1>6, <3>1
      <3>2. CASE u # t
        <4>1. row[u] \in Answers /\ AnsweredWith(u, row[u])
          BY <1>1, <1>3, <3>2 DEF OtherTasksInv
        <4> QED
          BY <1>1, <1>5, <3>2, <4>1 DEF AnsweredWith, ChunksFirst, ChunkFrame, Text
      <3> QED
        BY <3>1, <3>2
    <2> QED
      BY <2>1, <2>2 DEF OtherTasksInv
  <1>9. PlaceInv'
    BY <1>1 DEF PlaceInv
  <1>10. CurrentInv'
    BY <1>1 DEF CurrentInv
  <1> QED
    BY <1>7, <1>8, <1>9, <1>10

----------------------------------------------------------------------------
(* The steps on the channel.                                               *)

\* An event is only received while the stream runs.
LEMMA ReceivesRunning ==
    ASSUME StreamInv, NEW kind, Receives(kind)
    PROVE  /\ stage = "streaming" /\ Running
           /\ cur \in Tasks /\ cur # NoTask
           /\ chan \in Seq(Events) /\ Len(chan) \in Nat /\ Len(chan) > 0
           /\ Head(chan) = chan[1] /\ chan[1].kind = kind /\ chan[1] \in Events
           /\ chan' = Tail(chan) /\ chan' \in Seq(Events)
           /\ Len(chan') = Len(chan) - 1
           /\ \A i \in 1 .. Len(chan) - 1 : chan'[i] = chan[i + 1]
  <1>1. stage = "streaming" /\ chan # <<>> /\ chan' = Tail(chan) /\ Head(chan).kind = kind
    BY DEF Receives
  <1>2. Running
    BY <1>1 DEF StreamInv, CurrentInv, Ended
  <1>3. cur \in Tasks /\ cur # NoTask /\ chan \in Seq(Events)
    BY <1>1, Types DEF StreamInv, PlaceInv
  <1>4. Head(chan) = chan[1] /\ Len(chan) \in Nat \ {0}
    BY <1>1, <1>3, EmptySeq
  <1>5. chan[1] \in Events
    BY <1>3, <1>4, ElementOfSeq
  <1>6. /\ Tail(chan) \in Seq(Events) /\ Len(Tail(chan)) = Len(chan) - 1
        /\ \A i \in 1 .. Len(Tail(chan)) : Tail(chan)[i] = chan[i + 1]
    BY <1>1, <1>3, HeadTailProperties
  <1> QED
    BY <1>1, <1>2, <1>3, <1>4, <1>5, <1>6

\* The rest of the channel is the tail of one delta less, or of none.
LEMMA TailShifts ==
    ASSUME chan \in Seq(Events), Len(chan) \in Nat,
           chan' \in Seq(Events), Len(chan') = Len(chan) - 1,
           \A i \in 1 .. Len(chan) - 1 : chan'[i] = chan[i + 1],
           reader' = reader,
           NEW n \in Nat, n <= Len(chan), TailOfChannel(n),
           NEW m \in Nat, m = n - 1 \/ (m = n /\ n = 0 /\ reader = "done" /\ Len(chan) > 1)
    PROVE  TailOfChannel(m)'
  <1>1. DOMAIN chan = 1 .. Len(chan) /\ DOMAIN chan' = 1 .. Len(chan')
    BY LenProperties
  <1>2. ASSUME NEW i \in m + 1 .. Len(chan')
        PROVE  chan'[i].kind # "delta" /\ chan'[i].content = 0
    <2>1. i \in 1 .. Len(chan) - 1 /\ i + 1 \in n + 1 .. Len(chan)
      OBVIOUS
    <2> QED
      BY <2>1 DEF TailOfChannel
  <1>3. ASSUME NEW i \in DOMAIN chan', chan'[i].kind = "end"
        PROVE  i = Len(chan')
    <2>1. i \in 1 .. Len(chan) - 1 /\ i + 1 \in DOMAIN chan
      BY <1>1
    <2>2. i + 1 = Len(chan)
      BY <1>3, <2>1 DEF TailOfChannel
    <2> QED
      BY <2>1, <2>2
  <1>4. reader' = "reading" => Len(chan') = m
    BY DEF TailOfChannel
  <1>5. ASSUME reader' = "done"
        PROVE  Len(chan') > m /\ chan'[Len(chan')] = End
    <2>1. Len(chan) > n /\ chan[Len(chan)] = End
      BY <1>5 DEF TailOfChannel
    <2>2. Len(chan) - 1 > m /\ Len(chan) - 1 \in 1 .. Len(chan) - 1
      BY <2>1
    <2>3. chan'[Len(chan) - 1] = chan[(Len(chan) - 1) + 1]
      BY <2>2
    <2>4. (Len(chan) - 1) + 1 = Len(chan)
      OBVIOUS
    <2> QED
      BY <2>1, <2>2, <2>3, <2>4
  <1> QED
    BY <1>2, <1>3, <1>4, <1>5 DEF TailOfChannel

LEMMA ReceiveDeltaKeepsInv ==
    ASSUME StreamInv, ReceiveDelta
    PROVE  StreamInv'
  <1> USE DEF StreamInv
  <1>1. /\ Receives("delta") /\ seq' = seq + 1
        /\ Emit(cur, Frame("running", seq + 1, Head(chan).content, {}))
        /\ UNCHANGED <<waiting, stage, cur, busy, result, row, format, reader, buffered, deltas, begun, split>>
    BY DEF ReceiveDelta, arrivalVars
  <1>2. /\ stage = "streaming" /\ Running
        /\ cur \in Tasks /\ cur # NoTask
        /\ chan \in Seq(Events) /\ Len(chan) \in Nat /\ Len(chan) > 0
        /\ Head(chan) = chan[1] /\ chan[1].kind = "delta"
        /\ chan' \in Seq(Events) /\ Len(chan') = Len(chan) - 1
        /\ \A i \in 1 .. Len(chan) - 1 : chan'[i] = chan[i + 1]
    BY <1>1, ReceivesRunning
  <1>3. PICK t \in Tasks : t = cur
    BY <1>2
  <1>4. PICK d \in 0 .. MaxDeltas : d = deltas[t]
    BY Types
  <1>5. /\ seq \in Nat /\ d \in Nat /\ MaxDeltas \in Nat
        /\ frames \in [Tasks -> Seq(Frames)]
    BY <1>4, Types
  <1>6. /\ seq <= d /\ Len(frames[t]) = seq /\ ChunksFirst(t, seq)
        /\ d - seq <= Len(chan)
        /\ \A i \in 1 .. d - seq : chan[i] = Delta(Text(t, seq + i))
        /\ TailOfChannel(d - seq)
        /\ result.status = "failed" /\ result.content = 0
    BY <1>2, <1>3, <1>4 DEF Running
  <1>7. seq + 1 <= d
    <2> SUFFICES ASSUME seq = d PROVE FALSE
      BY <1>5, <1>6
    <2>1. 1 \in (d - seq) + 1 .. Len(chan)
      BY <1>2, <1>5
    <2> QED
      BY <1>2, <1>6, <2>1 DEF TailOfChannel
  <1>8. Head(chan).content = Text(t, seq + 1)
    <2>1. chan[1] = Delta(Text(t, seq + 1))
      BY <1>5, <1>6, <1>7
    <2> QED
      BY <1>2, <2>1 DEF Delta
  <1>9. PICK f \in Frames : f = ChunkFrame(t, seq + 1)
    BY <1>5, RecordTypes, TextIsContent DEF ChunkFrame
  <1>10. /\ frames' \in [Tasks -> Seq(Frames)]
         /\ \A u \in Tasks : u # t => frames'[u] = frames[u]
         /\ Len(frames'[t]) = seq + 1
         /\ \A i \in 1 .. seq : frames'[t][i] = frames[t][i]
         /\ frames'[t][seq + 1] = ChunkFrame(t, seq + 1)
    <2>1. Emit(t, f)
      BY <1>1, <1>3, <1>8, <1>9 DEF ChunkFrame
    <2> QED
      BY <1>5, <1>6, <1>9, <2>1, EmitFacts
  <1>11. TypeOK'
    <2>1. seq' \in 0 .. MaxDeltas + 1
      BY <1>1, <1>4, <1>5, <1>7
    <2> QED
      BY <1>1, <1>2, <1>10, <2>1 DEF TypeOK
  <1>12. OtherTasksInv'
    BY <1>1, <1>3, <1>10, OthersKept
  <1>13. PlaceInv'
    BY <1>1, <1>2 DEF PlaceInv
  <1>14. \A i \in 1 .. seq + 1 : frames'[t][i] = ChunkFrame(t, i)
    <2>1. \A i \in 1 .. seq + 1 : i \in 1 .. seq \/ i = seq + 1
      BY <1>5
    <2>2. \A i \in 1 .. seq : frames'[t][i] = ChunkFrame(t, i)
      BY <1>6, <1>10 DEF ChunksFirst
    <2> QED
      BY <1>10, <2>1, <2>2
  <1>15. Running'
    <2>1. PICK n \in Nat : n = d - seq
      BY <1>5, <1>6
    <2>2. n - 1 \in Nat /\ n <= Len(chan) /\ TailOfChannel(n)
      BY <1>5, <1>6, <1>7, <2>1
    <2>3. PICK m \in Nat : m = n - 1
      BY <2>2
    <2>4. TailOfChannel(m)'
      BY <1>1, <1>2, <2>2, <2>3, TailShifts
    <2>5. deltas'[cur'] - seq' = m /\ m <= Len(chan') /\ seq' <= deltas'[cur']
      <3>1. seq' = seq + 1 /\ deltas'[cur'] = d /\ Len(chan') = Len(chan) - 1
        BY <1>1, <1>2, <1>3, <1>4
      <3>2. d - (seq + 1) = m /\ m <= Len(chan) - 1 /\ seq + 1 <= d
        BY <1>2, <1>5, <1>7, <2>1, <2>2, <2>3
      <3> QED
        BY <3>1, <3>2
    <2>6. ASSUME NEW i \in 1 .. m PROVE chan'[i] = Delta(Text(t, seq' + i))
      <3>1. i \in 1 .. Len(chan) - 1 /\ i + 1 \in 1 .. n
        BY <1>2, <2>2, <2>3
      <3>2. i + 1 \in 1 .. d - seq
        BY <2>1, <3>1
      <3>3. seq + (i + 1) = seq' + i
        <4>1. seq' = seq + 1 /\ seq \in Nat /\ i \in Int
          BY <1>1, <1>5
        <4> QED
          BY <4>1
      <3>4. chan'[i] = chan[i + 1] /\ chan[i + 1] = Delta(Text(t, seq + (i + 1)))
        BY <1>2, <1>6, <3>1, <3>2
      <3> QED
        BY <3>3, <3>4
    <2>7. /\ result'.status = "failed" /\ result'.content = 0
          /\ Len(frames'[cur']) = seq' /\ ChunksFirst(cur, seq)'
      BY <1>1, <1>3, <1>6, <1>10, <1>14 DEF ChunksFirst, ChunkFrame, Text
    <2>8. TailOfChannel(deltas[cur] - seq)'
      BY <2>4, <2>5 DEF TailOfChannel
    <2> QED
      BY <1>1, <1>3, <2>5, <2>6, <2>7, <2>8 DEF Running, Text
  <1>16. CurrentInv'
    BY <1>1, <1>2, <1>15 DEF CurrentInv
  <1> QED
    BY <1>11, <1>12, <1>13, <1>16

LEMMA ReceiveUsageKeepsInv ==
    ASSUME StreamInv, ReceiveUsage
    PROVE  StreamInv'
  <1> USE DEF StreamInv
  <1>1. /\ Receives("usage")
        /\ result' = [result EXCEPT !.usage = Head(chan).usage]
        /\ UNCHANGED <<waiting, stage, cur, busy, seq, frames, row, format, reader, buffered,
                       deltas, begun, split>>
    BY DEF ReceiveUsage, arrivalVars
  <1>2. /\ stage = "streaming" /\ Running
        /\ cur \in Tasks /\ cur # NoTask
        /\ chan \in Seq(Events) /\ Len(chan) \in Nat /\ Len(chan) > 0
        /\ Head(chan) = chan[1] /\ chan[1].kind = "usage" /\ chan[1] \in Events
        /\ chan' \in Seq(Events) /\ Len(chan') = Len(chan) - 1
        /\ \A i \in 1 .. Len(chan) - 1 : chan'[i] = chan[i + 1]
    BY <1>1, ReceivesRunning
  <1>3. PICK t \in Tasks, d \in Nat : t = cur /\ d = deltas[t]
    BY <1>2, Types
  <1>4. /\ seq \in Nat /\ seq <= d /\ d - seq <= Len(chan)
        /\ \A i \in 1 .. d - seq : chan[i] = Delta(Text(t, seq + i))
        /\ TailOfChannel(d - seq)
        /\ result.status = "failed" /\ result.content = 0
    BY <1>2, <1>3, Types DEF Running
  <1>5. result' \in Frames /\ result'.status = "failed" /\ result'.content = 0
    <2>1. Head(chan).usage \in SUBSET UsageParts /\ result \in Frames
      BY <1>2, Types DEF Events
    <2> QED
      BY <1>1, <1>4, <2>1 DEF Frames
  <1>6. seq = d
    <2> SUFFICES ASSUME seq < d PROVE FALSE
      BY <1>3, <1>4
    <2>1. chan[1] = Delta(Text(t, seq + 1))
      BY <1>3, <1>4
    <2> QED
      BY <1>2, <2>1 DEF Delta
  <1>7. Len(chan) > 1 /\ reader = "done"
    <2>1. reader = "done"
      <3>1. reader # "reading"
        BY <1>2, <1>4, <1>6 DEF TailOfChannel
      <3>2. reader \in ReaderStates /\ reader # "none"
        BY <1>2 DEF TypeOK, PlaceInv
      <3> QED
        BY <3>1, <3>2 DEF ReaderStates
    <2>2. chan[Len(chan)] = End
      BY <1>4, <2>1 DEF TailOfChannel
    <2> QED
      BY <1>2, <2>1, <2>2 DEF End
  <1>8. TypeOK'
    BY <1>1, <1>2, <1>5 DEF TypeOK
  <1>9. OtherTasksInv'
    BY <1>1, OthersKept
  <1>10. PlaceInv'
    BY <1>1, <1>2 DEF PlaceInv
  <1>11. Running'
    <2>1. PICK n \in Nat : n = 0
      OBVIOUS
    <2>2. n = d - seq /\ TailOfChannel(n) /\ n <= Len(chan)
      BY <1>2, <1>3, <1>4, <1>6, <2>1
    <2>3. TailOfChannel(n)'
      BY <1>1, <1>2, <1>7, <2>1, <2>2, TailShifts
    <2>4. deltas'[cur'] - seq' = n /\ n <= Len(chan') /\ seq' <= deltas'[cur']
      BY <1>1, <1>2, <1>3, <1>4, <1>6, <2>1
    <2>5. TailOfChannel(deltas[cur] - seq)'
      BY <2>3, <2>4 DEF TailOfChannel
    <2>6. Len(frames[cur])' = seq' /\ ChunksFirst(cur, seq)'
      BY <1>1, <1>2 DEF Running, ChunksFirst, ChunkFrame, Text
    <2> QED
      BY <1>5, <2>1, <2>4, <2>5, <2>6 DEF Running
  <1>12. CurrentInv'
    BY <1>1, <1>2, <1>11 DEF CurrentInv
  <1> QED
    BY <1>8, <1>9, <1>10, <1>12

LEMMA ReceiveEndKeepsInv ==
    ASSUME StreamInv, ReceiveEnd
    PROVE  StreamInv'
  <1> USE DEF StreamInv
  <1>1. /\ Receives("end") /\ seq' = seq + 1
        /\ result' = [result EXCEPT !.status = "completed", !.sequence = seq + 1]
        /\ Emit(cur, result')
        /\ UNCHANGED <<waiting, stage, cur, busy, row, format, reader, buffered, deltas, begun, split>>
    BY DEF ReceiveEnd, EndNumber, arrivalVars
  <1>2. /\ stage = "streaming" /\ Running
        /\ cur \in Tasks /\ cur # NoTask
        /\ chan \in Seq(Events) /\ Len(chan) \in Nat /\ Len(chan) > 0
        /\ chan[1].kind = "end"
        /\ chan' \in Seq(Events) /\ Len(chan') = Len(chan) - 1
    BY <1>1, ReceivesRunning
  <1>3. PICK t \in Tasks, d \in 0 .. MaxDeltas : t = cur /\ d = deltas[t]
    BY <1>2, Types
  <1>4. /\ seq \in Nat /\ seq <= d /\ d - seq <= Len(chan)
        /\ Len(frames[t]) = seq /\ ChunksFirst(t, seq)
        /\ \A i \in 1 .. d - seq : chan[i] = Delta(Text(t, seq + i))
        /\ TailOfChannel(d - seq)
        /\ result.content = 0 /\ result \in Frames
    BY <1>2, <1>3, Types DEF Running
  <1>5. PICK f \in Frames : f = result' /\ f.status = "completed" /\ f.content = 0
    <2>1. result' \in Frames /\ result'.status = "completed" /\ result'.content = 0
      <3>1. seq + 1 \in Nat /\ "completed" \in {"running"} \union Answers
        BY <1>4 DEF Answers
      <3>2. result' = [result EXCEPT !.status = "completed", !.sequence = seq + 1]
        BY <1>1
      <3> QED
        BY <1>4, <3>1, <3>2 DEF Frames
    <2> QED
      BY <2>1
  <1>6. seq = d
    <2> SUFFICES ASSUME seq < d PROVE FALSE
      BY <1>3, <1>4, ConstAssumption
    <2>1. chan[1] = Delta(Text(t, seq + 1))
      BY <1>3, <1>4, ConstAssumption
    <2> QED
      BY <1>2, <2>1 DEF Delta
  <1>7. chan' = <<>> /\ reader = "done"
    <2>1. 1 \in DOMAIN chan
      BY <1>2, LenProperties
    <2>2. Len(chan) = 1
      BY <1>2, <1>4, <2>1 DEF TailOfChannel
    <2>3. chan' = <<>>
      BY <1>2, <2>2, EmptySeq
    <2>4. reader # "reading"
      BY <1>4, <1>6, <2>2, ConstAssumption DEF TailOfChannel
    <2>5. reader \in ReaderStates /\ reader # "none"
      BY <1>2 DEF TypeOK, PlaceInv
    <2> QED
      BY <2>3, <2>4, <2>5 DEF ReaderStates
  <1>8. Emit(t, f) /\ frames \in [Tasks -> Seq(Frames)]
    BY <1>1, <1>3, <1>5, Types
  <1>9. /\ frames' \in [Tasks -> Seq(Frames)]
        /\ \A u \in Tasks : u # t => frames'[u] = frames[u]
    BY <1>8, EmitFacts
  <1>10. TypeOK'
    <2>1. seq' \in 0 .. MaxDeltas + 1
      BY <1>1, <1>3, <1>4, <1>6, ConstAssumption
    <2> QED
      BY <1>1, <1>2, <1>5, <1>9, <2>1 DEF TypeOK
  <1>11. OtherTasksInv'
    BY <1>1, <1>3, <1>9, OthersKept
  <1>12. PlaceInv'
    BY <1>1, <1>2 DEF PlaceInv
  <1>13. Ended'
    <2>1. /\ Len(frames[t]) = deltas[t] /\ ChunksFirst(t, deltas[t])
          /\ deltas[t] \in Nat /\ deltas'[t] = deltas[t] /\ split' = split
      BY <1>1, <1>3, <1>4, <1>6, ConstAssumption
    <2>2. PICK status \in Answers : status = "completed"
      BY DEF Answers
    <2>3. AnsweredWith(t, status)'
      BY <1>5, <1>8, <2>1, <2>2, AnswerCompletes
    <2>4. AnsweredWith(cur, "completed")'
      BY <1>1, <1>3, <2>2, <2>3 DEF AnsweredWith, ChunksFirst, ChunkFrame, Text
    <2> QED
      BY <1>1, <1>5, <1>7, <2>4 DEF Ended
  <1>14. CurrentInv'
    BY <1>1, <1>2, <1>13 DEF CurrentInv
  <1> QED
    BY <1>10, <1>11, <1>12, <1>14

LEMMA DrainedKeepsInv ==
    ASSUME StreamInv, Drained
    PROVE  StreamInv'
  <1> USE DEF StreamInv
  <1>1. /\ stage = "streaming" /\ reader = "done" /\ chan = <<>>
        /\ stage' = "cooling" /\ busy' = FALSE /\ reader' = "none"
        /\ row' = [row EXCEPT ![cur] = result.status]
        /\ UNCHANGED <<waiting, cur, seq, result, frames, format, buffered, chan, deltas, begun, split>>
    BY DEF Drained, Finish, Released, LogRow, LoggedStatus, arrivalVars
  <1>2. cur \in Tasks /\ cur # NoTask /\ cur \in StreamTasks
    BY <1>1, Types DEF PlaceInv
  <1>3. ~Running
    <2> SUFFICES ASSUME Running PROVE FALSE
      OBVIOUS
    <2>1. PICK n \in Int : n = deltas[cur] - seq /\ n >= 0 /\ TailOfChannel(n)
      BY <1>2, Types DEF Running
    <2> QED
      BY <1>1, <2>1, EmptySeq DEF TailOfChannel
  <1>4. result.status = "completed" /\ AnsweredWith(cur, "completed")
    BY <1>1, <1>3 DEF CurrentInv, Ended
  <1>5. /\ row' \in [Tasks -> Answers \union {"none"}]
        /\ \A u \in Tasks : u # cur => row'[u] = row[u]
        /\ row'[cur] = "completed"
    <2>1. row \in [Tasks -> Answers \union {"none"}]
      BY DEF TypeOK
    <2> QED
      BY <1>1, <1>2, <1>4, <2>1 DEF Answers
  <1>6. TypeOK'
    BY <1>1, <1>2, <1>5 DEF TypeOK, Stages, ReaderStates
  <1>7. OtherTasksInv'
    BY <1>1, <1>5, OthersKept
  <1>8. PlaceInv'
    BY <1>1, <1>2 DEF PlaceInv
  <1>9. CurrentInv'
    BY <1>1, <1>2, <1>4, <1>5 DEF CurrentInv, AnsweredWith, ChunksFirst, ChunkFrame, Text, Answers
  <1> QED
    BY <1>6, <1>7, <1>8, <1>9

----------------------------------------------------------------------------
(* The steps of the reader.                                                *)

\* While the reader reads, the channel holds the deltas not yet received and
\* nothing else.
LEMMA ReadingRunning ==
    ASSUME StreamInv, reader = "reading"
    PROVE  /\ stage = "streaming" /\ Running
           /\ cur \in Tasks /\ cur # NoTask
           /\ seq \in Nat /\ deltas[cur] \in Nat /\ seq <= deltas[cur]
           /\ HoldsDeltas(chan, cur, seq, deltas[cur])
  <1>1. stage = "streaming"
    BY DEF StreamInv, PlaceInv
  <1>2. Running
    BY <1>1 DEF StreamInv, CurrentInv, Ended
  <1>3. cur \in Tasks /\ cur # NoTask
    BY <1>1, Types DEF StreamInv, PlaceInv
  <1>4. seq \in Nat /\ deltas[cur] \in Nat /\ chan \in Seq(Events)
    BY <1>3, Types DEF StreamInv
  <1>5. HoldsDeltas(chan, cur, seq, deltas[cur])
    BY <1>2, <1>4 DEF Running, TailOfChannel, HoldsDeltas
  <1> QED
    BY <1>1, <1>2, <1>3, <1>4, <1>5 DEF Running

\* The reader goes on: the channel has e deltas minus those received.
LEMMA ReadsOn ==
    ASSUME StreamInv, reader = "reading", UNCHANGED <<handlerVars, format, reader, split>>,
           buffered' \in SUBSET UsageParts, begun' \in [Tasks -> 0 .. MaxDeltas],
           NEW e \in 0 .. MaxDeltas, deltas[cur] <= e,
           deltas' = [deltas EXCEPT ![cur] = e],
           HoldsDeltas(chan', cur, seq, e)
    PROVE  StreamInv'
  <1> USE DEF StreamInv
  <1>1. /\ stage = "streaming" /\ Running
        /\ cur \in Tasks /\ cur # NoTask
        /\ seq \in Nat /\ deltas[cur] \in Nat /\ seq <= e
    BY ReadingRunning, ConstAssumption
  <1>2. /\ UNCHANGED <<waiting, stage, cur, busy, seq, result, frames, row>>
        /\ UNCHANGED <<format, reader>>
    BY DEF handlerVars
  <1>3. /\ deltas \in [Tasks -> 0 .. MaxDeltas]
        /\ deltas' \in [Tasks -> 0 .. MaxDeltas] /\ deltas'[cur] = e
        /\ \A u \in Tasks : u # cur => deltas'[u] = deltas[u]
    BY <1>1 DEF TypeOK
  <1>4. TypeOK'
    BY <1>2, <1>3 DEF TypeOK, HoldsDeltas
  <1>5. OtherTasksInv'
    BY <1>2, <1>3, OthersKept
  <1>6. PlaceInv'
    BY <1>1, <1>2 DEF PlaceInv
  <1>7. TailOfChannel(deltas[cur] - seq)'
    <2>1. /\ chan' \in Seq(Events) /\ Len(chan') = e - seq
          /\ \A i \in 1 .. e - seq : chan'[i].kind = "delta"
      BY DEF HoldsDeltas, Delta
    <2>2. DOMAIN chan' = 1 .. Len(chan')
      BY <2>1, LenProperties
    <2>3. deltas'[cur'] - seq' = e - seq /\ reader' = "reading"
      BY <1>2, <1>3
    <2>4. e - seq \in Nat /\ (e - seq) + 1 .. Len(chan') = {}
      BY <1>1, <2>1
    <2> QED
      BY <2>1, <2>2, <2>3, <2>4 DEF TailOfChannel
  <1>8. Running'
    <2>1. /\ result.status = "failed" /\ result.content = 0
          /\ Len(frames[cur]) = seq /\ ChunksFirst(cur, seq)
      BY <1>1 DEF Running
    <2>2. seq' <= deltas'[cur'] /\ deltas'[cur'] - seq' <= Len(chan')
      BY <1>1, <1>2, <1>3 DEF HoldsDeltas
    <2>3. \A i \in 1 .. e - seq : chan'[i] = Delta(Text(cur, seq + i))
      BY DEF HoldsDeltas
    <2> QED
      BY <1>2, <1>3, <1>7, <2>1, <2>2, <2>3 DEF Running, ChunksFirst, ChunkFrame, Text
  <1>9. CurrentInv'
    BY <1>1, <1>2, <1>8 DEF CurrentInv
  <1> QED
    BY <1>4, <1>5, <1>6, <1>9

\* The reader is done: it has sent e deltas, then events that finish the stream.
LEMMA ReaderLeaves ==
    ASSUME StreamInv, reader = "reading", UNCHANGED <<handlerVars, format, split>>,
           reader' = "done", buffered' \in SUBSET UsageParts,
           begun' \in [Tasks -> 0 .. MaxDeltas],
           NEW e \in 0 .. MaxDeltas, deltas[cur] <= e,
           deltas' = [deltas EXCEPT ![cur] = e],
           NEW c, HoldsDeltas(c, cur, seq, e), NEW s, TerminalTail(s), chan' = c \o s
    PROVE  StreamInv'
  <1> USE DEF StreamInv
  <1>1. /\ stage = "streaming" /\ Running
        /\ cur \in Tasks /\ cur # NoTask
        /\ seq \in Nat /\ deltas[cur] \in Nat /\ seq <= e
    BY ReadingRunning, ConstAssumption
  <1>2. /\ UNCHANGED <<waiting, stage, cur, busy, seq, result, frames, row>>
        /\ UNCHANGED format
    BY DEF handlerVars
  <1>3. /\ deltas \in [Tasks -> 0 .. MaxDeltas]
        /\ deltas' \in [Tasks -> 0 .. MaxDeltas] /\ deltas'[cur] = e
        /\ \A u \in Tasks : u # cur => deltas'[u] = deltas[u]
    BY <1>1 DEF TypeOK
  <1>4. PICK n \in Nat : n = e - seq
    BY <1>1
  <1>5. c \in Seq(Events) /\ Len(c) = n /\ s \in Seq(Events) /\ Len(s) \in Nat /\ Len(s) > 0
    BY <1>4, LenProperties DEF HoldsDeltas, TerminalTail
  <1>6. /\ chan' \in Seq(Events) /\ Len(chan') = n + Len(s)
        /\ \A i \in 1 .. n + Len(s) : chan'[i] = IF i <= n THEN c[i] ELSE s[i - n]
    <2>1. /\ c \o s \in Seq(Events)
          /\ Len(c \o s) = Len(c) + Len(s)
          /\ \A i \in 1 .. Len(c) + Len(s) :
                (c \o s)[i] = IF i <= Len(c) THEN c[i] ELSE s[i - Len(c)]
      BY <1>5, ConcatProperties, Zenon
    <2> QED
      BY <1>5, <2>1
  <1>7. TypeOK'
    BY <1>2, <1>3, <1>6 DEF TypeOK, ReaderStates
  <1>8. OtherTasksInv'
    BY <1>2, <1>3, OthersKept
  <1>9. PlaceInv'
    BY <1>1, <1>2 DEF PlaceInv
  <1>10. \A i \in 1 .. n : chan'[i] = c[i] /\ c[i] = Delta(Text(cur, seq + i))
    BY <1>4, <1>5, <1>6 DEF HoldsDeltas
  <1>11. ASSUME NEW i \in n + 1 .. n + Len(s)
         PROVE  i - n \in 1 .. Len(s) /\ chan'[i] = s[i - n]
    <2>1. i \in 1 .. n + Len(s) /\ ~(i <= n) /\ i - n \in 1 .. Len(s)
      BY <1>5
    <2> QED
      BY <1>6, <2>1
  <1>12. TailOfChannel(n)'
    <2>1. DOMAIN chan' = 1 .. n + Len(s)
      BY <1>6, LenProperties
    <2>2. \A i \in n + 1 .. Len(chan') : chan'[i].kind # "delta" /\ chan'[i].content = 0
      BY <1>6, <1>11 DEF TerminalTail
    <2>3. ASSUME NEW i \in DOMAIN chan', chan'[i].kind = "end" PROVE i = Len(chan')
      <3>1. CASE i <= n
        <4>1. i \in 1 .. n
          BY <2>1, <3>1
        <4>2. chan'[i] = Delta(Text(cur, seq + i))
          BY <1>10, <4>1
        <4>3. chan'[i].kind = "delta"
          BY <4>2 DEF Delta
        <4> QED
          BY <2>3, <4>3
      <3>2. CASE ~(i <= n)
        <4>1. i \in n + 1 .. n + Len(s)
          BY <1>5, <2>1, <3>2
        <4>2. i - n = Len(s)
          BY <1>11, <2>3, <4>1 DEF TerminalTail
        <4> QED
          BY <1>5, <1>6, <4>1, <4>2
      <3> QED
        BY <3>1, <3>2
    <2>4. Len(chan') > n /\ chan'[Len(chan')] = End
      <3>1. n + Len(s) \in n + 1 .. n + Len(s) /\ (n + Len(s)) - n = Len(s)
        BY <1>5
      <3>2. chan'[n + Len(s)] = s[Len(s)]
        BY <1>11, <3>1
      <3> QED
        BY <1>5, <1>6, <3>2 DEF TerminalTail
    <2> QED
      BY <2>2, <2>3, <2>4 DEF TailOfChannel
  <1>13. Running'
    <2>1. /\ result.status = "failed" /\ result.content = 0
          /\ Len(frames[cur]) = seq /\ ChunksFirst(cur, seq)
      BY <1>1 DEF Running
    <2>2. deltas'[cur'] - seq' = n /\ seq' <= deltas'[cur'] /\ n <= Len(chan')
      BY <1>1, <1>2, <1>3, <1>4, <1>5, <1>6
    <2>3. \A i \in 1 .. n : chan'[i] = Delta(Text(cur, seq + i))
      BY <1>2, <1>10
    <2>4. TailOfChannel(deltas[cur] - seq)'
      BY <1>12, <2>2 DEF TailOfChannel
    <2> QED
      BY <1>2, <2>1, <2>2, <2>3, <2>4 DEF Running, ChunksFirst, ChunkFrame, Text
  <1>14. CurrentInv'
    BY <1>1, <1>2, <1>13 DEF CurrentInv
  <1> QED
    BY <1>7, <1>8, <1>9, <1>14

\* What the readers' lemmas need of the state the step starts from.
LEMMA ReadingFacts ==
    ASSUME StreamInv, reader = "reading"
    PROVE  /\ cur \in Tasks /\ deltas[cur] \in 0 .. MaxDeltas /\ MaxDeltas \in Nat
           /\ deltas = [deltas EXCEPT ![cur] = deltas[cur]]
           /\ HoldsDeltas(chan, cur, seq, deltas[cur]) /\ chan \in Seq(Events)
           /\ deltas[cur] \in Nat /\ deltas[cur] <= deltas[cur]
           /\ buffered \in SUBSET UsageParts /\ begun \in [Tasks -> 0 .. MaxDeltas]
  <1>1. cur \in Tasks /\ HoldsDeltas(chan, cur, seq, deltas[cur])
    BY ReadingRunning
  <1>2. /\ deltas \in [Tasks -> 0 .. MaxDeltas] /\ MaxDeltas \in Nat
        /\ chan \in Seq(Events) /\ buffered \in SUBSET UsageParts
        /\ begun \in [Tasks -> 0 .. MaxDeltas]
    BY ConstAssumption DEF StreamInv, TypeOK
  <1> QED
    BY <1>1, <1>2

LEMMA ReadDeltaKeepsInv ==
    ASSUME StreamInv, ReadDelta
    PROVE  StreamInv'
  <1>1. /\ reader = "reading" /\ deltas[cur] < MaxDeltas
        /\ deltas' = [deltas EXCEPT ![cur] = deltas[cur] + 1]
        /\ begun' = [begun EXCEPT ![cur] = deltas[cur] + 1]
        /\ chan' = Append(chan, Delta(Text(cur, deltas[cur] + 1)))
        /\ UNCHANGED <<handlerVars, format, reader, split>>
    BY DEF ReadDelta
  <1>2. buffered' \in SUBSET UsageParts
    BY <1>1, ReadingFacts DEF ReadDelta
  <1>3. PICK e \in 0 .. MaxDeltas : e = deltas[cur] + 1 /\ deltas[cur] <= e
    <2>1. deltas[cur] \in Nat /\ MaxDeltas \in Nat
      BY <1>1, ReadingFacts
    <2>2. deltas[cur] + 1 \in 0 .. MaxDeltas /\ deltas[cur] <= deltas[cur] + 1
      BY <1>1, <2>1
    <2> QED
      BY <2>2
  <1>4. HoldsDeltas(chan', cur, seq, e)
    BY <1>1, <1>3, ReadingRunning, OneMoreDelta
  <1>5. begun' \in [Tasks -> 0 .. MaxDeltas]
    BY <1>1, <1>3, ReadingFacts
  <1> QED
    BY <1>1, <1>2, <1>3, <1>4, <1>5, ReadsOn

\* A part of a delta is only of one not yet read: what was said stays what it was.
LEMMA ReadPartKeepsInv ==
    ASSUME StreamInv, ReadPart
    PROVE  StreamInv'
  <1> USE DEF StreamInv
  <1>1. /\ reader = "reading" /\ deltas[cur] < MaxDeltas
        /\ begun' = [begun EXCEPT ![cur] = begun[cur] + 1] /\ begun[cur] = deltas[cur]
        /\ split' = split \/ split' = split \union {<<cur, deltas[cur] + 1>>}
        /\ UNCHANGED <<waiting, stage, cur, busy, seq, result, frames, row>>
        /\ UNCHANGED <<format, reader, buffered, chan, deltas>>
    BY DEF ReadPart, handlerVars
  <1>2. /\ cur \in Tasks /\ seq \in Nat /\ MaxDeltas \in Nat
        /\ \A t \in Tasks : deltas[t] \in 0 .. MaxDeltas
        /\ begun \in [Tasks -> 0 .. MaxDeltas] /\ split \in SUBSET (Tasks \X (1 .. MaxDeltas))
    BY <1>1, ReadingRunning, ConstAssumption DEF TypeOK
  <1>3. begun' \in [Tasks -> 0 .. MaxDeltas] /\ split' \in SUBSET (Tasks \X (1 .. MaxDeltas))
    <2>1. begun[cur] + 1 \in 0 .. MaxDeltas /\ deltas[cur] + 1 \in 1 .. MaxDeltas
      BY <1>1, <1>2
    <2> QED
      BY <1>1, <1>2, <2>1
  <1>4. TypeOK' /\ PlaceInv'
    BY <1>1, <1>3 DEF TypeOK, PlaceInv
  <1>5. ASSUME NEW t \in Tasks, NEW i \in 1 .. deltas[t]
        PROVE  Text(t, i)' = Text(t, i)
    <2>1. i # deltas[t] + 1
      BY <1>2
    <2>2. <<t, i>> \in split' <=> <<t, i>> \in split
      BY <1>1, <2>1
    <2> QED
      BY <2>2 DEF Text
  <1>6. ASSUME NEW t \in Tasks, NEW n \in Nat, n <= deltas[t], ChunksFirst(t, n)
        PROVE  ChunksFirst(t, n)'
    <2> SUFFICES ASSUME NEW i \in 1 .. n PROVE frames[t][i] = ChunkFrame(t, i)'
      BY <1>1 DEF ChunksFirst
    <2>1. i \in 1 .. deltas[t] /\ frames[t][i] = ChunkFrame(t, i)
      BY <1>2, <1>6 DEF ChunksFirst
    <2>2. Text(t, i)' = Text(t, i)
      BY <1>5, <2>1
    <2> QED
      BY <2>1, <2>2 DEF ChunkFrame
  <1>7. OtherTasksInv'
    <2>1. \A t \in waiting' : t # cur' /\ Untouched(t)'
      BY <1>1 DEF OtherTasksInv, Untouched
    <2>2. ASSUME NEW t \in Tasks \ waiting, t # cur
          PROVE  row[t] \in Answers /\ AnsweredWith(t, row[t])'
      <3>1. row[t] \in Answers /\ AnsweredWith(t, row[t])
        BY <2>2 DEF OtherTasksInv
      <3>2. PICK d \in Nat : d = deltas[t]
        BY <1>2, <2>2
      <3>3. ChunksFirst(t, d)'
        BY <1>6, <2>2, <3>1, <3>2 DEF AnsweredWith
      <3> QED
        BY <1>1, <3>1, <3>2, <3>3 DEF AnsweredWith, ChunksFirst
    <2> QED
      BY <1>1, <2>1, <2>2 DEF OtherTasksInv, AnsweredWith, ChunksFirst
  <1>8. stage = "streaming" /\ Running /\ seq <= deltas[cur]
    BY <1>1, ReadingRunning
  <1>9. Running'
    <2>1. ChunksFirst(cur, seq)'
      BY <1>1, <1>2, <1>6, <1>8 DEF Running, ChunksFirst
    <2>2. ASSUME NEW i \in 1 .. deltas[cur] - seq
          PROVE  chan[i] = Delta(Text(cur, seq + i)')
      <3>1. PICK t \in Tasks, j \in 1 .. deltas[cur] : t = cur /\ j = seq + i
        BY <1>2, <1>8
      <3>2. Text(t, j)' = Text(t, j)
        BY <1>5, <3>1
      <3>3. chan[i] = Delta(Text(t, j))
        BY <1>8, <3>1 DEF Running
      <3> QED
        BY <1>1, <3>1, <3>2, <3>3 DEF Text
    <2> QED
      BY <1>1, <1>8, <2>1, <2>2 DEF Running, TailOfChannel, ChunksFirst, Text
  <1>10. CurrentInv'
    BY <1>1, <1>8, <1>9 DEF CurrentInv
  <1> QED
    BY <1>4, <1>7, <1>10

LEMMA ReadUsageKeepsInv ==
    ASSUME StreamInv, ReadUsage
    PROVE  StreamInv'
  <1>1. reader = "reading" /\ UNCHANGED <<handlerVars, format, reader>>
        /\ chan' = chan /\ deltas' = deltas /\ begun' = begun /\ split' = split
    BY DEF ReadUsage, arrivalVars
  <1>2. buffered' \in SUBSET UsageParts
    BY <1>1, ReadingFacts DEF ReadUsage, UsageParts
  <1>3. PICK e \in 0 .. MaxDeltas : e = deltas[cur] /\ deltas[cur] <= e
    BY <1>1, ReadingFacts
  <1>4. /\ HoldsDeltas(chan', cur, seq, e) /\ deltas' = [deltas EXCEPT ![cur] = e]
        /\ begun' \in [Tasks -> 0 .. MaxDeltas]
    BY <1>1, <1>3, ReadingFacts
  <1> QED
    BY <1>1, <1>2, <1>3, <1>4, ReadsOn

\* The ends of the reader that read no more content.
LEMMA QuietEndKeepsInv ==
    ASSUME StreamInv, ReadDone \/ ReadMessageStop \/ ReadEof \/ ReadFails
    PROVE  StreamInv'
  <1>1. /\ reader = "reading" /\ reader' = "done"
        /\ UNCHANGED <<handlerVars, format>> /\ deltas' = deltas /\ begun' = begun /\ split' = split
    BY DEF ReadDone, ReadMessageStop, ReadEof, ReadFails, AfterTerminal, arrivalVars
  <1>2. buffered' \in SUBSET UsageParts
    BY <1>1, ReadingFacts DEF ReadDone, ReadMessageStop, ReadEof, ReadFails
  <1>3. PICK s : TerminalTail(s) /\ chan' = chan \o s
    <2>1. CASE ReadDone \/ ReadFails
      <3>1. chan' = chan \o <<End>>
        <4>1. CASE ReadDone
          BY <1>1, <4>1, ReadingFacts, RecordTypes, AppendIsConcat DEF ReadDone
        <4>2. CASE ReadFails
          BY <4>2 DEF ReadFails, BrokenEvents
        <4> QED
          BY <2>1, <4>1, <4>2
      <3> QED
        BY <3>1, EndFinishes
    <2>2. CASE ReadMessageStop \/ ReadEof
      <3>1. chan' = chan \o Flush \o <<End>>
        BY <2>2 DEF ReadMessageStop, ReadEof
      <3> QED
        BY <1>1, <3>1, ReadingFacts, FlushedEvents
    <2> QED
      BY <2>1, <2>2
  <1>4. PICK e \in 0 .. MaxDeltas : e = deltas[cur] /\ deltas[cur] <= e
    BY <1>1, ReadingFacts
  <1>5. /\ HoldsDeltas(chan, cur, seq, e) /\ deltas' = [deltas EXCEPT ![cur] = e]
        /\ begun' \in [Tasks -> 0 .. MaxDeltas]
    BY <1>1, <1>4, ReadingFacts
  <1> QED
    BY <1>1, <1>2, <1>3, <1>4, <1>5, ReaderLeaves

LEMMA ReadFinishKeepsInv ==
    ASSUME StreamInv, ReadFinish
    PROVE  StreamInv'
  <1>1. /\ reader = "reading" /\ reader' = "done" /\ buffered' = {}
        /\ UNCHANGED <<handlerVars, format, split>>
    BY DEF ReadFinish, AfterTerminal
  <1>2. PICK more \in {0, 1}, usage \in {<<>>, <<Usage(UsageParts)>>} :
            /\ deltas[cur] + more <= MaxDeltas
            /\ deltas' = [deltas EXCEPT ![cur] = deltas[cur] + more]
            /\ begun' = [begun EXCEPT ![cur] = deltas[cur] + more]
            /\ chan' = chan \o (IF more = 0 THEN <<>> ELSE <<Delta(Text(cur, deltas[cur] + 1))>>)
                       \o Flush \o usage \o <<End>>
    BY DEF ReadFinish, FinalContent
  <1>3. PICK e \in 0 .. MaxDeltas : e = deltas[cur] + more /\ deltas[cur] <= e
    <2>1. deltas[cur] \in Nat /\ MaxDeltas \in Nat
      BY <1>1, ReadingFacts
    <2>2. deltas[cur] + more \in 0 .. MaxDeltas /\ deltas[cur] <= deltas[cur] + more
      BY <1>2, <2>1
    <2> QED
      BY <2>2
  <1>4. PICK c : /\ HoldsDeltas(c, cur, seq, e) /\ c \in Seq(Events)
                 /\ chan' = c \o Flush \o usage \o <<End>>
    <2>1. CASE more = 0
      <3>1. chan \o <<>> = chan
        BY <1>1, ReadingFacts, ConcatEmptySeq
      <3>2. e = deltas[cur]
        BY <1>1, <1>3, <2>1, ReadingFacts
      <3> QED
        BY <1>1, <1>2, <2>1, <3>1, <3>2, ReadingFacts
    <2>2. CASE more = 1
      <3>1. HoldsDeltas(chan \o <<Delta(Text(cur, deltas[cur] + 1))>>, cur, seq, deltas[cur] + 1)
        BY <1>1, ReadingRunning, OneMoreDelta
      <3>2. chan \o <<Delta(Text(cur, deltas[cur] + 1))>> \in Seq(Events)
        BY <3>1 DEF HoldsDeltas
      <3>3. e = deltas[cur] + 1
        BY <1>3, <2>2
      <3>4. chan' = chan \o <<Delta(Text(cur, deltas[cur] + 1))>> \o Flush \o usage \o <<End>>
        BY <1>2, <2>2
      <3> QED
        BY <3>1, <3>2, <3>3, <3>4
    <2> QED
      BY <2>1, <2>2
  <1>5. PICK s : TerminalTail(s) /\ chan' = c \o s
    BY <1>1, <1>4, ReadingFacts, LastEvents
  <1>6. begun' \in [Tasks -> 0 .. MaxDeltas]
    BY <1>1, <1>2, <1>3, ReadingFacts
  <1> QED
    BY <1>1, <1>2, <1>3, <1>4, <1>5, <1>6, ReaderLeaves

----------------------------------------------------------------------------
(* The theorems.                                                           *)

LEMMA NextStreamInv == StreamInv /\ [Next]_vars => StreamInv'
  <1> SUFFICES ASSUME StreamInv, [Next]_vars PROVE StreamInv'
    OBVIOUS
  <1>1. CASE Takes
    BY <1>1, RefuseKeepsInv, CallKeepsInv DEF Takes
  <1>2. CASE Returns
    BY <1>2, CallFailsKeepsInv, CallPanicsKeepsInv, PlainCompletesKeepsInv, StreamOpensKeepsInv DEF Returns
  <1>3. CASE Receive
    BY <1>3, ReceiveDeltaKeepsInv, ReceiveUsageKeepsInv, ReceiveEndKeepsInv,
       DrainedKeepsInv DEF Receive
  <1>4. CASE Cooled
    BY <1>4, CooledKeepsInv
  <1>5. CASE Reads
    BY <1>5, ReadPartKeepsInv, ReadDeltaKeepsInv, ReadUsageKeepsInv DEF Reads
  <1>6. CASE Ends
    BY <1>6, QuietEndKeepsInv, ReadFinishKeepsInv DEF Ends
  <1>7. CASE UNCHANGED vars
    <2>1. /\ UNCHANGED <<waiting, stage, cur, busy, seq, result, frames, row>>
          /\ UNCHANGED <<format, reader, buffered, chan, deltas, begun, split>>
      BY <1>7 DEF vars, handlerVars, readerVars, arrivalVars
    <2>2. TypeOK' /\ PlaceInv'
      BY <2>1 DEF StreamInv, TypeOK, PlaceInv
    <2>3. OtherTasksInv'
      BY <2>1, OthersKept DEF StreamInv
    <2>4. CurrentInv'
      BY <2>1 DEF StreamInv, CurrentInv, Running, Ended, AnsweredWith, ChunksFirst, ChunkFrame, Text,
                  TailOfChannel, Untouched
    <2> QED
      BY <2>2, <2>3, <2>4 DEF StreamInv
  <1> QED
    BY <1>1, <1>2, <1>3, <1>4, <1>5, <1>6, <1>7 DEF Next

\* The state of the task runner keeps its types; the number of a frame, seq, goes at
\* most one beyond the deltas (handle_task_stream).
THEOREM TypeCorrect == Spec => []TypeOK
  <1>1. StreamInv => TypeOK
    BY DEF StreamInv
  <1> QED
    BY <1>1, InitStreamInv, NextStreamInv, PTL DEF Spec

\* The answers among the frames of an answered task.
LEMMA OneAnswer ==
    ASSUME TypeOK, NEW t \in Tasks, NEW status \in Answers, AnsweredWith(t, status)
    PROVE  AnswerOf(t) = {status}
  <1>1. /\ frames[t] \in Seq(Frames) /\ deltas[t] \in Nat
        /\ DOMAIN frames[t] = 1 .. deltas[t] + 1
    <2>1. frames[t] \in Seq(Frames) /\ deltas[t] \in Nat
      BY Types
    <2> QED
      BY <2>1, LenProperties DEF AnsweredWith
  <1>2. \A i \in 1 .. deltas[t] : frames[t][i].status \notin Answers
    <2>1. \A i \in 1 .. deltas[t] : frames[t][i] = ChunkFrame(t, i)
      BY DEF AnsweredWith, ChunksFirst, ChunkFrame, Text
    <2>2. \A i \in Nat : ChunkFrame(t, i).status = "running"
      BY DEF ChunkFrame, Frame
    <2>3. "running" \notin Answers
      BY DEF Answers
    <2>4. \A i \in 1 .. deltas[t] : i \in Nat
      BY <1>1
    <2> QED
      BY <2>1, <2>2, <2>3, <2>4
  <1>3. frames[t][deltas[t] + 1].status = status
    BY DEF AnsweredWith
  <1>4. \A i \in 1 .. deltas[t] + 1 : i \in 1 .. deltas[t] \/ i = deltas[t] + 1
    BY <1>1
  <1>5. deltas[t] + 1 \in 1 .. deltas[t] + 1
    BY <1>1
  <1> QED
    BY <1>1, <1>2, <1>3, <1>4, <1>5 DEF AnswerOf

\* When the handler is done with a task, its row says what the cloud was told
\* (handle_task, handle_task_stream, log_and_return).
THEOREM RowsAreTrue == Spec => []RowSaysWhatWasAnswered
  <1>1. StreamInv => RowSaysWhatWasAnswered
    <2> SUFFICES ASSUME StreamInv, NEW t \in Tasks \ waiting, t # cur
                 PROVE  AnswerOf(t) = {row[t]}
      BY DEF RowSaysWhatWasAnswered
    <2>1. row[t] \in Answers /\ AnsweredWith(t, row[t]) /\ TypeOK
      BY DEF StreamInv, OtherTasksInv
    <2> QED
      BY <2>1, OneAnswer
  <1> QED
    BY <1>1, InitStreamInv, NextStreamInv, PTL DEF Spec

\* What is said for a task: its deltas in their order, then nothing with content.
LEMMA SaidInOrder ==
    ASSUME StreamInv, NEW t \in Tasks
    PROVE  /\ DOMAIN Said(t) = 1 .. Len(Said(t)) /\ Len(Said(t)) \in Nat
           /\ deltas[t] \in Nat /\ deltas[t] <= Len(Said(t))
           /\ \A i \in 1 .. Len(Said(t)) :
                Said(t)[i].content = IF i <= deltas[t] THEN Text(t, i) ELSE 0
  <1> USE DEF StreamInv
  <1> DEFINE S == Frames \union Events
  <1>1. frames[t] \in Seq(Frames) /\ chan \in Seq(Events) /\ deltas[t] \in Nat
    BY Types
  <1>2. frames[t] \in Seq(S) /\ chan \in Seq(S) /\ <<>> \in Seq(S)
    BY <1>1, SeqMonotonic
  <1>3. /\ Len(frames[t]) \in Nat /\ DOMAIN frames[t] = 1 .. Len(frames[t])
        /\ Len(chan) \in Nat
    BY <1>1, LenProperties
  <1>4. \A n : ChunkFrame(t, n).content = Text(t, n) /\ \A c : Delta(c).content = c
    BY DEF ChunkFrame, Frame, Delta
  <1>5. CASE Untouched(t) /\ Said(t) = frames[t]
    BY <1>1, <1>5, <1>3, EmptySeq DEF Untouched
  <1>6. CASE (\E status : AnsweredWith(t, status)) /\ Said(t) = frames[t]
    <2>1. /\ Len(frames[t]) = deltas[t] + 1
          /\ \A i \in 1 .. deltas[t] : frames[t][i] = ChunkFrame(t, i)
          /\ frames[t][deltas[t] + 1].content = 0
      BY <1>6 DEF AnsweredWith, ChunksFirst
    <2>2. \A i \in 1 .. deltas[t] : frames[t][i].content = Text(t, i)
      BY <1>1, <1>4, <2>1
    <2>3. \A i \in 1 .. deltas[t] + 1 : i \in 1 .. deltas[t] \/ i = deltas[t] + 1
      BY <1>1
    <2> QED
      BY <1>1, <1>3, <1>6, <2>1, <2>2, <2>3
  <1>7. CASE t = cur /\ stage = "streaming" /\ Running
    <2>1. /\ seq <= deltas[t] /\ Len(frames[t]) = seq
          /\ \A i \in 1 .. seq : frames[t][i] = ChunkFrame(t, i)
          /\ deltas[t] - seq <= Len(chan)
          /\ \A i \in 1 .. deltas[t] - seq : chan[i] = Delta(Text(t, seq + i))
          /\ \A i \in (deltas[t] - seq) + 1 .. Len(chan) : chan[i].content = 0
      BY <1>7 DEF Running, ChunksFirst, TailOfChannel
    <2>2. Said(t) = frames[t] \o chan
      BY <1>7 DEF Said
    <2>3. /\ Said(t) \in Seq(S)
          /\ Len(Said(t)) = seq + Len(chan)
          /\ \A i \in 1 .. seq + Len(chan) :
                Said(t)[i] = IF i <= seq THEN frames[t][i] ELSE chan[i - seq]
      <3>1. /\ frames[t] \o chan \in Seq(S)
            /\ Len(frames[t] \o chan) = Len(frames[t]) + Len(chan)
            /\ \A i \in 1 .. Len(frames[t]) + Len(chan) :
                  (frames[t] \o chan)[i] =
                      IF i <= Len(frames[t]) THEN frames[t][i] ELSE chan[i - Len(frames[t])]
        BY <1>2, ConcatProperties, Zenon
      <3> QED
        BY <2>1, <2>2, <3>1
    <2>4. DOMAIN Said(t) = 1 .. Len(Said(t))
      BY <2>3, LenProperties
    <2>5. seq \in Nat
      BY Types
    <2>6. ASSUME NEW i \in 1 .. seq + Len(chan)
          PROVE  Said(t)[i].content = IF i <= deltas[t] THEN Text(t, i) ELSE 0
      <3>1. CASE i <= seq
        <4>1. i \in 1 .. seq /\ i <= deltas[t] /\ i \in Nat
          BY <1>1, <1>3, <2>1, <2>5, <3>1
        <4> QED
          BY <1>4, <2>1, <2>3, <3>1, <4>1
      <3>2. CASE ~(i <= seq) /\ i <= deltas[t]
        <4>1. i - seq \in 1 .. deltas[t] - seq /\ seq + (i - seq) = i /\ i \in Nat
          BY <1>1, <1>3, <2>5, <3>2
        <4>2. Said(t)[i] = chan[i - seq] /\ chan[i - seq] = Delta(Text(t, seq + (i - seq)))
          BY <2>1, <2>3, <3>2, <4>1
        <4>3. Said(t)[i] = Delta(Text(t, i))
          BY <4>1, <4>2
        <4> QED
          BY <1>4, <3>2, <4>1, <4>3
      <3>3. CASE ~(i <= deltas[t])
        <4>1. i - seq \in (deltas[t] - seq) + 1 .. Len(chan) /\ ~(i <= seq)
          BY <1>1, <1>3, <2>1, <2>5, <3>3
        <4>2. Said(t)[i] = chan[i - seq]
          BY <2>3, <4>1
        <4> QED
          BY <2>1, <3>3, <4>1, <4>2
      <3> QED
        BY <3>1, <3>2, <3>3
    <2> QED
      BY <1>1, <1>3, <2>1, <2>3, <2>4, <2>5, <2>6
  <1>8. CASE t # cur
    <2>1. Said(t) = frames[t]
      BY <1>1, <1>8, ConcatEmptySeq DEF Said
    <2> QED
      BY <1>5, <1>6, <1>8, <2>1 DEF OtherTasksInv
  <1>9. CASE t = cur /\ ~(stage = "streaming" /\ Running)
    <2>1. stage \in Stages /\ t # NoTask
      BY NoTaskAssumption DEF TypeOK
    <2>2. chan = <<>> /\ (Untouched(t) \/ \E status : AnsweredWith(t, status))
      <3>1. stage # "idle"
        BY <1>9, <2>1 DEF PlaceInv
      <3>2. CASE stage \in {"calling", "dead"}
        BY <1>9, <3>2 DEF PlaceInv, CurrentInv
      <3>3. CASE stage = "streaming"
        BY <1>9, <3>3 DEF CurrentInv, Ended
      <3>4. CASE stage = "cooling"
        BY <1>9, <3>4 DEF PlaceInv, CurrentInv
      <3> QED
        BY <2>1, <3>1, <3>2, <3>3, <3>4 DEF Stages
    <2>3. Said(t) = frames[t]
      BY <1>1, <2>2, ConcatEmptySeq DEF Said
    <2> QED
      BY <1>5, <1>6, <2>2, <2>3
  <1> QED
    BY <1>7, <1>8, <1>9

\* What is begun of a task is what is read of it, or one delta more.
ArrivalInv == \A t \in Tasks : begun[t] \in {deltas[t], deltas[t] + 1}

LEMMA NextArrivalInv == StreamInv /\ ArrivalInv /\ [Next]_vars => ArrivalInv'
  <1> SUFFICES ASSUME StreamInv, ArrivalInv, [Next]_vars PROVE ArrivalInv'
    OBVIOUS
  <1>1. /\ begun \in [Tasks -> 0 .. MaxDeltas] /\ deltas \in [Tasks -> 0 .. MaxDeltas]
    BY DEF StreamInv, TypeOK
  <1>2. \/ begun' = begun /\ deltas' = deltas
        \/ ReadPart \/ ReadDelta \/ ReadFinish
    BY DEF Next, Takes, Refuse, Call, Returns, CallFails, CallPanics, PlainCompletes, StreamOpens,
           Receive, ReceiveDelta, ReceiveUsage, ReceiveEnd, Drained, Cooled, Reads, ReadUsage,
           Ends, ReadDone, ReadMessageStop, ReadEof, ReadFails, vars, readerVars, arrivalVars
  <1>3. CASE begun' = begun /\ deltas' = deltas
    BY <1>3 DEF ArrivalInv
  <1>4. CASE ReadPart
    BY <1>1, <1>4 DEF ReadPart, ArrivalInv
  <1>5. CASE ReadDelta
    BY <1>1, <1>5 DEF ReadDelta, ArrivalInv
  <1>6. CASE ReadFinish
    <2>1. \E e : deltas' = [deltas EXCEPT ![cur] = e] /\ begun' = [begun EXCEPT ![cur] = e]
      BY <1>6 DEF ReadFinish
    <2> QED
      BY <1>1, <2>1 DEF ArrivalInv
  <1> QED
    BY <1>2, <1>3, <1>4, <1>5, <1>6

\* What the node says for a task is what it read for it, in order and once, on the way
\* through the reader, the channel and the handler; of what the upstream began to say the
\* last delta at most is missing (execute_stream, handle_task_stream).
THEOREM ContentIsComplete == Spec => []ContentComplete
  <1>1. StreamInv /\ ArrivalInv => ContentComplete
    BY SaidInOrder DEF ArrivalInv, ContentComplete
  <1>2. Init => ArrivalInv
    BY DEF Init, ArrivalInv
  <1> QED
    BY <1>1, <1>2, InitStreamInv, NextStreamInv, NextArrivalInv, PTL DEF Spec

----------------------------------------------------------------------------
(* The task runner implements the contract.                                *)

\* What the cloud has received, as StreamedTask has it.
Received == [t \in Tasks |-> Numbered(t)]
NumberedFrames == [status : {"running"} \union Answers, sequence : Nat]
Number(f) == [status |-> f.status, sequence |-> f.sequence]

\* The numbered frames of a task are a sequence as long as its frames.
LEMMA NumberedIsSeq ==
    ASSUME NEW s \in Seq(Frames)
    PROVE  LET n == [i \in DOMAIN s |-> [status |-> s[i].status, sequence |-> s[i].sequence]]
           IN  /\ n \in Seq(NumberedFrames)
               /\ Len(n) = Len(s)
               /\ DOMAIN n = 1 .. Len(s)
               /\ \A i \in 1 .. Len(s) : n[i] = Number(s[i])
  <1> DEFINE n == [i \in DOMAIN s |-> [status |-> s[i].status, sequence |-> s[i].sequence]]
  <1>1. PICK k \in Nat : k = Len(s) /\ DOMAIN s = 1 .. k
    BY LenProperties
  <1>2. \A i \in 1 .. k : s[i] \in Frames
    BY <1>1, ElementOfSeq
  <1>3. \A i \in 1 .. k : n[i] = Number(s[i]) /\ Number(s[i]) \in NumberedFrames
    BY <1>1, <1>2 DEF Number, NumberedFrames, Frames
  <1>4. n \in [1 .. k -> NumberedFrames]
    BY <1>1, <1>3
  <1>5. n \in Seq(NumberedFrames)
    BY <1>1, <1>4, SeqDef
  <1> HIDE DEF n
  <1>6. Len(n) = k
    <2>1. Len(n) \in Nat /\ 1 .. Len(n) = 1 .. k
      BY <1>4, <1>5, LenProperties
    <2>2. Len(n) > k => Len(n) \notin 1 .. k /\ Len(n) \in 1 .. Len(n)
      BY <2>1
    <2>3. Len(n) < k => k \notin 1 .. Len(n) /\ k \in 1 .. k
      BY <2>1
    <2> QED
      BY <2>1, <2>2, <2>3
  <1>7. /\ n \in Seq(NumberedFrames) /\ Len(n) = Len(s) /\ DOMAIN n = 1 .. Len(s)
        /\ \A i \in 1 .. Len(s) : n[i] = Number(s[i])
    BY <1>1, <1>3, <1>4, <1>5, <1>6
  <1> QED
    BY <1>7 DEF n

\* A frame emitted is a frame sent in the contract.
LEMMA EmitIsSend ==
    ASSUME frames \in [Tasks -> Seq(Frames)], NEW t \in Tasks, NEW f \in Frames, Emit(t, f),
           \A i \in 1 .. Len(frames[t]) : frames[t][i].status = "running"
    PROVE  /\ Contract!Send(t, f.status, f.sequence)
           /\ Len(Received[t]) = Len(frames[t])
  <1>1. /\ frames[t] \in Seq(Frames) /\ frames'[t] \in Seq(Frames)
        /\ frames' \in [Tasks -> Seq(Frames)]
        /\ \A u \in Tasks : u # t => frames'[u] = frames[u]
        /\ Len(frames[t]) \in Nat /\ Len(frames'[t]) = Len(frames[t]) + 1
        /\ \A i \in 1 .. Len(frames[t]) : frames'[t][i] = frames[t][i]
        /\ frames'[t][Len(frames[t]) + 1] = f
    BY EmitFacts
  <1>2. /\ Numbered(t) \in Seq(NumberedFrames) /\ Len(Numbered(t)) = Len(frames[t])
        /\ DOMAIN Numbered(t) = 1 .. Len(frames[t])
        /\ \A i \in 1 .. Len(frames[t]) : Numbered(t)[i] = Number(frames[t][i])
    BY <1>1, NumberedIsSeq DEF Numbered
  <1>3. /\ Numbered(t)' \in Seq(NumberedFrames) /\ Len(Numbered(t)') = Len(frames'[t])
        /\ \A i \in 1 .. Len(frames'[t]) : Numbered(t)'[i] = Number(frames'[t][i])
    BY <1>1, NumberedIsSeq DEF Numbered
  <1>4. Number(f) \in NumberedFrames
    BY DEF Number, NumberedFrames, Frames
  <1>5. Numbered(t)' = Append(Numbered(t), Number(f))
    <2>1. /\ Append(Numbered(t), Number(f)) \in Seq(NumberedFrames)
          /\ Len(Append(Numbered(t), Number(f))) = Len(Numbered(t)) + 1
          /\ \A i \in 1 .. Len(Numbered(t)) :
                Append(Numbered(t), Number(f))[i] = Numbered(t)[i]
          /\ Append(Numbered(t), Number(f))[Len(Numbered(t)) + 1] = Number(f)
      BY <1>2, <1>4, AppendProperties
    <2>2. \A i \in 1 .. Len(frames'[t]) : i \in 1 .. Len(frames[t]) \/ i = Len(frames[t]) + 1
      BY <1>1
    <2>3. \A i \in 1 .. Len(frames'[t]) :
              Numbered(t)'[i] = Append(Numbered(t), Number(f))[i]
      BY <1>1, <1>2, <1>3, <2>1, <2>2
    <2> QED
      BY <1>1, <1>2, <1>3, <2>1, <2>3, SeqEqual
  <1>6. \A u \in Tasks : u # t => Numbered(u)' = Numbered(u)
    BY <1>1 DEF Numbered
  <1>7. Received' = [Received EXCEPT ![t] = Append(@, Number(f))]
    BY <1>5, <1>6 DEF Received
  <1>8. Received[t] = Numbered(t)
    BY DEF Received
  <1>9. ~Contract!Answered(t)
    <2>1. \A i \in DOMAIN Received[t] : Received[t][i].status = "running"
      <3>1. \A i \in 1 .. Len(frames[t]) : Number(frames[t][i]).status = "running"
        BY DEF Number
      <3> QED
        BY <1>2, <1>8, <3>1
    <2>2. "running" \notin Contract!Answers
      BY DEF Contract!Answers
    <2> QED
      BY <2>1, <2>2 DEF Contract!Answered, Received
  <1> QED
    BY <1>2, <1>7, <1>8, <1>9 DEF Contract!Send, Received, Number

\* The initial state is one of the contract's.
LEMMA InitImplements == Init => Contract!Init
  <1> SUFFICES ASSUME Init PROVE Received = [t \in Tasks |-> <<>>]
    BY DEF Contract!Init, Received
  <1> QED
    BY DEF Init, Received, Numbered

\* A step that sends nothing is none of the contract's.
LEMMA SilentStep ==
    ASSUME frames' = frames
    PROVE  Received' = Received
  BY DEF Received, Numbered

\* Each step of the handler sends what the contract allows next, and no step of the
\* reader sends anything.
LEMMA StepImplements ==
    StreamInv /\ [Next]_vars => [Contract!Next]_Received
  <1> SUFFICES ASSUME StreamInv, [Next]_vars, Received' # Received
               PROVE  Contract!Next
    OBVIOUS
  <1> USE DEF StreamInv
  <1>1. frames' # frames
    BY SilentStep
  <1>2. frames \in [Tasks -> Seq(Frames)]
    BY Types
  <1>3. ASSUME NEW t \in Tasks, NEW f \in Frames, Emit(t, f),
               \A i \in 1 .. Len(frames[t]) : frames[t][i].status = "running",
               \/ f.status \in Answers /\ f.sequence = 0
               \/ /\ t \in StreamTasks /\ f.sequence = Len(frames[t]) + 1
                  /\ f.status \in {"running", "completed"}
        PROVE  Contract!Next
    <2>1. Contract!Send(t, f.status, f.sequence) /\ Len(Received[t]) = Len(frames[t])
      BY <1>2, <1>3, EmitIsSend
    <2>2. CASE f.status \in Answers /\ f.sequence = 0
      <3>1. f.status \in Contract!Answers
        BY <2>2 DEF Answers, Contract!Answers
      <3>2. Contract!Answer(t)
        BY <2>1, <2>2, <3>1 DEF Contract!Answer
      <3> QED
        BY <3>2 DEF Contract!Next
    <2>3. CASE /\ t \in StreamTasks /\ f.sequence = Len(frames[t]) + 1
               /\ f.status \in {"running", "completed"}
      <3>1. f.sequence = Len([u \in Tasks |-> Numbered(u)][t]) + 1
        BY <2>1, <2>3 DEF Received
      <3>2. Contract!Chunk(t) \/ Contract!Answer(t)
        BY <2>1, <2>3, <3>1 DEF Contract!Chunk, Contract!Answer
      <3> QED
        BY <3>2 DEF Contract!Next
    <2> QED
      BY <1>3, <2>2, <2>3
  <1>4. ASSUME NEW t \in Tasks, Refuse(t) PROVE Contract!Next
    <2>1. PICK status \in {"rejected", "busy"} : Emit(t, Frame(status, 0, 0, {}))
      BY <1>4 DEF Refuse
    <2>2. PICK f \in Frames : f = Frame(status, 0, 0, {})
      BY RecordTypes DEF Answers
    <2>3. f.status \in Answers /\ f.sequence = 0
      BY <2>2 DEF Frame, Answers
    <2>4. Untouched(t)
      BY <1>4 DEF Refuse, OtherTasksInv
    <2>5. \A i \in 1 .. Len(frames[t]) : frames[t][i].status = "running"
      BY <2>4 DEF Untouched
    <2> QED
      BY <1>3, <2>1, <2>2, <2>3, <2>5
  <1>5. CASE CallFails
    <2>1. cur \in StreamTasks /\ Emit(cur, result') /\ result' = Frame("failed", 0, 0, {})
          /\ stage = "calling"
      BY <1>1, <1>5 DEF CallFails
    <2>2. PICK t \in Tasks, f \in Frames : t = cur /\ f = Frame("failed", 0, 0, {})
      BY <2>1, Types, RecordTypes DEF Answers
    <2>3. f.status \in Answers /\ f.sequence = 0
      BY <2>2 DEF Frame, Answers
    <2>4. \A i \in 1 .. Len(frames[t]) : frames[t][i].status = "running"
      BY <2>1, <2>2 DEF CurrentInv, Untouched
    <2> QED
      BY <1>3, <2>1, <2>2, <2>3, <2>4
  <1>6. CASE ReceiveDelta \/ ReceiveEnd
    <2>1. PICK kind : Receives(kind)
      BY <1>6 DEF ReceiveDelta, ReceiveEnd
    <2>2. Running /\ cur \in Tasks /\ cur \in StreamTasks
      BY <2>1, ReceivesRunning DEF PlaceInv
    <2>3. PICK t \in Tasks : t = cur
      BY <2>2
    <2>4. /\ t \in StreamTasks /\ Len(frames[t]) = seq /\ seq \in Nat
          /\ \A i \in 1 .. seq : frames[t][i] = ChunkFrame(t, i)
      BY <2>2, <2>3, Types DEF Running, ChunksFirst, ChunkFrame, Text
    <2>5. \A i \in 1 .. Len(frames[t]) : frames[t][i].status = "running"
      <3>1. \A i : ChunkFrame(t, i).status = "running"
        BY DEF ChunkFrame, Frame
      <3> QED
        BY <2>4, <3>1
    <2>6. PICK f \in Frames : /\ Emit(t, f) /\ f.sequence = seq + 1
                              /\ f.status \in {"running", "completed"}
      <3>1. CASE ReceiveDelta
        <4>1. Head(chan) \in Events
          BY <2>1, ReceivesRunning
        <4>2. Head(chan).content \in Nat /\ seq + 1 \in Nat
          BY <2>4, <4>1 DEF Events
        <4>3. Frame("running", seq + 1, Head(chan).content, {}) \in Frames
          BY <4>2, RecordTypes
        <4> QED
          BY <2>3, <3>1, <4>3 DEF ReceiveDelta, Frame
      <3>2. CASE ReceiveEnd
        <4>1. /\ result' = [result EXCEPT !.status = "completed", !.sequence = seq + 1]
              /\ Emit(t, result')
          BY <2>3, <3>2 DEF ReceiveEnd, EndNumber, arrivalVars
        <4>2. result \in Frames /\ seq + 1 \in Nat /\ "completed" \in {"running"} \union Answers
          BY <2>4, Types DEF Answers
        <4>3. /\ result' \in Frames /\ result'.status = "completed"
              /\ result'.sequence = seq + 1
          BY <4>1, <4>2 DEF Frames
        <4> QED
          BY <4>1, <4>3
      <3> QED
        BY <1>6, <3>1, <3>2
    <2> QED
      BY <1>3, <2>4, <2>5, <2>6
  <1>7. CASE Cooled
    <2>1. cur \notin StreamTasks /\ Emit(cur, result) /\ stage = "cooling"
      BY <1>1, <1>7 DEF Cooled
    <2>2. /\ Untouched(cur) /\ result.status \in Answers /\ result.sequence = 0
      BY <2>1 DEF CurrentInv
    <2>3. PICK t \in Tasks, f \in Frames : t = cur /\ f = result
      BY <2>1, Types
    <2>4. \A i \in 1 .. Len(frames[t]) : frames[t][i].status = "running"
      BY <2>2, <2>3 DEF Untouched
    <2> QED
      BY <1>3, <2>1, <2>2, <2>3, <2>4
  <1>8. ~UNCHANGED vars /\ ~PlainCompletes /\ ~StreamOpens /\ ~CallPanics /\ ~ReceiveUsage
        /\ ~Drained /\ ~Reads /\ ~Ends /\ \A t \in Tasks : ~Call(t)
    BY <1>1 DEF vars, handlerVars, PlainCompletes, StreamOpens, CallPanics, ReceiveUsage,
                Drained, Reads, ReadPart, ReadDelta, ReadUsage, Ends, ReadDone, ReadMessageStop, ReadFinish, ReadEof,
                ReadFails, Call
  <1> QED
    BY <1>4, <1>5, <1>6, <1>7, <1>8 DEF Next, Takes, Returns, Receive

\* The supplier keeps its contract with the cloud: for every task numbered chunks
\* without a gap, then one answer, then nothing (handle_task, handle_task_stream).
THEOREM StreamRefines == Spec => ImplementsStreamedTask
  <1>1. Init => Contract!Init
    BY InitImplements
  <1>2. StreamInv /\ [Next]_vars => [Contract!Next]_[t \in Tasks |-> Numbered(t)]
    BY StepImplements DEF Received
  <1> QED
    BY <1>1, <1>2, InitStreamInv, NextStreamInv, PTL
       DEF Spec, ImplementsStreamedTask, Contract!Spec
=============================================================================
