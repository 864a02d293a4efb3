------------------------- MODULE ShareDaemonProofs -------------------------
(***************************************************************************)
(* Proofs about the supplier daemon, for any number of commands, starts,   *)
(* tasks and faults.                                                       *)
(***************************************************************************)
EXTENDS ShareDaemonProps, TLAPS

\* Whoever is inside a stop, or waits for the P2P endpoint, holds the mutex,
\* and a stop has cleared the flag.
LockInv ==
    \A c \in Callers :
        /\ pc[c] \in {"abort client", "abort loops", "endpoint"} => daemonLock = c
        /\ pc[c] \in {"abort client", "abort loops"} => ~running

\* A live client is the one Daemon.handle names, and either the flag is up or a
\* stop is about to abort it.
HandleInv ==
    \A g \in Gens :
        Live(g) => /\ g = handle
                   /\ running \/ \E c \in Callers : pc[c] = "abort client"

\* Generations beyond starts have not been created.
FreshInv ==
    /\ refreshHandle <= starts
    /\ \A g \in Gens : g > starts => client[g] = "none" /\ refresher[g] = "none"

\* Daemon.handle and Daemon.refresh_handle name the same generation except
\* inside a stop, and that generation was not aborted outside one.
RefreshHandleInv ==
    /\ handle = refreshHandle \/ \E c \in Callers : pc[c] = "abort loops"
    /\ \A c \in Callers : pc[c] = "abort loops" => handle = NoGen
    /\ refreshHandle # NoGen =>
        \/ Live(refreshHandle)
        \/ client[refreshHandle] = "exited"
        \/ \E c \in Callers : pc[c] = "abort loops"

\* What the safety of the commands rests on.
DaemonInv ==
    /\ TypeOK
    /\ LockInv
    /\ HandleInv
    /\ RunningMeansLive
    /\ FreshInv
    /\ RefreshHandleInv
    /\ OrphanRefresherOnlyAfterExit

----------------------------------------------------------------------------
(* Type correctness.                                                       *)

\* Queues of no and of one element.
LEMMA NoElement == ASSUME NEW S PROVE <<>> \in Seq(S)
  OBVIOUS

LEMMA OneElement == ASSUME NEW S, NEW e \in S PROVE <<e>> \in Seq(S)
  OBVIOUS

\* The initial state has the types.
LEMMA InitTypeOK == Init => TypeOK
  <1> SUFFICES ASSUME Init PROVE TypeOK
    OBVIOUS
  <1>1. outq \in [Gens -> Seq(Messages)] /\ taskq \in [Gens -> Seq(Tasks)]
    BY DEF Init
  <1>2. starts \in 0 .. MaxStarts /\ faults \in 0 .. MaxFaults
    BY ConstAssumption DEF Init
  <1> QED
    BY <1>1, <1>2
       DEF Init, TypeOK, ConnStates, Commands, CommandSteps, ClientStates,
           HandlerStates, RefresherStates, NoGen

\* Queueing a message keeps the queues well typed.
LEMMA EnqueueType ==
    ASSUME outq \in [Gens -> Seq(Messages)], NEW g \in Gens,
           NEW msg \in Messages, Enqueue(g, msg)
    PROVE  outq' \in [Gens -> Seq(Messages)]
  BY DEF Enqueue

\* The messages the actions queue are messages.
LEMMA MessageTypes ==
    /\ StatusMsg \in Messages
    /\ OfflineMsg \in Messages
    /\ \A t \in Tasks : ResultMsg(t) \in Messages
  BY DEF StatusMsg, OfflineMsg, ResultMsg, Messages

\* TypeOK in parts: what the commands, the clients, the handlers and the cloud keep.
TypeCommand ==
    /\ op \in [Callers -> Commands]
    /\ pc \in [Callers -> CommandSteps]
    /\ daemonLock \in Callers \union {NoCaller}
    /\ handle \in Gens \union {NoGen}
    /\ refreshHandle \in Gens \union {NoGen}
    /\ outgoing \in Gens \union {NoGen}
    /\ starts \in 0 .. MaxStarts
TypeClient ==
    /\ connState \in ConnStates
    /\ running \in BOOLEAN
    /\ client \in [Gens -> ClientStates]
    /\ announced \in [Gens -> BOOLEAN]
    /\ refresher \in [Gens -> RefresherStates]
    /\ faults \in 0 .. MaxFaults
TypeQueue == outq \in [Gens -> Seq(Messages)]
TypeTask ==
    /\ taskq \in [Gens -> Seq(Tasks)]
    /\ handler \in [Gens -> HandlerStates]
    /\ cur \in [Gens -> Tasks \union {NoTask}]
    /\ \A g \in Gens : handler[g] \in {"executing", "sent", "rejected", "cooling"}
            => cur[g] \in Tasks
    /\ executed \in [Tasks -> Nat]
    /\ logged \in SUBSET Tasks
TypeCloud ==
    /\ dispatched \in SUBSET Tasks
    /\ delivered \in [Tasks -> Nat]
    /\ lost \in SUBSET Tasks
    /\ dropped \in SUBSET Tasks

LEMMA TypeParts ==
    /\ TypeOK <=> TypeCommand /\ TypeClient /\ TypeQueue /\ TypeTask /\ TypeCloud
    /\ TypeOK' <=> TypeCommand' /\ TypeClient' /\ TypeQueue' /\ TypeTask' /\ TypeCloud'
  BY DEF TypeOK, TypeCommand, TypeClient, TypeQueue, TypeTask, TypeCloud

\* A part nobody touches keeps its types.
LEMMA TypesKept ==
    /\ TypeCommand /\ UNCHANGED cmdVars => TypeCommand'
    /\ TypeTask /\ UNCHANGED taskVars => TypeTask'
    /\ TypeCloud /\ UNCHANGED cloudVars => TypeCloud'
    /\ TypeQueue /\ UNCHANGED outq => TypeQueue'
    /\ TypeClient /\ UNCHANGED <<connState, running, client, announced, refresher, faults>>
        => TypeClient'
  <1>1. TypeCommand /\ UNCHANGED cmdVars => TypeCommand'
    BY DEF TypeCommand, cmdVars
  <1>2. TypeTask /\ UNCHANGED taskVars => TypeTask'
    BY DEF TypeTask, taskVars
  <1>3. TypeCloud /\ UNCHANGED cloudVars => TypeCloud'
    BY DEF TypeCloud, cloudVars
  <1>4. TypeQueue /\ UNCHANGED outq => TypeQueue'
    BY DEF TypeQueue
  <1>5. TypeClient /\ UNCHANGED <<connState, running, client, announced, refresher, faults>>
        => TypeClient'
    BY DEF TypeClient
  <1> QED
    BY <1>1, <1>2, <1>3, <1>4, <1>5

\* No step of a command leaves the types.
LEMMA CommandTypeOK ==
    ASSUME TypeOK, NEW c \in Callers, Command(c)
    PROVE  TypeOK'
  <1>1. TypeCommand /\ TypeClient /\ TypeQueue /\ TypeTask /\ TypeCloud
    BY TypeParts
  <1>2. TypeTask' /\ TypeCloud'
    <2>1. UNCHANGED taskVars /\ UNCHANGED cloudVars
      BY DEF Command, CommandProgress, StopSteps, ConnectBegin, DisconnectBegin, RoleBegin,
             StartRefused, Start, EndpointReturns, StopSkipped, StopBegin, AbortClient,
             AbortLoops, RoleWritten
    <2> QED
      BY <1>1, <2>1, TypesKept
  <1>3. CASE ConnectBegin(c) \/ DisconnectBegin(c) \/ RoleBegin(c)
    <2>1. \E w \in Commands : op' = [op EXCEPT ![c] = w] /\ pc' = [pc EXCEPT ![c] = "begun"]
      BY <1>3 DEF ConnectBegin, DisconnectBegin, RoleBegin, Begin, Commands
    <2>2. /\ UNCHANGED <<daemonLock, handle, refreshHandle, outgoing, starts, outq>>
          /\ UNCHANGED <<running, client, announced, refresher, faults>>
          /\ connState' \in {"Connecting", "Disconnected", connState}
      BY <1>3 DEF ConnectBegin, DisconnectBegin, RoleBegin
    <2>3. TypeCommand'
      BY <1>1, <2>1, <2>2 DEF TypeCommand, CommandSteps
    <2>4. TypeClient'
      BY <1>1, <2>2 DEF TypeClient, ConnStates
    <2> QED
      BY <1>1, <1>2, <2>2, <2>3, <2>4, TypesKept, TypeParts
  <1>4. CASE StartRefused(c) \/ EndpointReturns(c) \/ RoleWritten(c)
    <2>1. op' = [op EXCEPT ![c] = "none"] /\ pc' = [pc EXCEPT ![c] = "idle"]
      BY <1>4 DEF StartRefused, EndpointReturns, RoleWritten, Return
    <2>2. /\ UNCHANGED <<handle, refreshHandle, outgoing, starts, outq>>
          /\ UNCHANGED <<running, client, announced, refresher, faults>>
          /\ connState' \in {"Disconnected", connState}
          /\ daemonLock' \in {NoCaller, daemonLock}
      BY <1>4 DEF StartRefused, EndpointReturns, RoleWritten
    <2>3. TypeCommand'
      BY <1>1, <2>1, <2>2 DEF TypeCommand, CommandSteps, Commands
    <2>4. TypeClient'
      BY <1>1, <2>2 DEF TypeClient, ConnStates
    <2> QED
      BY <1>1, <1>2, <2>2, <2>3, <2>4, TypesKept, TypeParts
  <1>5. CASE Start(c)
    <2>1. starts + 1 \in Gens /\ starts + 1 \in 0 .. MaxStarts
      <3>1. starts < MaxStarts
        BY <1>5 DEF Start
      <3>2. starts \in 0 .. MaxStarts /\ MaxStarts \in Nat
        BY <1>1, ConstAssumption DEF TypeCommand
      <3> QED
        BY <3>1, <3>2 DEF Gens
    <2> DEFINE g == starts + 1
    <2>2. /\ starts' = g /\ handle' = g /\ refreshHandle' = g /\ outgoing' = g
          /\ daemonLock' = c /\ pc' = [pc EXCEPT ![c] = "endpoint"] /\ op' = op
      BY <1>5 DEF Start
    <2>3. /\ client' = [client EXCEPT ![g] = "spawned"]
          /\ outq' = [outq EXCEPT ![g] = <<StatusMsg>>]
          /\ refresher' = [refresher EXCEPT ![g] = "asleep"]
          /\ running' = TRUE /\ UNCHANGED <<connState, announced, faults>>
      BY <1>5 DEF Start
    <2> HIDE DEF g
    <2>4. g \in Gens /\ g \in 0 .. MaxStarts
      BY <2>1 DEF g
    <2>5. TypeCommand'
      BY <1>1, <2>2, <2>4 DEF TypeCommand, CommandSteps
    <2>6. TypeClient'
      BY <1>1, <2>3, <2>4 DEF TypeClient, ClientStates, RefresherStates
    <2>7. TypeQueue'
      <3>1. <<StatusMsg>> \in Seq(Messages)
        BY MessageTypes, OneElement
      <3> QED
        BY <1>1, <2>3, <3>1 DEF TypeQueue
    <2> QED
      BY <1>2, <2>5, <2>6, <2>7, TypeParts
  <1>6. CASE StopSkipped(c) \/ StopBegin(c)
    <2>1. /\ \E s \in CommandSteps : pc' = [pc EXCEPT ![c] = s]
          /\ daemonLock' \in {c, NoCaller}
          /\ UNCHANGED <<op, handle, refreshHandle, outgoing, starts>>
      BY <1>6 DEF StopSkipped, StopBegin, StopLock, AfterStop, CommandSteps
    <2>2. /\ UNCHANGED <<connState, client, announced, refresher, faults>>
          /\ running' \in {running, FALSE}
          /\ outq' = outq \/ (outgoing \in Gens /\ Enqueue(outgoing, OfflineMsg))
      BY <1>1, <1>6 DEF StopSkipped, StopBegin, TypeCommand
    <2>3. TypeCommand'
      BY <1>1, <2>1 DEF TypeCommand
    <2>4. TypeClient'
      BY <1>1, <2>2 DEF TypeClient
    <2>5. TypeQueue'
      BY <1>1, <2>2, EnqueueType, MessageTypes DEF TypeQueue
    <2> QED
      BY <1>2, <2>3, <2>4, <2>5, TypeParts
  <1>7. CASE AbortClient(c)
    <2>1. /\ handle' = NoGen /\ pc' = [pc EXCEPT ![c] = "abort loops"]
          /\ UNCHANGED <<connState, running, refresher, faults, op, daemonLock, refreshHandle,
                         outgoing, starts>>
      BY <1>7 DEF AbortClient
    <2>2. \/ UNCHANGED <<client, outq, announced>>
          \/ /\ client' = [client EXCEPT ![handle] = "aborted"]
             /\ outq' = [outq EXCEPT ![handle] = <<>>]
             /\ announced' = [announced EXCEPT ![handle] = FALSE]
      BY <1>7 DEF AbortClient
    <2>3. TypeCommand'
      BY <1>1, <2>1 DEF TypeCommand, CommandSteps
    <2>4. TypeClient'
      BY <1>1, <2>1, <2>2 DEF TypeClient, ClientStates
    <2>5. TypeQueue'
      BY <1>1, <2>2, NoElement DEF TypeQueue
    <2> QED
      BY <1>2, <2>3, <2>4, <2>5, TypeParts
  <1>8. CASE AbortLoops(c)
    <2>1. /\ \E s \in CommandSteps : pc' = [pc EXCEPT ![c] = s]
          /\ daemonLock' \in {c, NoCaller}
          /\ refreshHandle' = NoGen /\ outgoing' = NoGen /\ UNCHANGED <<op, handle, starts>>
      BY <1>8 DEF AbortLoops, AfterStop, CommandSteps
    <2>2. /\ refresher' = AbortedRefresher
          /\ UNCHANGED <<connState, running, client, announced, faults, outq>>
      BY <1>8 DEF AbortLoops
    <2>3. TypeCommand'
      BY <1>1, <2>1 DEF TypeCommand
    <2>4. AbortedRefresher \in [Gens -> RefresherStates]
      BY <1>1 DEF AbortedRefresher, TypeClient, RefresherStates
    <2>5. TypeClient'
      BY <1>1, <2>2, <2>4 DEF TypeClient
    <2> QED
      BY <1>1, <1>2, <2>2, <2>3, <2>5, TypesKept, TypeParts
  <1> QED
    BY <1>3, <1>4, <1>5, <1>6, <1>7, <1>8 DEF Command, CommandProgress, StopSteps

\* The queue after a write.
LEMMA TailType ==
    ASSUME NEW S, NEW q \in Seq(S), q # <<>>
    PROVE  Tail(q) \in Seq(S) /\ Head(q) \in S
  OBVIOUS

LEMMA OneMoreFault ==
    ASSUME faults \in 0 .. MaxFaults, NEW g \in Gens, ToBackoff(g) \/ Fault
    PROVE  faults' \in 0 .. MaxFaults
  BY ConstAssumption DEF ToBackoff, Fault

\* What a client does to its own state keeps the types.
LEMMA ClientStateTypes ==
    ASSUME TypeClient, NEW g \in Gens,
           client' = client \/ \E s \in ClientStates : client' = [client EXCEPT ![g] = s],
           announced' = announced \/ \E b \in BOOLEAN : announced' = [announced EXCEPT ![g] = b],
           connState' \in ConnStates, running' \in BOOLEAN, refresher' = refresher,
           faults' = faults \/ ToBackoff(g) \/ Fault
    PROVE  TypeClient'
  <1>1. client' \in [Gens -> ClientStates]
    BY DEF TypeClient
  <1>2. announced' \in [Gens -> BOOLEAN]
    BY DEF TypeClient
  <1>3. faults' \in 0 .. MaxFaults
    BY OneMoreFault DEF TypeClient
  <1> QED
    BY <1>1, <1>2, <1>3 DEF TypeClient

\* No step of a client leaves the types.
LEMMA ClientTypeOK ==
    ASSUME TypeOK, NEW g \in Gens, Client(g)
    PROVE  TypeOK'
  <1>1. TypeCommand /\ TypeClient /\ TypeQueue /\ TypeTask /\ TypeCloud
    BY TypeParts
  <1>2. TypeCommand'
    <2>1. UNCHANGED cmdVars
      BY DEF Client, ClientProgress, Boot, LoopTop, ClientExit, Retry, Dial, DialSucceeds,
             DialFails, ConnectionDies, SessionLost, Write, WriteFails, ReceiveTask
    <2> QED
      BY <1>1, <2>1, TypesKept
  <1>3. TypeClient'
    <2>1. connState' \in ConnStates
      <3>1. connState' \in {connState, "Connecting", "Connected", "Reconnecting"}
        BY DEF Client, ClientProgress, Boot, LoopTop, ClientExit, Retry, Dial, DialSucceeds,
               DialFails, ConnectionDies, SessionLost, Write, WriteFails, ReceiveTask, ToBackoff, Report
      <3> QED
        BY <1>1, <3>1 DEF TypeClient, ConnStates
    <2>2. running' \in BOOLEAN
      <3>1. running' \in {running, FALSE}
        BY DEF Client, ClientProgress, Boot, LoopTop, ClientExit, FlagAfterExit, Retry, Dial,
               DialSucceeds, DialFails, ConnectionDies, SessionLost, Write, WriteFails, ReceiveTask
      <3> QED
        BY <1>1, <3>1 DEF TypeClient
    <2>3. /\ client' = client \/ \E s \in ClientStates : client' = [client EXCEPT ![g] = s]
          /\ refresher' = refresher
          /\ faults' = faults \/ ToBackoff(g) \/ Fault
      BY DEF Client, ClientProgress, Boot, LoopTop, ClientExit, Retry, Dial, DialSucceeds,
             DialFails, ConnectionDies, SessionLost, Write, WriteFails, ReceiveTask, ToBackoff, ClientStates
    <2>4. announced' = announced \/ \E b \in BOOLEAN : announced' = [announced EXCEPT ![g] = b]
      <3>1. CASE Write(g)
        <4>1. announced' = [announced EXCEPT ![g] = announced[g] \/ Head(outq[g]).type = "status"]
          BY <3>1 DEF Write
        <4>2. announced[g] \in BOOLEAN
          BY <1>1 DEF TypeClient
        <4>3. (announced[g] \/ Head(outq[g]).type = "status") \in BOOLEAN
          BY <4>2
        <4> QED
          BY <4>1, <4>3
      <3>2. CASE ~Write(g)
        BY <3>2 DEF Client, ClientProgress, Boot, LoopTop, ClientExit, Retry, Dial, DialSucceeds,
             DialFails, ConnectionDies, SessionLost, WriteFails, ReceiveTask, ToBackoff
      <3> QED
        BY <3>1, <3>2
    <2> QED
      BY <1>1, <2>1, <2>2, <2>3, <2>4, ClientStateTypes
  <1>4. CASE Write(g) \/ WriteFails(g)
    <2> DEFINE m == Head(outq[g])
    <2>1. /\ outq[g] # <<>> /\ outq' = [outq EXCEPT ![g] = Tail(outq[g])]
          /\ Received(m) \/ delivered' = delivered
          /\ lost' \in {lost, lost \union ({m.task} \ {NoTask})}
          /\ UNCHANGED <<taskVars, dispatched, dropped>>
      BY <1>4 DEF Write, WriteFails, Unsent, Loses
    <2>2. m \in Messages /\ Tail(outq[g]) \in Seq(Messages)
      BY <1>1, <2>1, TailType DEF TypeQueue
    <2> HIDE DEF m
    <2>3. TypeQueue'
      BY <1>1, <2>1, <2>2 DEF TypeQueue
    <2>4. m.task \in Tasks \union {NoTask} /\ (m.type = "result" => m.task \in Tasks)
      BY <2>2 DEF Messages
    <2>5. delivered' \in [Tasks -> Nat]
      BY <1>1, <2>1, <2>4 DEF TypeCloud, Received
    <2>6. lost' \in SUBSET Tasks
      BY <1>1, <2>1, <2>4 DEF TypeCloud
    <2>7. TypeCloud'
      BY <1>1, <2>1, <2>5, <2>6 DEF TypeCloud
    <2>8. TypeTask'
      BY <1>1, <2>1, TypesKept
    <2> QED
      BY <1>2, <1>3, <2>3, <2>7, <2>8, TypeParts
  <1>5. ASSUME NEW t \in Tasks, ReceiveTask(g, t) PROVE TypeOK'
    <2>1. /\ dispatched' = dispatched \union {t}
          /\ \/ taskq' = taskq /\ dropped' = dropped \union {t}
             \/ taskq' = [taskq EXCEPT ![g] = Append(taskq[g], t)] /\ dropped' = dropped
          /\ UNCHANGED <<outq, handler, cur, executed, logged, delivered, lost>>
      BY <1>5 DEF ReceiveTask
    <2>2. taskq' \in [Gens -> Seq(Tasks)]
      <3>1. taskq \in [Gens -> Seq(Tasks)]
        BY <1>1 DEF TypeTask
      <3>2. Append(taskq[g], t) \in Seq(Tasks)
        BY <3>1
      <3> QED
        BY <2>1, <3>1, <3>2
    <2>3. TypeTask'
      BY <1>1, <2>1, <2>2 DEF TypeTask
    <2>4. TypeCloud'
      BY <1>1, <2>1 DEF TypeCloud
    <2> QED
      BY <1>1, <1>2, <1>3, <2>1, <2>3, <2>4, TypesKept, TypeParts
  <1>6. CASE ClientExit(g)
    <2>1. /\ outq' = [outq EXCEPT ![g] = <<>>]
          /\ handler' = [handler EXCEPT ![g] = "ended"] /\ cur' = [cur EXCEPT ![g] = NoTask]
          /\ taskq' = [taskq EXCEPT ![g] = <<>>]
          /\ UNCHANGED <<executed, logged, cloudVars>>
      BY <1>6 DEF ClientExit
    <2>2. TypeQueue'
      BY <1>1, <2>1, NoElement DEF TypeQueue
    <2>3. taskq' \in [Gens -> Seq(Tasks)]
      BY <1>1, <2>1, NoElement DEF TypeTask
    <2>4. TypeTask'
      BY <1>1, <2>1, <2>3 DEF TypeTask, HandlerStates
    <2> QED
      BY <1>1, <1>2, <1>3, <2>1, <2>2, <2>4, TypesKept, TypeParts
  <1>7. CASE Boot(g)
    <2>1. /\ handler' = [handler EXCEPT ![g] = "idle"]
          /\ UNCHANGED <<outq, taskq, cur, executed, logged, cloudVars>>
      BY <1>7 DEF Boot
    <2>2. TypeTask'
      BY <1>1, <2>1 DEF TypeTask, HandlerStates
    <2> QED
      BY <1>1, <1>2, <1>3, <2>1, <2>2, TypesKept, TypeParts
  <1>8. CASE LoopTop(g) \/ Retry(g) \/ DialSucceeds(g) \/ DialFails(g) \/ ConnectionDies(g) \/ SessionLost(g)
    <2>1. /\ outq' = outq \/ outq' = [outq EXCEPT ![g] = outq[g]]
          /\ UNCHANGED taskVars /\ UNCHANGED cloudVars
      BY <1>8 DEF LoopTop, Retry, DialSucceeds, Resumed, DialFails, ConnectionDies, SessionLost
    <2>2. TypeQueue'
      BY <1>1, <2>1 DEF TypeQueue
    <2> QED
      BY <1>1, <1>2, <1>3, <2>1, <2>2, TypesKept, TypeParts
  <1> QED
    BY <1>4, <1>5, <1>6, <1>7, <1>8 DEF Client, ClientProgress, Dial

\* The types of the handlers, one handler having moved.
LEMMA HandlerMoved ==
    ASSUME TypeTask, NEW g \in Gens,
           taskq' \in [Gens -> Seq(Tasks)], executed' \in [Tasks -> Nat], logged' \in SUBSET Tasks,
           NEW s \in HandlerStates, NEW u \in Tasks \union {NoTask},
           handler' = [handler EXCEPT ![g] = s],
           (cur' = cur /\ cur[g] = u) \/ cur' = [cur EXCEPT ![g] = u],
           s \in {"executing", "sent", "rejected", "cooling"} => u \in Tasks
    PROVE  TypeTask'
  <1>1. handler' \in [Gens -> HandlerStates]
    BY DEF TypeTask
  <1>2. cur' \in [Gens -> Tasks \union {NoTask}]
    BY DEF TypeTask
  <1>3. ASSUME NEW h \in Gens, handler'[h] \in {"executing", "sent", "rejected", "cooling"}
        PROVE  cur'[h] \in Tasks
    <2>1. CASE h = g
      BY <1>3, <2>1 DEF TypeTask
    <2>2. CASE h # g
      BY <1>3, <2>2 DEF TypeTask
    <2> QED
      BY <2>1, <2>2
  <1> QED
    BY <1>1, <1>2, <1>3 DEF TypeTask

\* x is in the sequence s; it is there once at most.
Has(s, x) == \E i \in 1 .. Len(s) : s[i] = x
Once(s, x) == \A i, j \in 1 .. Len(s) : s[i] = x /\ s[j] = x => i = j

\* What is in a task channel.
LEMMA TasksInAre ==
    ASSUME NEW q \in Seq(Tasks)
    PROVE  TasksIn(q) \subseteq Tasks /\ \A t \in Tasks : Has(q, t) => t \in TasksIn(q)
  BY DEF TasksIn, Has

\* A panic of a task handler keeps the types.
LEMMA PanicTypeOK ==
    ASSUME TypeOK, NEW g \in Gens, HandlerPanics(g)
    PROVE  TypeOK'
  <1>1. TypeCommand /\ TypeClient /\ TypeQueue /\ TypeTask /\ TypeCloud
    BY TypeParts
  <1>2. /\ handler[g] = "executing" /\ handler' = [handler EXCEPT ![g] = "panicked"]
        /\ cur' = [cur EXCEPT ![g] = NoTask] /\ taskq' = [taskq EXCEPT ![g] = <<>>]
        /\ dropped' = dropped \union {cur[g]} \union TasksIn(taskq[g])
        /\ UNCHANGED <<connState, running, client, announced, refresher, faults>>
        /\ UNCHANGED cmdVars /\ outq' = outq
        /\ UNCHANGED <<executed, logged, dispatched, delivered, lost>>
    BY DEF HandlerPanics
  <1>3. TypeCommand' /\ TypeClient' /\ TypeQueue'
    BY <1>1, <1>2, TypesKept
  <1>4. taskq' \in [Gens -> Seq(Tasks)]
    BY <1>1, <1>2, NoElement DEF TypeTask
  <1>5. TypeTask'
    <2>1. "panicked" \in HandlerStates
      BY DEF HandlerStates
    <2>2. executed' \in [Tasks -> Nat] /\ logged' \in SUBSET Tasks
      BY <1>1, <1>2 DEF TypeTask
    <2> QED
      BY <1>1, <1>2, <1>4, <2>1, <2>2, HandlerMoved
  <1>6. TypeCloud'
    <2>1. cur[g] \in Tasks /\ taskq[g] \in Seq(Tasks)
      BY <1>1, <1>2 DEF TypeTask
    <2>2. TasksIn(taskq[g]) \subseteq Tasks
      BY <2>1, TasksInAre
    <2> QED
      BY <1>1, <1>2, <2>1, <2>2 DEF TypeCloud
  <1> QED
    BY <1>3, <1>5, <1>6, TypeParts

\* No step of a task handler leaves the types.
LEMMA HandlerTypeOK ==
    ASSUME TypeOK, NEW g \in Gens, Handler(g), ~HandlerPanics(g)
    PROVE  TypeOK'
  <1>1. TypeCommand /\ TypeClient /\ TypeQueue /\ TypeTask /\ TypeCloud
    BY TypeParts
  <1>2. /\ UNCHANGED <<connState, running, client, announced, refresher, faults>>
        /\ UNCHANGED cmdVars /\ UNCHANGED cloudVars
    BY DEF Handler, HandlerStep, Reject, Execute, Executed, LogSent, Cooled, HandlerEnds
  <1>3. TypeCommand' /\ TypeClient' /\ TypeCloud'
    BY <1>1, <1>2, TypesKept
  <1>4. /\ taskq \in [Gens -> Seq(Tasks)] /\ handler[g] \in HandlerStates
        /\ executed \in [Tasks -> Nat] /\ logged \in SUBSET Tasks
        /\ cur[g] \in Tasks \union {NoTask}
        /\ handler[g] \in {"executing", "sent", "rejected", "cooling"} => cur[g] \in Tasks
    BY <1>1 DEF TypeTask
  <1>5. CASE Reject(g) \/ Execute(g)
    <2> DEFINE u == Head(taskq[g])
    <2>1. handler[g] = "idle" /\ taskq[g] # <<>> /\ taskq' = [taskq EXCEPT ![g] = Tail(taskq[g])]
      BY <1>5 DEF Reject, Execute
    <2>2. u \in Tasks /\ Tail(taskq[g]) \in Seq(Tasks)
      BY <1>4, <2>1, TailType
    <2>3. taskq' \in [Gens -> Seq(Tasks)]
      BY <1>4, <2>1, <2>2
    <2>4. /\ outq' = outq \/ Enqueue(g, ResultMsg(u))
          /\ executed' = executed \/ executed' = [executed EXCEPT ![u] = executed[u] + 1]
          /\ logged' \in {logged, logged \union {u}}
          /\ \/ handler' = handler /\ cur' = cur
             \/ /\ cur' = [cur EXCEPT ![g] = u]
                /\ handler' = [handler EXCEPT ![g] = "rejected"]
             \/ /\ cur' = [cur EXCEPT ![g] = u]
                /\ handler' = [handler EXCEPT ![g] = "executing"]
      BY <1>5 DEF Reject, Execute, Log
    <2> HIDE DEF u
    <2>5. TypeQueue'
      BY <1>1, <2>2, <2>4, EnqueueType, MessageTypes DEF TypeQueue
    <2>6. executed' \in [Tasks -> Nat]
      BY <1>4, <2>2, <2>4
    <2>7. logged' \in SUBSET Tasks
      BY <1>4, <2>2, <2>4
    <2>8. TypeTask'
      <3>1. CASE handler' = handler /\ cur' = cur
        BY <1>1, <2>3, <2>6, <2>7, <3>1 DEF TypeTask
      <3>2. CASE /\ cur' = [cur EXCEPT ![g] = u]
                 /\ \E s \in {"rejected", "executing"} : handler' = [handler EXCEPT ![g] = s]
        <4>1. {"rejected", "executing"} \subseteq HandlerStates
          BY DEF HandlerStates
        <4> QED
          BY <1>1, <2>2, <2>3, <2>6, <2>7, <3>2, <4>1, HandlerMoved
      <3> QED
        BY <2>4, <3>1, <3>2
    <2> QED
      BY <1>3, <2>5, <2>8, TypeParts
  <1>6. CASE Executed(g) \/ LogSent(g) \/ Cooled(g)
    <2>1. handler[g] \in {"executing", "sent", "rejected", "cooling"}
      BY <1>6 DEF Executed, LogSent, Cooled
    <2>2. cur[g] \in Tasks
      BY <1>4, <2>1
    <2>3. /\ outq' = outq \/ Enqueue(g, ResultMsg(cur[g]))
          /\ logged' \in {logged, logged \union {cur[g]}}
          /\ taskq' = taskq /\ executed' = executed
      BY <1>6 DEF Executed, LogSent, Cooled, Log
    <2>4. \/ cur' = cur /\ \E s \in {"sent", "cooling"} : handler' = [handler EXCEPT ![g] = s]
          \/ cur' = [cur EXCEPT ![g] = NoTask] /\ handler' = [handler EXCEPT ![g] = "idle"]
      BY <1>6 DEF Executed, LogSent, Cooled
    <2>5. TypeQueue'
      BY <1>1, <2>2, <2>3, EnqueueType, MessageTypes DEF TypeQueue
    <2>6. logged' \in SUBSET Tasks
      BY <1>4, <2>2, <2>3
    <2>7. {"sent", "cooling", "idle"} \subseteq HandlerStates
      BY DEF HandlerStates
    <2>8. TypeTask'
      <3>1. taskq' \in [Gens -> Seq(Tasks)] /\ executed' \in [Tasks -> Nat]
        BY <1>4, <2>3
      <3>2. CASE cur' = cur /\ \E s \in {"sent", "cooling"} : handler' = [handler EXCEPT ![g] = s]
        BY <1>1, <2>2, <2>6, <2>7, <3>1, <3>2, HandlerMoved
      <3>3. CASE cur' = [cur EXCEPT ![g] = NoTask] /\ handler' = [handler EXCEPT ![g] = "idle"]
        BY <1>1, <2>6, <2>7, <3>1, <3>3, HandlerMoved
      <3> QED
        BY <2>4, <3>2, <3>3
    <2> QED
      BY <1>3, <2>5, <2>8, TypeParts
  <1>7. CASE HandlerEnds(g)
    <2>1. /\ handler' = [handler EXCEPT ![g] = "ended"]
          /\ UNCHANGED <<outq, taskq, cur, executed, logged>>
      BY <1>7 DEF HandlerEnds
    <2>2. TypeTask'
      <3>1. "ended" \in HandlerStates
        BY DEF HandlerStates
      <3> QED
        BY <1>1, <1>4, <2>1, <3>1, HandlerMoved
    <2> QED
      BY <1>1, <1>3, <2>1, <2>2, TypesKept, TypeParts
  <1> QED
    BY <1>5, <1>6, <1>7 DEF Handler, HandlerStep

\* No step of a refresh loop leaves the types.
LEMMA RefresherTypeOK ==
    ASSUME TypeOK, NEW g \in Gens, Refresher(g)
    PROVE  TypeOK'
  <1>1. TypeCommand /\ TypeClient /\ TypeQueue /\ TypeTask /\ TypeCloud
    BY TypeParts
  <1>2. /\ UNCHANGED <<connState, running, client, announced, faults>>
        /\ UNCHANGED cmdVars /\ UNCHANGED taskVars /\ UNCHANGED cloudVars
        /\ outq' = outq \/ Enqueue(g, StatusMsg)
        /\ \E s \in RefresherStates : refresher' = [refresher EXCEPT ![g] = s]
    BY DEF Refresher, RefreshWakes, RefreshSends, RefreshSkips, RefresherStates
  <1>3. TypeClient'
    BY <1>1, <1>2 DEF TypeClient
  <1>4. TypeQueue'
    BY <1>1, <1>2, EnqueueType, MessageTypes DEF TypeQueue
  <1> QED
    BY <1>1, <1>2, <1>3, <1>4, TypesKept, TypeParts

\* The types are an invariant of the daemon.
THEOREM TypeCorrect == Spec => []TypeOK
  <1>1. TypeOK /\ [Next]_vars => TypeOK'
    <2> SUFFICES ASSUME TypeOK, [Next]_vars PROVE TypeOK'
      OBVIOUS
    <2>1. CASE Next
      BY <2>1, CommandTypeOK, ClientTypeOK, HandlerTypeOK, PanicTypeOK, RefresherTypeOK DEF Next
    <2>2. CASE UNCHANGED vars
      BY <2>2 DEF TypeOK, vars, cmdVars, taskVars, cloudVars
    <2> QED
      BY <2>1, <2>2
  <1> QED
    BY <1>1, InitTypeOK, PTL DEF Spec

----------------------------------------------------------------------------
(* One live client.                                                        *)

\* The initial state satisfies the invariant.
LEMMA InitDaemonInv == Init => DaemonInv
  BY InitTypeOK
     DEF Init, DaemonInv, LockInv, HandleInv, RunningMeansLive, FreshInv,
         RefreshHandleInv, OrphanRefresherOnlyAfterExit, Live, LiveStates, NoGen

\* A step that leaves the clients in their states, live or not, and touches
\* neither the handles nor the commands keeps the invariant.
LEMMA QuietStep ==
    ASSUME DaemonInv, TypeOK',
           UNCHANGED <<running, cmdVars>>,
           \A g \in Gens : Live(g)' <=> Live(g),
           \A g \in Gens : ~Live(g) => client'[g] = client[g],
           \A g \in Gens : \/ refresher'[g] = refresher[g]
                          \/ refresher[g] \in {"asleep", "querying"}
    PROVE  DaemonInv'
  <1> USE DEF DaemonInv, cmdVars
  <1>1. LockInv'
    BY DEF LockInv
  <1>2. HandleInv'
    BY DEF HandleInv
  <1>3. RunningMeansLive'
    BY DEF RunningMeansLive, TypeOK
  <1>4. FreshInv'
    BY DEF FreshInv, Live, LiveStates
  <1>5. RefreshHandleInv'
    BY DEF RefreshHandleInv, Live, LiveStates, TypeOK
  <1>6. OrphanRefresherOnlyAfterExit'
    BY DEF OrphanRefresherOnlyAfterExit, Live, LiveStates
  <1> QED
    BY <1>1, <1>2, <1>3, <1>4, <1>5, <1>6

\* The steps of a client except its exit, of a handler and of a refresh loop
\* are quiet.
LEMMA TaskStepDaemonInv ==
    ASSUME DaemonInv, TypeOK', NEW g \in Gens,
           \/ Client(g) /\ ~ClientExit(g)
           \/ Handler(g)
           \/ Refresher(g)
    PROVE  DaemonInv'
  <1> USE DEF cmdVars, taskVars, Live, LiveStates
  <1>0. client \in [Gens -> ClientStates] /\ refresher \in [Gens -> RefresherStates]
    BY DEF DaemonInv, TypeOK
  <1>1. UNCHANGED <<running, cmdVars>>
    BY DEF Client, ClientProgress, Boot, LoopTop, Retry, Dial, DialSucceeds,
           DialFails, ConnectionDies, SessionLost, Write, WriteFails, ReceiveTask, Handler,
           Reject, Execute, Executed, LogSent, Cooled, HandlerPanics, HandlerEnds, HandlerStep, Refresher,
           RefreshWakes, RefreshSends, RefreshSkips
  <1>2. CASE Client(g) /\ ~ClientExit(g)
    <2>1. /\ refresher' = refresher
          /\ \/ client' = client
             \/ /\ Live(g)
                /\ \E st \in LiveStates : client' = [client EXCEPT ![g] = st]
      BY <1>2
         DEF Client, ClientProgress, Boot, LoopTop, Retry, BackoffOver, Dial,
             DialSucceeds, DialFails, ConnectionDies, SessionLost, Write, WriteFails,
             ReceiveTask, ToBackoff, Connected
    <2> QED
      BY <1>0, <1>1, <2>1, QuietStep
  <1>3. CASE Handler(g)
    <2>1. client' = client /\ refresher' = refresher
      BY <1>3 DEF Handler, HandlerStep, Reject, Execute, Executed, LogSent, Cooled, HandlerPanics,
                  HandlerEnds
    <2> QED
      BY <1>1, <2>1, QuietStep
  <1>4. CASE Refresher(g)
    <2>1. /\ client' = client
          /\ refresher[g] \in {"asleep", "querying"}
          /\ \A h \in Gens \ {g} : refresher'[h] = refresher[h]
      BY <1>0, <1>4 DEF Refresher, RefreshWakes, RefreshSends, RefreshSkips
    <2> QED
      BY <1>1, <2>1, QuietStep
  <1> QED
    BY <1>2, <1>3, <1>4

\* A client that gives up takes the flag down with it.
LEMMA ExitDaemonInv ==
    ASSUME DaemonInv, TypeOK', NEW g \in Gens, ClientExit(g)
    PROVE  DaemonInv'
  <1> USE DEF DaemonInv, cmdVars
  <1>1. /\ client \in [Gens -> ClientStates]
        /\ client' = [client EXCEPT ![g] = "exited"]
        /\ ~running'
        /\ Live(g) /\ ~Live(g)'
        /\ UNCHANGED <<refresher, cmdVars>>
    BY DEF ClientExit, FlagAfterExit, Live, LiveStates, TypeOK
  <1>2. \A h \in Gens : ~Live(h)'
    BY <1>1 DEF HandleInv, Live
  <1>3. LockInv' /\ HandleInv' /\ RunningMeansLive'
    BY <1>1, <1>2 DEF LockInv, HandleInv, RunningMeansLive
  <1>4. FreshInv' /\ OrphanRefresherOnlyAfterExit'
    BY <1>1 DEF FreshInv, OrphanRefresherOnlyAfterExit, Live, LiveStates
  <1>5. RefreshHandleInv'
    BY <1>1 DEF RefreshHandleInv, HandleInv, Live, LiveStates, TypeOK
  <1> QED
    BY <1>3, <1>4, <1>5

\* A command that neither creates nor ends a generation, moving outside the
\* stop, keeps the invariant.
LEMMA OutsideStop ==
    ASSUME DaemonInv, TypeOK', NEW c \in Callers,
           UNCHANGED <<running, handle, refreshHandle, starts, client, refresher>>,
           pc[c] \notin {"abort client", "abort loops"},
           NEW step \in CommandSteps \ {"abort client", "abort loops"},
           pc' = [pc EXCEPT ![c] = step],
           \/ daemonLock = NoCaller \/ daemonLock = c
           \/ pc[c] \in {"idle", "stopped"} /\ step # "endpoint" /\ daemonLock' = daemonLock,
           step = "endpoint" => daemonLock' = c
    PROVE  DaemonInv'
  <1> USE DEF DaemonInv
  <1>1. pc \in [Callers -> CommandSteps] /\ NoCaller \notin Callers
    BY AbsentAssumption DEF TypeOK
  <1>2. LockInv'
    <2>1. \A d \in Callers \ {c} : pc'[d] = pc[d]
      BY <1>1
    <2>2. pc'[c] = step
      BY <1>1
    <2>3. CASE daemonLock = NoCaller \/ daemonLock = c
      <3>1. \A d \in Callers \ {c} :
              pc[d] \notin {"abort client", "abort loops", "endpoint"}
        BY <1>1, <2>3 DEF LockInv
      <3>2. \A d \in Callers \ {c} :
              pc'[d] \notin {"abort client", "abort loops", "endpoint"}
        BY <2>1, <3>1
      <3>3. pc'[c] \notin {"abort client", "abort loops"}
        BY <2>2
      <3>4. pc'[c] = "endpoint" => daemonLock' = c
        BY <2>2
      <3> QED
        BY <3>2, <3>3, <3>4 DEF LockInv
    <2>4. CASE step # "endpoint" /\ daemonLock' = daemonLock
      BY <1>1, <2>1, <2>2, <2>4 DEF LockInv
    <2> QED
      BY <2>3, <2>4
  <1>3. HandleInv' /\ RunningMeansLive' /\ FreshInv'
    BY <1>1 DEF HandleInv, RunningMeansLive, FreshInv, Live
  <1>4. RefreshHandleInv' /\ OrphanRefresherOnlyAfterExit'
    BY <1>1 DEF RefreshHandleInv, OrphanRefresherOnlyAfterExit, Live
  <1> QED
    BY <1>2, <1>3, <1>4

\* Daemon::start finds no live client, and overwrites handles that name none.
LEMMA StartDaemonInv ==
    ASSUME DaemonInv, TypeOK', NEW c \in Callers, Start(c)
    PROVE  DaemonInv'
  <1> DEFINE n == starts + 1
  <1> USE DEF DaemonInv
  <1>1. /\ daemonLock = NoCaller /\ daemonLock' = c /\ ~running /\ running'
        /\ pc' = [pc EXCEPT ![c] = "endpoint"]
        /\ starts' = n /\ handle' = n /\ refreshHandle' = n
        /\ client' = [client EXCEPT ![n] = "spawned"]
        /\ refresher' = [refresher EXCEPT ![n] = "asleep"]
        /\ starts < MaxStarts
    BY DEF Start, CanStart
  <1>2. /\ NoCaller \notin Callers
        /\ pc \in [Callers -> CommandSteps]
        /\ client \in [Gens -> ClientStates]
        /\ refresher \in [Gens -> RefresherStates]
        /\ refreshHandle \in Gens \union {NoGen}
    BY AbsentAssumption DEF TypeOK
  <1>11. starts \in Nat
    BY ConstAssumption DEF TypeOK
  <1>3. n \in Gens /\ n # NoGen /\ n > starts
    BY <1>1, <1>11, ConstAssumption DEF Gens, NoGen
  <1>4. \A d \in Callers : pc[d] \notin {"abort client", "abort loops", "endpoint"}
    BY <1>1, <1>2 DEF LockInv
  <1>5. \A g \in Gens : ~Live(g)
    BY <1>1, <1>4 DEF HandleInv
  <1>6. LockInv'
    BY <1>1, <1>2, <1>4 DEF LockInv
  <1>7. HandleInv' /\ RunningMeansLive'
    BY <1>1, <1>2, <1>3, <1>5 DEF HandleInv, RunningMeansLive, Live, LiveStates
  <1>8. FreshInv'
    <2> SUFFICES ASSUME NEW g \in Gens, g > starts'
                 PROVE  client'[g] = "none" /\ refresher'[g] = "none"
      BY <1>1, <1>11 DEF FreshInv
    <2>1. g # n /\ g > starts
      BY <1>1, <1>11 DEF Gens
    <2> QED
      BY <1>1, <2>1 DEF FreshInv
  <1>9. RefreshHandleInv'
    BY <1>1, <1>2, <1>3, <1>4 DEF RefreshHandleInv, Live, LiveStates
  <1>10. OrphanRefresherOnlyAfterExit'
    <2> SUFFICES ASSUME NEW g \in Gens \ {n}, refresher[g] \in {"asleep", "querying"}
                 PROVE  client[g] = "exited"
      BY <1>1, <1>2, <1>3 DEF OrphanRefresherOnlyAfterExit
    <2>1. CASE g = refreshHandle
      <3>1. refreshHandle \in Gens /\ refreshHandle # NoGen
        BY <2>1, ConstAssumption DEF Gens, NoGen
      <3> QED
        BY <1>4, <1>5, <2>1, <3>1 DEF RefreshHandleInv
    <2>2. CASE g # refreshHandle
      BY <2>2 DEF OrphanRefresherOnlyAfterExit
    <2> QED
      BY <2>1, <2>2
  <1> QED
    BY <1>6, <1>7, <1>8, <1>9, <1>10

\* The three steps of a stop.
LEMMA StopDaemonInv ==
    ASSUME DaemonInv, TypeOK', NEW c \in Callers,
           StopBegin(c) \/ AbortClient(c) \/ AbortLoops(c)
    PROVE  DaemonInv'
  <1> USE DEF DaemonInv
  <1>1. /\ NoCaller \notin Callers
        /\ pc \in [Callers -> CommandSteps]
        /\ client \in [Gens -> ClientStates]
        /\ refresher \in [Gens -> RefresherStates]
        /\ handle \in Gens \union {NoGen}
        /\ refreshHandle \in Gens \union {NoGen}
        /\ NoGen \notin Gens
    BY AbsentAssumption DEF TypeOK, Gens, NoGen
  <1>2. CASE StopBegin(c)
    <2>1. \A d \in Callers : pc[d] \notin {"abort client", "abort loops", "endpoint"}
      BY <1>1, <1>2 DEF StopBegin, LockInv
    <2>2. LockInv'
      BY <1>1, <1>2, <2>1 DEF LockInv, StopBegin, StopLock
    <2>3. HandleInv' /\ RunningMeansLive' /\ FreshInv'
      BY <1>1, <1>2 DEF HandleInv, RunningMeansLive, FreshInv, Live, StopBegin
    <2>4. RefreshHandleInv' /\ OrphanRefresherOnlyAfterExit'
      BY <1>1, <1>2, <2>1
         DEF RefreshHandleInv, OrphanRefresherOnlyAfterExit, Live, StopBegin
    <2> QED
      BY <2>2, <2>3, <2>4
  <1>3. CASE AbortClient(c)
    <2>1. /\ pc[c] = "abort client" /\ ~running /\ daemonLock = c
          /\ pc' = [pc EXCEPT ![c] = "abort loops"]
          /\ handle' = NoGen
          /\ UNCHANGED <<running, daemonLock, refresher, refreshHandle, starts>>
      BY <1>3 DEF AbortClient, LockInv
    <2>2. \A d \in Callers : pc[d] \in {"abort client", "abort loops", "endpoint"} => d = c
      BY <2>1 DEF LockInv
    <2>3. \/ client' = client /\ ~(handle # NoGen /\ Live(handle))
          \/ handle # NoGen /\ Live(handle) /\ client' = [client EXCEPT ![handle] = "aborted"]
      BY <1>3 DEF AbortClient
    <2>4. \A g \in Gens : ~Live(g)'
      BY <1>1, <2>3 DEF HandleInv, Live, LiveStates
    <2>5. LockInv' /\ HandleInv' /\ RunningMeansLive'
      BY <1>1, <2>1, <2>2, <2>4 DEF LockInv, HandleInv, RunningMeansLive
    <2>6. FreshInv'
      BY <1>1, <2>1, <2>3 DEF FreshInv, Live, LiveStates
    <2>7. RefreshHandleInv'
      BY <1>1, <2>1, <2>2 DEF RefreshHandleInv
    <2>8. handle = refreshHandle
      BY <1>1, <2>1, <2>2 DEF RefreshHandleInv
    <2>9. OrphanRefresherOnlyAfterExit'
      BY <1>1, <2>1, <2>3, <2>8 DEF OrphanRefresherOnlyAfterExit
    <2> QED
      BY <2>5, <2>6, <2>7, <2>9
  <1>4. CASE AbortLoops(c)
    <2>1. /\ pc[c] = "abort loops" /\ ~running /\ daemonLock = c
          /\ handle = NoGen /\ refreshHandle' = NoGen
          /\ refresher' = [g \in Gens |-> IF g = refreshHandle THEN "ended" ELSE refresher[g]]
          /\ UNCHANGED <<running, client, handle, starts>>
      BY <1>4 DEF AbortLoops, AbortedRefresher, LockInv, RefreshHandleInv
    <2>2. \/ pc' = [pc EXCEPT ![c] = "endpoint"] /\ daemonLock' = c
          \/ pc' = [pc EXCEPT ![c] = "stopped"] /\ daemonLock' = NoCaller
      BY <1>4 DEF AbortLoops, AfterStop
    <2>3. \A d \in Callers : pc[d] \in {"abort client", "abort loops", "endpoint"} => d = c
      BY <2>1 DEF LockInv
    <2>4. \A g \in Gens : ~Live(g)
      BY <1>1, <2>1 DEF HandleInv
    <2>5. LockInv'
      BY <1>1, <2>1, <2>2, <2>3 DEF LockInv
    <2>6. HandleInv' /\ RunningMeansLive'
      BY <2>1, <2>4 DEF HandleInv, RunningMeansLive, Live
    <2>7. RefreshHandleInv'
      BY <1>1, <2>1, <2>2, <2>3 DEF RefreshHandleInv
    <2>8. OrphanRefresherOnlyAfterExit'
      BY <1>1, <2>1 DEF OrphanRefresherOnlyAfterExit
    <2>10. starts \in Nat
      BY ConstAssumption DEF TypeOK
    <2>9. FreshInv'
      <3>1. ASSUME NEW g \in Gens, g > starts
            PROVE  client'[g] = "none" /\ refresher'[g] = "none"
        <4>1. client[g] = "none" /\ refresher[g] = "none"
          BY <3>1 DEF FreshInv
        <4>2. g # refreshHandle
          BY <2>10, <3>1, ConstAssumption DEF FreshInv, Gens
        <4> QED
          BY <2>1, <4>1, <4>2
      <3>2. refreshHandle' <= starts'
        <4>1. refreshHandle' = 0 /\ starts' = starts
          BY <2>1 DEF NoGen
        <4> HIDE DEF DaemonInv
        <4> QED
          BY <2>10, <4>1
      <3> QED
        BY <2>1, <3>1, <3>2 DEF FreshInv
    <2> QED
      BY <2>5, <2>6, <2>7, <2>8, <2>9
  <1> QED
    BY <1>2, <1>3, <1>4

\* Every step of the daemon keeps the invariant.
LEMMA NextDaemonInv == DaemonInv /\ [Next]_vars => DaemonInv'
  <1> SUFFICES ASSUME DaemonInv, [Next]_vars PROVE DaemonInv'
    OBVIOUS
  <1>1. TypeOK'
    <2>1. CASE Next
      BY <2>1, CommandTypeOK, ClientTypeOK, HandlerTypeOK, PanicTypeOK, RefresherTypeOK
         DEF Next, DaemonInv
    <2>2. CASE UNCHANGED vars
      BY <2>2 DEF DaemonInv, TypeOK, vars, cmdVars, taskVars, cloudVars
    <2> QED
      BY <2>1, <2>2
  <1>2. ASSUME NEW c \in Callers,
               \/ ConnectBegin(c) \/ DisconnectBegin(c) \/ RoleBegin(c)
               \/ StartRefused(c) \/ EndpointReturns(c)
               \/ StopSkipped(c) \/ RoleWritten(c)
        PROVE  DaemonInv'
    <2> USE DEF Begin, Return, AfterStop, AsksStop, cmdVars
    <2>1. UNCHANGED <<running, handle, refreshHandle, starts, client, refresher>>
      BY <1>2 DEF ConnectBegin, DisconnectBegin, RoleBegin, StartRefused,
                  EndpointReturns, StopSkipped, RoleWritten
    <2>2. pc[c] \notin {"abort client", "abort loops"}
      BY <1>2 DEF ConnectBegin, DisconnectBegin, RoleBegin, StartRefused,
                  EndpointReturns, StopSkipped, RoleWritten, DaemonInv, TypeOK
    <2> DEFINE step == pc'[c]
    <2>3. pc' = [pc EXCEPT ![c] = step]
      BY <1>2 DEF ConnectBegin, DisconnectBegin, RoleBegin, StartRefused,
                  EndpointReturns, StopSkipped, RoleWritten, DaemonInv, TypeOK
    <2>4. step \in {"begun", "idle", "endpoint", "stopped"}
      BY <1>2 DEF ConnectBegin, DisconnectBegin, RoleBegin, StartRefused,
                  EndpointReturns, StopSkipped, RoleWritten, DaemonInv, TypeOK
    <2>5. step = "endpoint" => daemonLock' = c
      BY <1>2 DEF ConnectBegin, DisconnectBegin, RoleBegin, StartRefused,
                  EndpointReturns, StopSkipped, RoleWritten, DaemonInv, TypeOK
    <2>6. \/ daemonLock = NoCaller \/ daemonLock = c
          \/ pc[c] \in {"idle", "stopped"} /\ step # "endpoint" /\ daemonLock' = daemonLock
      BY <1>2 DEF ConnectBegin, DisconnectBegin, RoleBegin, StartRefused,
                  EndpointReturns, StopSkipped, RoleWritten, DaemonInv, TypeOK, LockInv
    <2> HIDE DEF step
    <2> QED
      BY <1>1, <2>1, <2>2, <2>3, <2>4, <2>5, <2>6, OutsideStop DEF CommandSteps
  <1>3. ASSUME NEW c \in Callers, Command(c)
        PROVE  DaemonInv'
    BY <1>1, <1>2, <1>3, StartDaemonInv, StopDaemonInv
       DEF Command, CommandProgress, StopSteps
  <1>4. ASSUME NEW g \in Gens, Client(g) \/ Handler(g) \/ Refresher(g)
        PROVE  DaemonInv'
    BY <1>1, <1>4, TaskStepDaemonInv, ExitDaemonInv
  <1>5. CASE UNCHANGED vars
    BY <1>5 DEF DaemonInv, TypeOK, LockInv, HandleInv, RunningMeansLive, FreshInv,
                RefreshHandleInv, OrphanRefresherOnlyAfterExit, Live, vars,
                cmdVars, taskVars, cloudVars
  <1> QED
    BY <1>3, <1>4, <1>5 DEF Next

\* At most one client is live, for every number of commands and restarts.
THEOREM OneLiveClient == Spec => []SingleLiveClient
  <1>1. DaemonInv => SingleLiveClient
    BY DEF DaemonInv, HandleInv, SingleLiveClient
  <1> QED
    BY <1>1, InitDaemonInv, NextDaemonInv, PTL DEF Spec

\* While the flag is up, the handle names a live client.
THEOREM FlagMeansLive == Spec => []RunningMeansLive
  <1>1. DaemonInv => RunningMeansLive
    BY DEF DaemonInv
  <1> QED
    BY <1>1, InitDaemonInv, NextDaemonInv, PTL DEF Spec

\* A refresh loop without its handle was left behind by a client that gave up.
THEOREM OrphansComeFromExits == Spec => []OrphanRefresherOnlyAfterExit
  <1>1. DaemonInv => OrphanRefresherOnlyAfterExit
    BY DEF DaemonInv
  <1> QED
    BY <1>1, InitDaemonInv, NextDaemonInv, PTL DEF Spec

\* Daemon::stop never returns with a client still up.
THEOREM StopsAreComplete == Spec => StopLeavesNoClient
  <1>1. DaemonInv /\ DaemonInv' /\ [Next]_vars =>
          [\A c \in Callers :
            op[c] # "share_connect" /\ pc[c] \in {"begun", "abort loops"}
            /\ pc'[c] \in {"endpoint", "stopped"}
                => \A g \in Gens : ~Live(g)']_vars
    <2> SUFFICES ASSUME DaemonInv, Next, DaemonInv', NEW c \in Callers,
                        op[c] # "share_connect", pc[c] \in {"begun", "abort loops"},
                        pc'[c] \in {"endpoint", "stopped"}
                 PROVE  \A g \in Gens : ~Live(g)'
      OBVIOUS
    <2>0. pc \in [Callers -> CommandSteps]
      BY DEF DaemonInv, TypeOK
    <2>1. ASSUME NEW d \in Callers, Command(d), d # c
          PROVE  FALSE
      BY <2>0, <2>1
         DEF Command, CommandProgress, StopSteps, Begin, Return, AfterStop,
             ConnectBegin, DisconnectBegin, RoleBegin, StartRefused, Start,
             EndpointReturns, StopSkipped, StopBegin, AbortClient, AbortLoops,
             RoleWritten
    <2>2. ASSUME NEW g \in Gens, Client(g) \/ Handler(g) \/ Refresher(g)
          PROVE  FALSE
      <3>1. pc' = pc
        BY <2>2
           DEF Client, ClientProgress, Boot, LoopTop, ClientExit, Retry, Dial,
               DialSucceeds, DialFails, ConnectionDies, SessionLost, Write, WriteFails,
               ReceiveTask, Handler, HandlerStep, Reject, Execute, Executed,
               LogSent, Cooled, HandlerPanics, HandlerEnds, Refresher, RefreshWakes,
               RefreshSends, RefreshSkips, cmdVars
      <3> QED
        BY <3>1
    <2>3. StopSkipped(c) \/ AbortLoops(c)
      <3>1. Command(c)
        BY <2>1, <2>2 DEF Next
      <3>2. ~ConnectBegin(c) /\ ~DisconnectBegin(c) /\ ~RoleBegin(c)
        BY <2>0 DEF ConnectBegin, DisconnectBegin, RoleBegin, Begin
      <3>3. ~StartRefused(c) /\ ~EndpointReturns(c) /\ ~RoleWritten(c)
        BY <2>0 DEF StartRefused, EndpointReturns, RoleWritten, Return
      <3>4. ~Start(c) /\ ~StopBegin(c) /\ ~AbortClient(c)
        BY <2>0 DEF Start, StopBegin, AbortClient
      <3> QED
        BY <3>1, <3>2, <3>3, <3>4 DEF Command, CommandProgress, StopSteps
    <2>4. \A d \in Callers : pc'[d] # "abort client"
      <3>1. \A d \in Callers : pc[d] # "abort client"
        BY <2>3, AbsentAssumption DEF StopSkipped, AbortLoops, DaemonInv, LockInv
      <3> QED
        BY <2>0, <2>3, <3>1 DEF StopSkipped, AbortLoops, AfterStop
    <2>5. ~running'
      BY <2>3 DEF StopSkipped, AbortLoops, DaemonInv, LockInv
    <2> QED
      BY <2>4, <2>5 DEF DaemonInv, HandleInv
  <1> QED
    BY <1>1, InitDaemonInv, NextDaemonInv, PTL DEF Spec, StopLeavesNoClient

----------------------------------------------------------------------------
(* A task on its way, from its dispatch to its answer.                     *)

\* Task t waits for the handler of g, is worked on and still to be answered, or its
\* answer waits to be written.
Queued(g, t) == Has(taskq[g], t)
Pending(g, t) == /\ cur[g] = t
                 /\ handler[g] = "executing" \/ (handler[g] = "cooling" /\ ~Streamed(t))
Answered(g, t) == Has(outq[g], ResultMsg(t))
Holds(g, t) == Queued(g, t) \/ Pending(g, t) \/ Answered(g, t)

\* A dispatched task is in one of these places at most, in one generation, and only until
\* it has been answered.
OnceInv(t) ==
    /\ \A g \in Gens :
        /\ Once(taskq[g], t) /\ Once(outq[g], ResultMsg(t))
        /\ ~(Queued(g, t) /\ Pending(g, t)) /\ ~(Queued(g, t) /\ Answered(g, t))
        /\ ~(Pending(g, t) /\ Answered(g, t))
        /\ Holds(g, t) => t \in dispatched /\ delivered[t] = 0
        /\ Queued(g, t) => executed[t] = 0
    /\ \A g, h \in Gens : Holds(g, t) /\ Holds(h, t) => g = h
    /\ executed[t] <= 1 /\ delivered[t] <= 1
    /\ t \notin dispatched => executed[t] = 0 /\ delivered[t] = 0

TaskInv ==
    /\ TypeOK
    /\ \A t \in Tasks : OnceInv(t)
    /\ \A g \in Gens : handler[g] = "sent" => Streamed(cur[g])

LEMMA AppendHas ==
    ASSUME NEW S, NEW s \in Seq(S), NEW e \in S, NEW x
    PROVE  /\ Has(Append(s, e), x) <=> Has(s, x) \/ e = x
           /\ Once(s, x) /\ ~(e = x /\ Has(s, x)) => Once(Append(s, e), x)
  <1>1. /\ Len(Append(s, e)) = Len(s) + 1 /\ Append(s, e)[Len(s) + 1] = e /\ Len(s) \in Nat
        /\ \A i \in 1 .. Len(s) : Append(s, e)[i] = s[i]
    OBVIOUS
  <1>2. \A i \in 1 .. Len(s) + 1 : i \in 1 .. Len(s) \/ i = Len(s) + 1
    BY <1>1
  <1>3. 1 .. Len(s) \subseteq 1 .. Len(s) + 1 /\ Len(s) + 1 \in 1 .. Len(s) + 1
    BY <1>1
  <1>4. Has(Append(s, e), x) <=> Has(s, x) \/ e = x
    BY <1>1, <1>2, <1>3 DEF Has
  <1>5. Once(s, x) /\ ~(e = x /\ Has(s, x)) => Once(Append(s, e), x)
    BY <1>1, <1>2 DEF Has, Once
  <1> QED
    BY <1>4, <1>5

LEMMA TailHas ==
    ASSUME NEW S, NEW s \in Seq(S), s # <<>>, NEW x
    PROVE  /\ Has(Tail(s), x) => Has(s, x)
           /\ Head(s) = x => Has(s, x)
           /\ Once(s, x) => Once(Tail(s), x) /\ ~(Head(s) = x /\ Has(Tail(s), x))
  <1>1. /\ Len(s) \in Nat /\ Len(s) >= 1 /\ Len(Tail(s)) = Len(s) - 1 /\ Head(s) = s[1]
        /\ \A i \in 1 .. Len(s) - 1 : Tail(s)[i] = s[i + 1]
    OBVIOUS
  <1>2. \A i \in 1 .. Len(s) - 1 : i + 1 \in 1 .. Len(s) /\ i + 1 # 1
    BY <1>1
  <1>3. 1 \in 1 .. Len(s)
    BY <1>1
  <1>4. (Has(Tail(s), x) => Has(s, x)) /\ (Head(s) = x => Has(s, x))
    BY <1>1, <1>2, <1>3 DEF Has
  <1>5. ASSUME Once(s, x) PROVE Once(Tail(s), x)
    <2> SUFFICES ASSUME NEW i \in 1 .. Len(s) - 1, NEW j \in 1 .. Len(s) - 1,
                        s[i + 1] = x, s[j + 1] = x
                 PROVE  i = j
      BY <1>1 DEF Once
    <2>1. i + 1 = j + 1
      BY <1>2, <1>5 DEF Once
    <2> QED
      BY <1>1, <2>1
  <1>6. ASSUME Once(s, x), Head(s) = x, Has(Tail(s), x) PROVE FALSE
    BY <1>1, <1>2, <1>3, <1>6 DEF Once, Has
  <1> QED
    BY <1>4, <1>5, <1>6

\* Of the messages only the answer of t is equal to it.
LEMMA ResultIs ==
    ASSUME NEW m \in Messages, NEW t \in Tasks
    PROVE  m = ResultMsg(t) <=> m.type = "result" /\ m.task = t
  <1>1. CASE m \in [type : {"status", "offline"}, task : {NoTask}]
    BY <1>1 DEF ResultMsg
  <1>2. CASE m \in [type : {"result"}, task : Tasks]
    <2>1. m = [type |-> m.type, task |-> m.task]
      BY <1>2
    <2> QED
      BY <2>1 DEF ResultMsg
  <1> QED
    BY <1>1, <1>2 DEF Messages

\* What Enqueue does to the queues.
LEMMA EnqueueHas ==
    ASSUME outq \in [Gens -> Seq(Messages)], NEW g \in Gens, NEW m \in Messages, Enqueue(g, m),
           NEW t \in Tasks
    PROVE  /\ \A h \in Gens \ {g} : outq'[h] = outq[h]
           /\ Answered(g, t)' => Answered(g, t) \/ m = ResultMsg(t)
           /\ Once(outq[g], ResultMsg(t)) /\ ~(m = ResultMsg(t) /\ Answered(g, t))
                => Once(outq'[g], ResultMsg(t))
  <1>1. outq'[g] = outq[g] \/ outq'[g] = Append(outq[g], m)
    BY DEF Enqueue
  <1>2. outq[g] \in Seq(Messages)
    OBVIOUS
  <1>3. /\ Has(Append(outq[g], m), ResultMsg(t)) <=> Has(outq[g], ResultMsg(t)) \/ m = ResultMsg(t)
        /\ Once(outq[g], ResultMsg(t)) /\ ~(m = ResultMsg(t) /\ Has(outq[g], ResultMsg(t)))
                => Once(Append(outq[g], m), ResultMsg(t))
    BY <1>2, AppendHas
  <1>4. \A h \in Gens \ {g} : outq'[h] = outq[h]
    BY DEF Enqueue
  <1>5. Answered(g, t)' <=> Has(outq'[g], ResultMsg(t))
    BY DEF Answered, ResultMsg
  <1> QED
    BY <1>1, <1>3, <1>4, <1>5 DEF Answered

\* A task that goes nowhere, or only disappears.
LEMMA GoneOrSame ==
    ASSUME NEW t \in Tasks, OnceInv(t),
           \A g \in Gens :
                /\ Once(taskq'[g], t) /\ Once(outq'[g], ResultMsg(t))
                /\ Queued(g, t)' => Queued(g, t)
                /\ Pending(g, t)' => Pending(g, t)
                /\ Answered(g, t)' => Answered(g, t),
           executed'[t] = executed[t], delivered'[t] = delivered[t],
           t \in dispatched' <=> t \in dispatched
    PROVE  OnceInv(t)'
  <1>1. \A g \in Gens : Holds(g, t)' => Holds(g, t)
    BY DEF Holds
  <1>2. \A g \in Gens : Once(outq[g], ResultMsg(t))' <=> Once(outq'[g], ResultMsg(t))
    BY DEF Once, ResultMsg
  <1> QED
    BY <1>1, <1>2 DEF OnceInv

\* A task that moves on in generation g.
LEMMA Moved ==
    ASSUME NEW t \in Tasks, OnceInv(t), NEW g \in Gens,
           Holds(g, t) \/ t \notin dispatched,
           \A h \in Gens \ {g} : /\ taskq'[h] = taskq[h] /\ outq'[h] = outq[h]
                                 /\ cur'[h] = cur[h] /\ handler'[h] = handler[h],
           Once(taskq'[g], t), Once(outq'[g], ResultMsg(t)),
           ~(Queued(g, t)' /\ Pending(g, t)'), ~(Queued(g, t)' /\ Answered(g, t)'),
           ~(Pending(g, t)' /\ Answered(g, t)'),
           Holds(g, t)' => delivered'[t] = 0, Queued(g, t)' => executed'[t] = 0,
           executed'[t] <= 1, delivered'[t] <= 1, t \in dispatched'
    PROVE  OnceInv(t)'
  <1>1. ASSUME NEW h \in Gens \ {g}
        PROVE  ~Holds(h, t)' /\ Once(taskq'[h], t) /\ Once(outq'[h], ResultMsg(t))
    <2>1. ~Holds(h, t)
      BY DEF OnceInv
    <2>2. Holds(h, t)' <=> Holds(h, t)
      BY DEF Holds, Queued, Pending, Answered, ResultMsg, Streamed
    <2> QED
      BY <2>1, <2>2 DEF OnceInv
  <1>2. \A h \in Gens : Once(outq[h], ResultMsg(t))' <=> Once(outq'[h], ResultMsg(t))
    BY DEF Once, ResultMsg
  <1>3. \A h \in Gens \ {g} : ~Queued(h, t)' /\ ~Pending(h, t)' /\ ~Answered(h, t)'
    BY <1>1 DEF Holds
  <1> QED
    BY <1>1, <1>2, <1>3 DEF OnceInv

\* A step that leaves handlers, task queues and the cloud alone and queues no answer.
LEMMA QuietKeepsTasks ==
    ASSUME TaskInv, TypeOK', UNCHANGED <<taskVars, dispatched, delivered>>,
           \A g \in Gens, t \in Tasks :
                /\ Once(outq[g], ResultMsg(t)) => Once(outq'[g], ResultMsg(t))
                /\ Answered(g, t)' => Answered(g, t)
    PROVE  TaskInv'
  <1>1. ASSUME NEW t \in Tasks PROVE OnceInv(t)'
    <2>1. OnceInv(t) /\ UNCHANGED <<taskq, cur, handler, executed, delivered, dispatched>>
      BY DEF TaskInv, taskVars
    <2>2. ASSUME NEW g \in Gens
          PROVE  /\ Once(taskq'[g], t) /\ Once(outq'[g], ResultMsg(t))
                 /\ Queued(g, t)' => Queued(g, t)
                 /\ Pending(g, t)' => Pending(g, t)
                 /\ Answered(g, t)' => Answered(g, t)
      BY <2>1 DEF OnceInv, Queued, Pending, Streamed
    <2> QED
      BY <2>1, <2>2, GoneOrSame
  <1>2. \A g \in Gens : handler'[g] = "sent" => Streamed(cur'[g])
    BY DEF TaskInv, taskVars
  <1> QED
    BY <1>1, <1>2 DEF TaskInv, Streamed

\* Queues of messages that answer nothing.
LEMMA NoAnswers ==
    ASSUME NEW t \in Tasks
    PROVE  /\ StatusMsg # ResultMsg(t) /\ OfflineMsg # ResultMsg(t)
           /\ ~Has(<<>>, ResultMsg(t)) /\ Once(<<>>, ResultMsg(t))
           /\ ~Has(<<StatusMsg>>, ResultMsg(t)) /\ Once(<<StatusMsg>>, ResultMsg(t))
  <1>1. StatusMsg # ResultMsg(t) /\ OfflineMsg # ResultMsg(t)
    BY MessageTypes, ResultIs DEF StatusMsg, OfflineMsg
  <1>2. ~Has(<<>>, ResultMsg(t)) /\ Once(<<>>, ResultMsg(t))
    BY DEF Has, Once
  <1>3. \A i \in 1 .. Len(<<StatusMsg>>) : i = 1 /\ <<StatusMsg>>[i] = StatusMsg
    OBVIOUS
  <1> QED
    BY <1>1, <1>2, <1>3 DEF Has, Once

\* A queue that is kept, emptied or made with a status has no new answer.
LEMMA EmptiedQueue ==
    ASSUME NEW g \in Gens, NEW t \in Tasks,
           outq'[g] = outq[g] \/ outq'[g] = <<>> \/ outq'[g] = <<StatusMsg>>
    PROVE  /\ Once(outq[g], ResultMsg(t)) => Once(outq'[g], ResultMsg(t))
           /\ Answered(g, t)' => Answered(g, t)
  <1>1. Answered(g, t)' <=> Has(outq'[g], ResultMsg(t))
    BY DEF Answered, ResultMsg
  <1> QED
    BY <1>1, NoAnswers DEF Answered

\* A queue that gets a message which answers nothing.
LEMMA NoticeQueued ==
    ASSUME outq \in [Gens -> Seq(Messages)], NEW h \in Gens, NEW m \in {StatusMsg, OfflineMsg},
           Enqueue(h, m), NEW g \in Gens, NEW t \in Tasks
    PROVE  /\ Once(outq[g], ResultMsg(t)) => Once(outq'[g], ResultMsg(t))
           /\ Answered(g, t)' => Answered(g, t)
  <1>1. m \in Messages /\ m # ResultMsg(t)
    BY MessageTypes, NoAnswers
  <1>2. CASE g = h
    BY <1>1, <1>2, EnqueueHas
  <1>3. CASE g # h
    BY <1>1, <1>3, EnqueueHas, EmptiedQueue
  <1> QED
    BY <1>2, <1>3

LEMMA CommandKeepsTasks ==
    ASSUME TaskInv, TypeOK', NEW c \in Callers, Command(c)
    PROVE  TaskInv'
  <1>1. TypeOK /\ outq \in [Gens -> Seq(Messages)]
    BY DEF TaskInv, TypeOK
  <1>2. UNCHANGED <<taskVars, dispatched, delivered>>
    BY DEF Command, CommandProgress, StopSteps, ConnectBegin, DisconnectBegin, RoleBegin, StartRefused,
           Start, EndpointReturns, StopSkipped, StopBegin, AbortClient, AbortLoops, RoleWritten, cloudVars
  <1>3. CASE Start(c)
    <2>1. \E n : outq' = [outq EXCEPT ![n] = <<StatusMsg>>]
      BY <1>3 DEF Start
    <2>2. \A g \in Gens : outq'[g] = outq[g] \/ outq'[g] = <<StatusMsg>>
      BY <1>1, <2>1
    <2> QED
      BY <1>2, <2>2, EmptiedQueue, QuietKeepsTasks
  <1>4. CASE StopBegin(c)
    <2>1. outq' = outq \/ (outgoing \in Gens /\ Enqueue(outgoing, OfflineMsg))
      BY <1>1, <1>4 DEF StopBegin, TypeOK
    <2>2. ASSUME NEW g \in Gens, NEW t \in Tasks
          PROVE  /\ Once(outq[g], ResultMsg(t)) => Once(outq'[g], ResultMsg(t))
                 /\ Answered(g, t)' => Answered(g, t)
      <3>1. CASE outq' = outq
        BY <3>1, EmptiedQueue
      <3>2. CASE outgoing \in Gens /\ Enqueue(outgoing, OfflineMsg)
        BY <1>1, <3>2, NoticeQueued
      <3> QED
        BY <2>1, <3>1, <3>2
    <2> QED
      BY <1>2, <2>2, QuietKeepsTasks
  <1>5. CASE AbortClient(c)
    <2>1. outq' = outq \/ outq' = [outq EXCEPT ![handle] = <<>>]
      BY <1>5 DEF AbortClient
    <2>2. \A g \in Gens : outq'[g] = outq[g] \/ outq'[g] = <<>>
      BY <1>1, <2>1
    <2> QED
      BY <1>2, <2>2, EmptiedQueue, QuietKeepsTasks
  <1>6. CASE /\ ~Start(c) /\ ~StopBegin(c) /\ ~AbortClient(c)
    <2>1. outq' = outq
      BY <1>6 DEF Command, CommandProgress, StopSteps, ConnectBegin, DisconnectBegin, RoleBegin,
             StartRefused, EndpointReturns, StopSkipped, AbortLoops, RoleWritten
    <2> QED
      BY <1>2, <2>1, EmptiedQueue, QuietKeepsTasks
  <1> QED
    BY <1>3, <1>4, <1>5, <1>6

LEMMA RefresherKeepsTasks ==
    ASSUME TaskInv, TypeOK', NEW h \in Gens, Refresher(h)
    PROVE  TaskInv'
  <1>1. outq \in [Gens -> Seq(Messages)]
    BY DEF TaskInv, TypeOK
  <1>2. UNCHANGED <<taskVars, dispatched, delivered>> /\ (outq' = outq \/ Enqueue(h, StatusMsg))
    BY DEF Refresher, RefreshWakes, RefreshSends, RefreshSkips, cloudVars
  <1>3. ASSUME NEW g \in Gens, NEW t \in Tasks
        PROVE  /\ Once(outq[g], ResultMsg(t)) => Once(outq'[g], ResultMsg(t))
               /\ Answered(g, t)' => Answered(g, t)
    <2>1. CASE outq' = outq
      BY <2>1, EmptiedQueue
    <2>2. CASE Enqueue(h, StatusMsg)
      BY <1>1, <2>2, NoticeQueued
    <2> QED
      BY <1>2, <2>1, <2>2
  <1> QED
    BY <1>2, <1>3, QuietKeepsTasks

\* The client dials, waits, or gives up, which empties its queues.
LEMMA ClientKeepsTasks ==
    ASSUME TaskInv, TypeOK', NEW h \in Gens,
           \/ LoopTop(h) \/ Retry(h) \/ DialSucceeds(h) \/ DialFails(h) \/ ConnectionDies(h)
           \/ SessionLost(h)
           \/ Boot(h) \/ ClientExit(h)
    PROVE  TaskInv'
  <1>1. CASE LoopTop(h) \/ Retry(h) \/ DialSucceeds(h) \/ DialFails(h) \/ ConnectionDies(h)
           \/ SessionLost(h)
    <2>1. UNCHANGED <<taskVars, dispatched, delivered>> /\ (outq' = outq \/ outq' = [outq EXCEPT ![h] = outq[h]])
      BY <1>1 DEF LoopTop, Retry, DialSucceeds, DialFails, ConnectionDies, SessionLost, Resumed, cloudVars
    <2>2. \A g \in Gens : outq'[g] = outq[g]
      BY <2>1 DEF TaskInv, TypeOK
    <2> QED
      BY <2>1, <2>2, EmptiedQueue, QuietKeepsTasks
  <1>2. CASE Boot(h) \/ ClientExit(h)
    <2>1. /\ UNCHANGED <<executed, dispatched, delivered>>
          /\ \E s \in {"idle", "ended"} : handler' = [handler EXCEPT ![h] = s]
          /\ cur' = cur \/ cur' = [cur EXCEPT ![h] = NoTask]
          /\ taskq' = taskq \/ taskq' = [taskq EXCEPT ![h] = <<>>]
          /\ outq' = outq \/ outq' = [outq EXCEPT ![h] = <<>>]
      BY <1>2 DEF Boot, ClientExit, cloudVars
    <2>2. ASSUME NEW g \in Gens
          PROVE  /\ outq'[g] = outq[g] \/ outq'[g] = <<>>
                 /\ taskq'[g] = taskq[g] \/ taskq'[g] = <<>>
                 /\ g # h => handler'[g] = handler[g] /\ cur'[g] = cur[g]
                 /\ g = h => handler'[g] \in {"idle", "ended"}
      BY <2>1 DEF TaskInv, TypeOK
    <2>3. ASSUME NEW t \in Tasks PROVE OnceInv(t)'
      <3>1. ASSUME NEW g \in Gens
            PROVE  /\ Once(taskq'[g], t) /\ Once(outq'[g], ResultMsg(t))
                   /\ Queued(g, t)' => Queued(g, t)
                   /\ Pending(g, t)' => Pending(g, t)
                   /\ Answered(g, t)' => Answered(g, t)
        <4>1. Once(taskq[g], t) /\ Once(outq[g], ResultMsg(t))
          BY DEF TaskInv, OnceInv
        <4>2. Once(<<>>, t) /\ ~Has(<<>>, t)
          BY DEF Once, Has
        <4>3. Once(taskq'[g], t) /\ (Queued(g, t)' => Queued(g, t))
          BY <2>2, <4>1, <4>2 DEF Queued
        <4>4. Pending(g, t)' => Pending(g, t)
          BY <2>2 DEF Pending, Streamed
        <4> QED
          BY <2>2, <4>1, <4>3, <4>4, EmptiedQueue
      <3> QED
        BY <2>1, <3>1, GoneOrSame DEF TaskInv
    <2>4. \A g \in Gens : handler'[g] = "sent" => Streamed(cur'[g])
      BY <2>2 DEF TaskInv
    <2> QED
      BY <2>3, <2>4 DEF TaskInv, Streamed
  <1> QED
    BY <1>1, <1>2

\* What the head of a queue of messages was for task t once it is gone.
LEMMA HeadWritten ==
    ASSUME TaskInv, NEW h \in Gens, outq[h] # <<>>, outq' = [outq EXCEPT ![h] = Tail(outq[h])],
           UNCHANGED <<taskVars, dispatched>>,
           Received(Head(outq[h])) \/ UNCHANGED delivered, NEW t \in Tasks
    PROVE  OnceInv(t)'
  <1> DEFINE m == Head(outq[h])
  <1>1. /\ outq[h] \in Seq(Messages) /\ m \in Messages /\ outq'[h] = Tail(outq[h])
        /\ \A g \in Gens \ {h} : outq'[g] = outq[g]
        /\ delivered \in [Tasks -> Nat] /\ executed \in [Tasks -> Nat]
    BY TailType DEF TaskInv, TypeOK
  <1>2. OnceInv(t) /\ UNCHANGED <<taskq, cur, handler, executed, dispatched>>
    BY DEF TaskInv, taskVars
  <1>3. /\ Has(outq'[h], ResultMsg(t)) => Has(outq[h], ResultMsg(t))
        /\ m = ResultMsg(t) => Has(outq[h], ResultMsg(t)) /\ ~Has(outq'[h], ResultMsg(t))
        /\ Once(outq'[h], ResultMsg(t))
    <2>1. Once(outq[h], ResultMsg(t))
      BY <1>2 DEF OnceInv
    <2> QED
      BY <1>1, <2>1, TailHas
  <1>4. m = ResultMsg(t) <=> m.type = "result" /\ m.task = t
    BY <1>1, ResultIs
  <1>5. m.type = "result" => m.task \in Tasks
    BY <1>1 DEF Messages
  <1>6. delivered'[t] = delivered[t] \/ (m = ResultMsg(t) /\ delivered'[t] = delivered[t] + 1)
    BY <1>1, <1>4, <1>5 DEF Received
  <1>7. \A g \in Gens : Answered(g, t)' <=> Has(outq'[g], ResultMsg(t))
    BY DEF Answered, ResultMsg
  <1> HIDE DEF m
  <1>8. CASE m = ResultMsg(t)
    <2>1. Answered(h, t) /\ ~Answered(h, t)'
      BY <1>3, <1>7, <1>8 DEF Answered
    <2>2. Holds(h, t) /\ ~Queued(h, t) /\ ~Pending(h, t) /\ delivered[t] = 0 /\ t \in dispatched /\ executed[t] <= 1
      BY <1>2, <2>1 DEF OnceInv, Holds
    <2>3. ~Queued(h, t)' /\ ~Pending(h, t)'
      BY <1>2, <2>2 DEF Queued, Pending, Streamed
    <2>4. ~Holds(h, t)'
      BY <2>1, <2>3 DEF Holds
    <2>5. delivered'[t] <= 1 /\ executed'[t] <= 1 /\ t \in dispatched' /\ Once(taskq'[h], t)
      BY <1>2, <1>6, <2>2 DEF OnceInv
    <2> QED
      BY <1>1, <1>2, <1>3, <2>1, <2>2, <2>3, <2>4, <2>5, Moved
  <1>9. CASE m # ResultMsg(t)
    <2>1. ASSUME NEW g \in Gens
          PROVE  /\ Once(taskq'[g], t) /\ Once(outq'[g], ResultMsg(t))
                 /\ Queued(g, t)' => Queued(g, t)
                 /\ Pending(g, t)' => Pending(g, t)
                 /\ Answered(g, t)' => Answered(g, t)
      <3>1. Once(taskq'[g], t) /\ (Queued(g, t)' => Queued(g, t)) /\ (Pending(g, t)' => Pending(g, t))
        BY <1>2 DEF OnceInv, Queued, Pending, Streamed
      <3>2. CASE g = h
        BY <1>3, <1>7, <3>1, <3>2 DEF Answered
      <3>3. CASE g # h
        BY <1>1, <1>2, <1>7, <3>1, <3>3 DEF Answered, OnceInv
      <3> QED
        BY <3>2, <3>3
    <2> QED
      BY <1>2, <1>6, <1>9, <2>1, GoneOrSame
  <1> QED
    BY <1>8, <1>9

LEMMA WriteKeepsTasks ==
    ASSUME TaskInv, TypeOK', NEW h \in Gens, Write(h) \/ WriteFails(h)
    PROVE  TaskInv'
  <1>1. /\ outq[h] # <<>> /\ outq' = [outq EXCEPT ![h] = Tail(outq[h])]
        /\ UNCHANGED <<taskVars, dispatched>>
        /\ Received(Head(outq[h])) \/ UNCHANGED delivered
    BY DEF Write, WriteFails, Unsent, Loses
  <1>2. \A t \in Tasks : OnceInv(t)'
    BY <1>1, HeadWritten
  <1>3. \A g \in Gens : handler'[g] = "sent" => Streamed(cur'[g])
    BY <1>1 DEF TaskInv, taskVars
  <1> QED
    BY <1>2, <1>3 DEF TaskInv, Streamed

\* A task that is dispatched and goes nowhere.
LEMMA SameOnce ==
    ASSUME NEW t \in Tasks, OnceInv(t), UNCHANGED <<taskq, outq, executed, delivered>>,
           \A g \in Gens : /\ Queued(g, t)' <=> Queued(g, t)
                           /\ Pending(g, t)' <=> Pending(g, t)
                           /\ Answered(g, t)' <=> Answered(g, t)
                           /\ Holds(g, t)' <=> Holds(g, t),
           t \in dispatched => t \in dispatched'
    PROVE  OnceInv(t)'
  <1>1. \A g \in Gens : Once(taskq'[g], t) /\ Once(outq'[g], ResultMsg(t))
    BY DEF OnceInv
  <1> QED
    BY <1>1 DEF OnceInv, ResultMsg

LEMMA ReceiveKeepsTasks ==
    ASSUME TaskInv, TypeOK', NEW h \in Gens, NEW u \in Tasks, ReceiveTask(h, u)
    PROVE  TaskInv'
  <1>0. CASE taskq' = taskq
    <2>1. /\ dispatched' = dispatched \union {u}
          /\ UNCHANGED <<taskq, outq, cur, handler, executed, delivered>>
      BY <1>0 DEF ReceiveTask
    <2>2. ASSUME NEW t \in Tasks PROVE OnceInv(t)'
      <3>1. OnceInv(t)
        BY DEF TaskInv
      <3>2. \A g \in Gens : /\ Queued(g, t)' <=> Queued(g, t)
                            /\ Pending(g, t)' <=> Pending(g, t)
                            /\ Answered(g, t)' <=> Answered(g, t)
                            /\ Holds(g, t)' <=> Holds(g, t)
        BY <2>1 DEF Queued, Pending, Answered, Holds, Streamed, ResultMsg
      <3>3. t \in dispatched => t \in dispatched'
        BY <2>1
      <3> QED
        BY <2>1, <3>1, <3>2, <3>3, SameOnce
    <2> QED
      BY <2>1, <2>2 DEF TaskInv, Streamed
  <1> SUFFICES ASSUME taskq' # taskq PROVE TaskInv'
    BY <1>0
  <1>1. /\ u \notin dispatched /\ dispatched' = dispatched \union {u}
        /\ taskq' = [taskq EXCEPT ![h] = Append(taskq[h], u)]
        /\ UNCHANGED <<outq, cur, handler, executed, delivered>>
    BY DEF ReceiveTask
  <1>2. /\ taskq[h] \in Seq(Tasks) /\ taskq'[h] = Append(taskq[h], u)
        /\ \A g \in Gens \ {h} : taskq'[g] = taskq[g]
        /\ delivered \in [Tasks -> Nat] /\ executed \in [Tasks -> Nat]
    BY <1>1 DEF TaskInv, TypeOK
  <1>3. ASSUME NEW t \in Tasks PROVE OnceInv(t)'
    <2>1. OnceInv(t)
      BY DEF TaskInv
    <2>2. /\ Has(taskq'[h], t) <=> Has(taskq[h], t) \/ u = t
          /\ Once(taskq[h], t) /\ ~(u = t /\ Has(taskq[h], t)) => Once(taskq'[h], t)
      BY <1>2, AppendHas
    <2>3. \A g \in Gens : /\ Pending(g, t)' <=> Pending(g, t)
                          /\ Answered(g, t)' <=> Answered(g, t)
                          /\ g # h => (Queued(g, t)' <=> Queued(g, t))
      BY <1>1, <1>2 DEF Pending, Answered, Queued, Streamed, ResultMsg
    <2>4. CASE u = t
      <3>1. ~Holds(h, t) /\ executed[t] = 0 /\ delivered[t] = 0
        BY <1>1, <2>1, <2>4 DEF OnceInv
      <3>2. ~Queued(h, t) /\ ~Pending(h, t)' /\ ~Answered(h, t)'
        BY <2>3, <3>1 DEF Holds
      <3>3. Once(taskq'[h], t) /\ Once(outq'[h], ResultMsg(t))
        BY <1>1, <2>1, <2>2, <3>2 DEF OnceInv, Queued
      <3> QED
        BY <1>1, <1>2, <2>1, <2>4, <3>1, <3>2, <3>3, Moved
    <2>5. CASE u # t
      <3>1. ASSUME NEW g \in Gens
            PROVE  /\ Once(taskq'[g], t) /\ Once(outq'[g], ResultMsg(t))
                   /\ Queued(g, t)' => Queued(g, t)
        <4>1. Once(taskq[g], t) /\ Once(outq[g], ResultMsg(t))
          BY <2>1 DEF OnceInv
        <4>2. CASE g = h
          BY <1>1, <2>2, <2>5, <4>1, <4>2 DEF Queued
        <4>3. CASE g # h
          BY <1>1, <1>2, <2>3, <4>1, <4>3
        <4> QED
          BY <4>2, <4>3
      <3> QED
        BY <1>1, <2>1, <2>3, <2>5, <3>1, GoneOrSame
    <2> QED
      BY <2>4, <2>5
  <1>4. \A g \in Gens : handler'[g] = "sent" => Streamed(cur'[g])
    BY <1>1 DEF TaskInv
  <1> QED
    BY <1>3, <1>4 DEF TaskInv, Streamed

\* The handler of h takes task u from its queue, works on it or answers it.
LEMMA WorkedOn ==
    ASSUME TaskInv, NEW h \in Gens, NEW u \in Tasks, Queued(h, u) \/ Pending(h, u),
           \A g \in Gens \ {h} : taskq'[g] = taskq[g] /\ cur'[g] = cur[g] /\ handler'[g] = handler[g],
           UNCHANGED <<dispatched, delivered>>,
           \/ taskq'[h] = taskq[h] /\ ~Queued(h, u)
           \/ taskq[h] # <<>> /\ Head(taskq[h]) = u /\ taskq'[h] = Tail(taskq[h]),
           outq' = outq \/ (Enqueue(h, ResultMsg(u)) /\ ~Pending(h, u)'),
           \A t \in Tasks : /\ Pending(h, t)' => t = u
                            /\ t # u => executed'[t] = executed[t],
           executed'[u] <= 1,
           NEW t \in Tasks
    PROVE  OnceInv(t)'
  <1>1. OnceInv(t) /\ OnceInv(u) /\ outq \in [Gens -> Seq(Messages)] /\ taskq[h] \in Seq(Tasks)
    BY DEF TaskInv, TypeOK
  <1>2. /\ Once(taskq'[h], t) /\ (Has(taskq'[h], t) => Has(taskq[h], t))
        /\ ~Has(taskq'[h], u)
    <2>1. Once(taskq[h], t) /\ Once(taskq[h], u)
      BY <1>1 DEF OnceInv
    <2>2. CASE taskq'[h] = taskq[h] /\ ~Queued(h, u)
      BY <2>1, <2>2 DEF Queued
    <2>3. CASE taskq[h] # <<>> /\ Head(taskq[h]) = u /\ taskq'[h] = Tail(taskq[h])
      <3>1. /\ Has(Tail(taskq[h]), t) => Has(taskq[h], t)
            /\ Once(taskq[h], t) => Once(Tail(taskq[h]), t)
            /\ Once(taskq[h], u) => ~(Head(taskq[h]) = u /\ Has(Tail(taskq[h]), u))
        BY <1>1, <2>3, TailHas
      <3> QED
        BY <2>1, <2>3, <3>1
    <2> QED
      BY <2>2, <2>3
  <1>3. /\ \A g \in Gens \ {h} : outq'[g] = outq[g]
        /\ Once(outq'[h], ResultMsg(t))
        /\ Answered(h, t)' => Answered(h, t) \/ (t = u /\ ~Pending(h, u)')
    <2>1. Once(outq[h], ResultMsg(t))
      BY <1>1 DEF OnceInv
    <2>2. CASE outq' = outq
      BY <2>1, <2>2 DEF Answered, ResultMsg
    <2>3. CASE Enqueue(h, ResultMsg(u)) /\ ~Pending(h, u)'
      <3>1. ResultMsg(u) = ResultMsg(t) <=> u = t
        BY DEF ResultMsg
      <3>2. ~Answered(h, u)
        BY <1>1 DEF OnceInv
      <3>3. ResultMsg(u) \in Messages
        BY MessageTypes
      <3>4. /\ \A g \in Gens \ {h} : outq'[g] = outq[g]
            /\ Answered(h, t)' => Answered(h, t) \/ ResultMsg(u) = ResultMsg(t)
            /\ Once(outq[h], ResultMsg(t)) /\ ~(ResultMsg(u) = ResultMsg(t) /\ Answered(h, t))
                => Once(outq'[h], ResultMsg(t))
        BY <1>1, <2>3, <3>3, EnqueueHas
      <3> QED
        BY <2>1, <2>3, <3>1, <3>2, <3>4
    <2> QED
      BY <2>2, <2>3
  <1>4. CASE t = u
    <2>1. Holds(h, u) /\ ~Answered(h, u) /\ u \in dispatched /\ delivered[u] = 0
      BY <1>1 DEF OnceInv, Holds
    <2>2. ~Queued(h, u)' /\ ~(Pending(h, u)' /\ Answered(h, u)')
      BY <1>2, <1>3, <1>4, <2>1 DEF Queued
    <2> QED
      BY <1>1, <1>2, <1>3, <1>4, <2>1, <2>2, Moved
  <1>5. CASE t # u
    <2>1. ASSUME NEW g \in Gens
          PROVE  /\ Once(taskq'[g], t) /\ Once(outq'[g], ResultMsg(t))
                 /\ Queued(g, t)' => Queued(g, t)
                 /\ Pending(g, t)' => Pending(g, t)
                 /\ Answered(g, t)' => Answered(g, t)
      <3>1. Once(taskq[g], t) /\ Once(outq[g], ResultMsg(t))
        BY <1>1 DEF OnceInv
      <3>2. CASE g = h
        <4>1. ~Pending(h, t)' /\ (Answered(h, t)' => Answered(h, t))
          BY <1>3, <1>5
        <4>2. Queued(h, t)' => Queued(h, t)
          BY <1>2 DEF Queued
        <4> QED
          BY <1>2, <1>3, <3>2, <4>1, <4>2
      <3>3. CASE g # h
        BY <1>3, <3>1, <3>3 DEF Queued, Pending, Answered, Streamed, ResultMsg
      <3> QED
        BY <3>2, <3>3
    <2>2. executed'[t] = executed[t] /\ delivered'[t] = delivered[t] /\ (t \in dispatched' <=> t \in dispatched)
      BY <1>5
    <2> QED
      BY <1>1, <2>1, <2>2, GoneOrSame
  <1> QED
    BY <1>4, <1>5

\* The handler leaves the queues alone and has nothing to answer.
LEMMA NothingToAnswer ==
    ASSUME TaskInv, NEW h \in Gens,
           UNCHANGED <<taskq, outq, executed, dispatched, delivered>>,
           \A g \in Gens \ {h} : cur'[g] = cur[g] /\ handler'[g] = handler[g],
           \A t \in Tasks : ~Pending(h, t)',
           NEW t \in Tasks
    PROVE  OnceInv(t)'
  <1>1. OnceInv(t)
    BY DEF TaskInv
  <1>2. ASSUME NEW g \in Gens
        PROVE  /\ Once(taskq'[g], t) /\ Once(outq'[g], ResultMsg(t))
               /\ Queued(g, t)' => Queued(g, t)
               /\ Pending(g, t)' => Pending(g, t)
               /\ Answered(g, t)' => Answered(g, t)
    BY <1>1 DEF OnceInv, Queued, Pending, Answered, Streamed, ResultMsg
  <1> QED
    BY <1>1, <1>2, GoneOrSame

LEMMA HandlerKeepsTasks ==
    ASSUME TaskInv, TypeOK', NEW h \in Gens, Handler(h)
    PROVE  TaskInv'
  <1>1. /\ taskq \in [Gens -> Seq(Tasks)] /\ handler \in [Gens -> HandlerStates]
        /\ cur \in [Gens -> Tasks \union {NoTask}] /\ executed \in [Tasks -> Nat]
        /\ handler[h] \in {"executing", "sent", "rejected", "cooling"} => cur[h] \in Tasks
        /\ handler[h] = "sent" => Streamed(cur[h])
    BY DEF TaskInv, TypeOK
  <1>2. UNCHANGED <<dispatched, delivered>>
    BY DEF Handler, HandlerStep, Reject, Execute, Executed, LogSent, Cooled, HandlerPanics, HandlerEnds, cloudVars
  <1>3. \E s, u : /\ handler' = handler \/ handler' = [handler EXCEPT ![h] = s]
                  /\ cur' = cur \/ cur' = [cur EXCEPT ![h] = u]
    BY DEF Handler, HandlerStep, Reject, Execute, Executed, LogSent, Cooled, HandlerPanics, HandlerEnds
  <1>4. \A g \in Gens \ {h} : cur'[g] = cur[g] /\ handler'[g] = handler[g]
    <2>1. PICK s, u : /\ handler' = handler \/ handler' = [handler EXCEPT ![h] = s]
                      /\ cur' = cur \/ cur' = [cur EXCEPT ![h] = u]
      BY <1>3, Zenon
    <2>2. \A g \in Gens \ {h} : handler'[g] = handler[g]
      BY <1>1, <2>1
    <2>3. \A g \in Gens \ {h} : cur'[g] = cur[g]
      BY <1>1, <2>1
    <2> QED
      BY <2>2, <2>3
  <1>5. CASE Reject(h)
    <2> DEFINE u == Head(taskq[h])
    <2>1. /\ u \in Tasks /\ taskq[h] # <<>> /\ taskq' = [taskq EXCEPT ![h] = Tail(taskq[h])]
          /\ Enqueue(h, ResultMsg(u)) /\ executed' = executed
      BY <1>1, <1>5, TailType DEF Reject
    <2>2. handler'[h] \in {"idle", "rejected"}
      BY <1>1, <1>5 DEF Reject
    <2>3. Queued(h, u)
      BY <1>1, <2>1, TailHas DEF Queued
    <2>4. \A t \in Tasks : ~Pending(h, t)'
      BY <2>2 DEF Pending
    <2>5. executed[u] <= 1
      BY <2>1 DEF TaskInv, OnceInv
    <2>6. taskq'[h] = Tail(taskq[h]) /\ \A g \in Gens \ {h} : taskq'[g] = taskq[g]
      BY <1>1, <2>1
    <2> HIDE DEF u
    <2>7. \A t \in Tasks : OnceInv(t)'
      BY <1>2, <1>4, <2>1, <2>3, <2>4, <2>5, <2>6, WorkedOn DEF u
    <2>8. \A g \in Gens : handler'[g] = "sent" => Streamed(cur'[g])
      BY <1>4, <2>2 DEF TaskInv
    <2> QED
      BY <2>7, <2>8 DEF TaskInv, Streamed
  <1>6. CASE Execute(h)
    <2> DEFINE u == Head(taskq[h])
    <2>1. /\ u \in Tasks /\ taskq[h] # <<>> /\ taskq' = [taskq EXCEPT ![h] = Tail(taskq[h])]
          /\ outq' = outq /\ executed' = [executed EXCEPT ![u] = @ + 1]
          /\ handler' = [handler EXCEPT ![h] = "executing"] /\ cur' = [cur EXCEPT ![h] = u]
      BY <1>1, <1>6, TailType DEF Execute
    <2> HIDE DEF u
    <2>2. handler'[h] = "executing" /\ cur'[h] = u
      BY <1>1, <2>1
    <2>3. Queued(h, u)
      BY <1>1, <2>1, TailHas DEF Queued, u
    <2>4. \A t \in Tasks : Pending(h, t)' => t = u
      BY <2>2 DEF Pending
    <2>5. executed[u] = 0
      BY <2>1, <2>3 DEF TaskInv, OnceInv
    <2>6. taskq'[h] = Tail(taskq[h]) /\ \A g \in Gens \ {h} : taskq'[g] = taskq[g]
      BY <1>1, <2>1
    <2>7. executed'[u] <= 1 /\ \A t \in Tasks : t # u => executed'[t] = executed[t]
      BY <1>1, <2>1, <2>5
    <2>8. \A t \in Tasks : OnceInv(t)'
      BY <1>2, <1>4, <2>1, <2>3, <2>4, <2>6, <2>7, WorkedOn DEF u
    <2>9. \A g \in Gens : handler'[g] = "sent" => Streamed(cur'[g])
      BY <1>4, <2>2 DEF TaskInv
    <2> QED
      BY <2>8, <2>9 DEF TaskInv, Streamed
  <1>7. CASE Executed(h)
    <2>1. /\ handler[h] = "executing" /\ cur[h] \in Tasks /\ Pending(h, cur[h]) /\ cur' = cur
          /\ UNCHANGED <<taskq, executed>>
      BY <1>1, <1>7 DEF Executed, Pending
    <2>2. \/ Streamed(cur[h]) /\ Enqueue(h, ResultMsg(cur[h])) /\ handler'[h] = "sent"
          \/ ~Streamed(cur[h]) /\ outq' = outq /\ handler'[h] = "cooling"
      BY <1>1, <1>7 DEF Executed
    <2>3. ~Queued(h, cur[h]) /\ executed[cur[h]] <= 1
      BY <2>1 DEF TaskInv, OnceInv
    <2>4. /\ \A t \in Tasks : Pending(h, t)' => t = cur[h]
          /\ outq' = outq \/ (Enqueue(h, ResultMsg(cur[h])) /\ ~Pending(h, cur[h])')
      BY <2>1, <2>2 DEF Pending
    <2>5. \A t \in Tasks : OnceInv(t)'
      BY <1>2, <1>4, <2>1, <2>3, <2>4, WorkedOn
    <2>6. \A g \in Gens : handler'[g] = "sent" => Streamed(cur'[g])
      BY <1>4, <2>1, <2>2 DEF TaskInv
    <2> QED
      BY <2>5, <2>6 DEF TaskInv, Streamed
  <1>8. CASE Cooled(h) /\ ~Streamed(cur[h])
    <2>1. /\ handler[h] = "cooling" /\ cur[h] \in Tasks /\ Pending(h, cur[h])
          /\ UNCHANGED <<taskq, executed>> /\ Enqueue(h, ResultMsg(cur[h])) /\ handler'[h] = "idle"
      BY <1>1, <1>8 DEF Cooled, Pending
    <2>2. ~Queued(h, cur[h]) /\ executed[cur[h]] <= 1
      BY <2>1 DEF TaskInv, OnceInv
    <2>3. \A t \in Tasks : ~Pending(h, t)'
      BY <2>1 DEF Pending
    <2>4. \A t \in Tasks : OnceInv(t)'
      BY <1>2, <1>4, <2>1, <2>2, <2>3, WorkedOn
    <2>5. \A g \in Gens : handler'[g] = "sent" => Streamed(cur'[g])
      BY <1>4, <2>1 DEF TaskInv
    <2> QED
      BY <2>4, <2>5 DEF TaskInv, Streamed
  <1>9. CASE (Cooled(h) /\ Streamed(cur[h])) \/ LogSent(h) \/ HandlerEnds(h)
    <2>1. UNCHANGED <<taskq, outq, executed>>
      BY <1>9 DEF Cooled, LogSent, HandlerEnds
    <2>2. \/ handler'[h] \in {"idle", "ended"}
          \/ handler'[h] = "cooling" /\ cur'[h] = cur[h] /\ Streamed(cur[h])
      BY <1>1, <1>9 DEF Cooled, LogSent, HandlerEnds
    <2>3. \A t \in Tasks : ~Pending(h, t)'
      BY <2>2 DEF Pending, Streamed
    <2>4. \A t \in Tasks : OnceInv(t)'
      BY <1>2, <1>4, <2>1, <2>3, NothingToAnswer
    <2>5. \A g \in Gens : handler'[g] = "sent" => Streamed(cur'[g])
      BY <1>4, <2>2 DEF TaskInv
    <2> QED
      BY <2>4, <2>5 DEF TaskInv, Streamed
  <1>10. CASE HandlerPanics(h)
    <2>1. /\ handler'[h] = "panicked" /\ UNCHANGED <<outq, executed>>
          /\ taskq'[h] = <<>> /\ \A g \in Gens \ {h} : taskq'[g] = taskq[g]
      BY <1>1, <1>10 DEF HandlerPanics
    <2>2. ASSUME NEW t \in Tasks PROVE OnceInv(t)'
      <3>1. OnceInv(t)
        BY DEF TaskInv
      <3>2. Once(<<>>, t) /\ ~Has(<<>>, t)
        BY DEF Once, Has
      <3>3. ASSUME NEW g \in Gens
            PROVE  /\ Once(taskq'[g], t) /\ Once(outq'[g], ResultMsg(t))
                   /\ Queued(g, t)' => Queued(g, t)
                   /\ Pending(g, t)' => Pending(g, t)
                   /\ Answered(g, t)' => Answered(g, t)
        <4>1. Once(taskq[g], t) /\ Once(outq[g], ResultMsg(t))
          BY <3>1 DEF OnceInv
        <4>2. Once(taskq'[g], t) /\ (Queued(g, t)' => Queued(g, t))
          BY <2>1, <3>2, <4>1 DEF Queued
        <4>3. Pending(g, t)' => Pending(g, t)
          BY <1>4, <2>1 DEF Pending, Streamed
        <4> QED
          BY <2>1, <4>1, <4>2, <4>3 DEF Answered, ResultMsg
      <3> QED
        BY <1>2, <2>1, <3>1, <3>3, GoneOrSame
    <2>3. \A g \in Gens : handler'[g] = "sent" => Streamed(cur'[g])
      BY <1>4, <2>1 DEF TaskInv
    <2> QED
      BY <2>2, <2>3 DEF TaskInv, Streamed
  <1> QED
    BY <1>5, <1>6, <1>7, <1>8, <1>9, <1>10 DEF Handler, HandlerStep

LEMMA InitTaskInv == ASSUME Init PROVE TaskInv
  <1>1. ASSUME NEW t \in Tasks PROVE OnceInv(t)
    <2>1. ~Has(<<>>, t) /\ Once(<<>>, t)
      BY DEF Has, Once
    <2>2. /\ executed[t] = 0 /\ delivered[t] = 0 /\ t \notin dispatched
          /\ \A g \in Gens : taskq[g] = <<>> /\ outq[g] = <<>> /\ handler[g] = "none"
      BY DEF Init
    <2>3. \A g \in Gens : ~Queued(g, t) /\ ~Pending(g, t) /\ ~Answered(g, t)
      BY <2>1, <2>2, NoAnswers DEF Queued, Pending, Answered
    <2> QED
      BY <2>1, <2>2, <2>3, NoAnswers DEF OnceInv, Holds
  <1>2. \A g \in Gens : handler[g] # "sent"
    BY DEF Init
  <1> QED
    BY <1>1, <1>2, InitTypeOK DEF TaskInv

LEMMA NextTaskInv == ASSUME TaskInv, TypeOK', [Next]_vars PROVE TaskInv'
  <1>1. CASE UNCHANGED vars
    <2>1. UNCHANGED <<taskVars, dispatched, delivered>> /\ outq' = outq
      BY <1>1 DEF vars, cloudVars
    <2> QED
      BY <2>1, EmptiedQueue, QuietKeepsTasks
  <1>2. ASSUME NEW g \in Gens, Client(g) PROVE TaskInv'
    BY <1>2, ClientKeepsTasks, WriteKeepsTasks, ReceiveKeepsTasks DEF Client, ClientProgress, Dial
  <1> QED
    BY <1>1, <1>2, CommandKeepsTasks, HandlerKeepsTasks, RefresherKeepsTasks DEF Next

\* A task is executed at most once and answered at most once, whatever reconnections, failing
\* writes, stops and starts come in between (the task handler of Daemon::start, P2PClient::run).
THEOREM AnsweredOnce == Spec => []AtMostOnce
  <1>1. TaskInv => AtMostOnce
    BY DEF TaskInv, OnceInv, AtMostOnce
  <1> QED
    BY <1>1, TypeCorrect, InitTaskInv, NextTaskInv, PTL DEF Spec

----------------------------------------------------------------------------
(* What becomes of a task: its row follows its answer, and it is not lost   *)
(* without a trace.                                                         *)

\* A client that has not begun has no tasks; the handler answers a streamed task before
\* it logs it and a plain one after.
StageInv(g) ==
    /\ client[g] \in {"none", "spawned"} => handler[g] = "none"
    /\ client[g] = "booted" => handler[g] = "idle"
    /\ client[g] \in {"none", "spawned", "booted"} => taskq[g] = <<>>
    /\ client[g] = "none" => outq[g] = <<>>
    /\ handler[g] \in {"sent", "rejected"} => Streamed(cur[g])
    /\ handler[g] = "cooling" => cur[g] \in logged

\* An answer to t has left the handler, wherever it is now.
Told(t) == delivered[t] > 0 \/ t \in lost \/ \E g \in Gens : Answered(g, t)

\* The handler of g is about to write the row of t.
RowOwed(g, t) == Streamed(t) /\ cur[g] = t /\ handler[g] \in {"sent", "rejected"}

\* A task that was answered has its row in p2p_task_log, or it is a streamed one and its
\* handler, which no stop ends, is about to write it (handle_task, handle_task_stream).
RowFollowsAnswer ==
    \A t \in Tasks : Told(t) => t \in logged \/ \E g \in Gens : RowOwed(g, t)

FollowInv == (\A g \in Gens : StageInv(g)) /\ RowFollowsAnswer

\* A task leaves generation g only if the cloud has its answer, if the answer went into a
\* connection that failed or was dead, in a panic of the handler, or with the client of g gone.
Accounted(g, t) ==
    Holds(g, t) => \/ Holds(g, t)'
                   \/ delivered'[t] > 0
                   \/ t \in lost' /\ Connected(g)
                   \/ t \in dropped' /\ handler'[g] = "panicked"
                   \/ ~Live(g)'
AllAccounted == \A g \in Gens, t \in Tasks : Accounted(g, t)

LEMMA RowKept ==
    ASSUME RowFollowsAnswer, logged \subseteq logged',
           \A t \in Tasks : Told(t)' => Told(t) \/ t \in logged' \/ \E g \in Gens : RowOwed(g, t)',
           \A t \in Tasks, g \in Gens : RowOwed(g, t) => RowOwed(g, t)' \/ t \in logged'
    PROVE  RowFollowsAnswer'
  <1>1. ASSUME NEW t \in Tasks, Told(t)' PROVE t \in logged' \/ \E g \in Gens : RowOwed(g, t)'
    BY <1>1 DEF RowFollowsAnswer
  <1> QED
    BY <1>1 DEF RowFollowsAnswer

LEMMA ToldOnly ==
    ASSUME UNCHANGED <<delivered, lost>>, NEW t \in Tasks,
           \A g \in Gens : Answered(g, t)' => Answered(g, t)
    PROVE  Told(t)' => Told(t)
  BY DEF Told

\* A message that is appended leaves the answers in the queue.
LEMMA QueueGrows ==
    ASSUME NEW q \in Seq(Messages), NEW m \in Messages, NEW t \in Tasks
    PROVE  Has(Append(q, m), ResultMsg(t)) <=> Has(q, ResultMsg(t)) \/ m = ResultMsg(t)
  BY AppendHas

\* A step that leaves the handlers alone, and the queues but for a notice, unless a client
\* begins or ends.
LEMMA QuietFollows ==
    ASSUME TypeOK, FollowInv, UNCHANGED <<taskVars, delivered, lost>>,
           \A g \in Gens :
            \/ client'[g] = client[g] /\ outq'[g] = outq[g]
            \/ /\ client'[g] = client[g] /\ client[g] # "none"
               /\ \E m \in {StatusMsg, OfflineMsg} : outq'[g] = Append(outq[g], m)
            \/ client[g] = "none" /\ client'[g] = "spawned" /\ outq'[g] = <<StatusMsg>>
            \/ client'[g] \notin {"none", "spawned", "booted"} /\ outq'[g] = outq[g]
            \/ client'[g] = "aborted" /\ outq'[g] = <<>>
    PROVE  FollowInv' /\ AllAccounted
  <1>1. UNCHANGED <<taskq, handler, cur, logged>>
    BY DEF taskVars
  <1>2. ASSUME NEW g \in Gens, NEW t \in Tasks
        PROVE  /\ Answered(g, t)' => Answered(g, t)
               /\ Answered(g, t) => Answered(g, t)' \/ ~Live(g)'
    <2>1. /\ Answered(g, t) <=> Has(outq[g], ResultMsg(t))
          /\ Answered(g, t)' <=> Has(outq'[g], ResultMsg(t))
      BY DEF Answered, ResultMsg
    <2>2. outq[g] \in Seq(Messages)
      BY DEF TypeOK
    <2>3. CASE outq'[g] = outq[g]
      BY <2>1, <2>3
    <2>4. CASE \E m \in {StatusMsg, OfflineMsg} : outq'[g] = Append(outq[g], m)
      BY <2>1, <2>2, <2>4, MessageTypes, NoAnswers, QueueGrows
    <2>5. CASE client[g] = "none" /\ outq'[g] = <<StatusMsg>>
      <3>1. outq[g] = <<>>
        BY <2>5 DEF FollowInv, StageInv
      <3> QED
        BY <2>1, <2>5, <3>1, NoAnswers
    <2>6. CASE client'[g] = "aborted" /\ outq'[g] = <<>>
      BY <2>1, <2>6, NoAnswers DEF Live, LiveStates
    <2> QED
      BY <2>3, <2>4, <2>5, <2>6
  <1>3. RowFollowsAnswer'
    <2>1. \A t \in Tasks, g \in Gens : RowOwed(g, t) => RowOwed(g, t)'
      BY <1>1 DEF RowOwed, Streamed
    <2>2. \A t \in Tasks : Told(t)' => Told(t)
      BY <1>2, ToldOnly
    <2> QED
      BY <1>1, <2>1, <2>2, RowKept DEF FollowInv
  <1>4. ASSUME NEW g \in Gens PROVE StageInv(g)'
    <2>1. StageInv(g)
      BY DEF FollowInv
    <2> QED
      BY <1>1, <2>1 DEF StageInv, Streamed
  <1>5. ASSUME NEW g \in Gens, NEW t \in Tasks PROVE Accounted(g, t)
    <2>1. (Queued(g, t) => Queued(g, t)') /\ (Pending(g, t) => Pending(g, t)')
      BY <1>1 DEF Queued, Pending, Streamed
    <2> QED
      BY <1>2, <2>1 DEF Accounted, Holds
  <1> QED
    BY <1>3, <1>4, <1>5 DEF FollowInv, AllAccounted

LEMMA CommandFollows ==
    ASSUME DaemonInv, FollowInv, NEW c \in Callers, Command(c)
    PROVE  FollowInv' /\ AllAccounted
  <1>1. /\ TypeOK /\ outq \in [Gens -> Seq(Messages)] /\ client \in [Gens -> ClientStates]
        /\ starts \in 0 .. MaxStarts
    BY DEF DaemonInv, TypeOK
  <1>2. UNCHANGED <<taskVars, delivered, lost>>
    BY DEF Command, CommandProgress, StopSteps, ConnectBegin, DisconnectBegin, RoleBegin, StartRefused,
           Start, EndpointReturns, StopSkipped, StopBegin, AbortClient, AbortLoops, RoleWritten, cloudVars
  <1>3. CASE Start(c)
    <2> DEFINE n == starts + 1
    <2>1. /\ client' = [client EXCEPT ![n] = "spawned"] /\ outq' = [outq EXCEPT ![n] = <<StatusMsg>>]
          /\ starts < MaxStarts
      BY <1>3 DEF Start
    <2>2. n \in Gens /\ n > starts
      BY <1>1, <2>1, ConstAssumption DEF Gens
    <2>3. client[n] = "none"
      BY <2>2 DEF DaemonInv, FreshInv
    <2> HIDE DEF n
    <2>4. ASSUME NEW g \in Gens
          PROVE  \/ client'[g] = client[g] /\ outq'[g] = outq[g]
                 \/ client[g] = "none" /\ client'[g] = "spawned" /\ outq'[g] = <<StatusMsg>>
      BY <1>1, <2>1, <2>2, <2>3
    <2> QED
      BY <1>1, <1>2, <2>4, QuietFollows
  <1>4. CASE StopBegin(c)
    <2>1. /\ client' = client
          /\ outq' = outq \/ (outgoing \in Gens /\ Enqueue(outgoing, OfflineMsg))
      BY <1>1, <1>4 DEF StopBegin, TypeOK
    <2>2. ASSUME NEW g \in Gens
          PROVE  \/ outq'[g] = outq[g]
                 \/ client[g] # "none" /\ outq'[g] = Append(outq[g], OfflineMsg)
      BY <1>1, <2>1 DEF Enqueue, Live, LiveStates
    <2> QED
      BY <1>1, <1>2, <2>1, <2>2, QuietFollows
  <1>5. CASE AbortClient(c)
    <2>1. \/ client' = client /\ outq' = outq
          \/ /\ client' = [client EXCEPT ![handle] = "aborted"]
             /\ outq' = [outq EXCEPT ![handle] = <<>>]
      BY <1>5 DEF AbortClient
    <2>2. ASSUME NEW g \in Gens
          PROVE  \/ client'[g] = client[g] /\ outq'[g] = outq[g]
                 \/ client'[g] = "aborted" /\ outq'[g] = <<>>
      BY <1>1, <2>1
    <2> QED
      BY <1>1, <1>2, <2>2, QuietFollows
  <1>6. CASE ~Start(c) /\ ~StopBegin(c) /\ ~AbortClient(c)
    <2>1. outq' = outq /\ client' = client
      BY <1>6 DEF Command, CommandProgress, StopSteps, ConnectBegin, DisconnectBegin, RoleBegin,
             StartRefused, EndpointReturns, StopSkipped, AbortLoops, RoleWritten
    <2> QED
      BY <1>1, <1>2, <2>1, QuietFollows
  <1> QED
    BY <1>3, <1>4, <1>5, <1>6

LEMMA RefresherFollows ==
    ASSUME DaemonInv, FollowInv, NEW h \in Gens, Refresher(h)
    PROVE  FollowInv' /\ AllAccounted
  <1>1. TypeOK /\ outq \in [Gens -> Seq(Messages)]
    BY DEF DaemonInv, TypeOK
  <1>2. /\ UNCHANGED <<taskVars, delivered, lost, client>>
        /\ outq' = outq \/ Enqueue(h, StatusMsg)
    BY DEF Refresher, RefreshWakes, RefreshSends, RefreshSkips, cloudVars
  <1>3. ASSUME NEW g \in Gens
        PROVE  \/ outq'[g] = outq[g]
               \/ client[g] # "none" /\ outq'[g] = Append(outq[g], StatusMsg)
    BY <1>1, <1>2 DEF Enqueue, Live, LiveStates
  <1> QED
    BY <1>1, <1>2, <1>3, QuietFollows

LEMMA ClientFollows ==
    ASSUME DaemonInv, FollowInv, NEW h \in Gens,
           LoopTop(h) \/ Retry(h) \/ DialSucceeds(h) \/ DialFails(h) \/ ConnectionDies(h)
           \/ SessionLost(h)
    PROVE  FollowInv' /\ AllAccounted
  <1>1. /\ TypeOK /\ outq \in [Gens -> Seq(Messages)] /\ client \in [Gens -> ClientStates]
    BY DEF DaemonInv, TypeOK
  <1>2. /\ UNCHANGED <<taskVars, delivered, lost>>
        /\ outq' = outq \/ outq' = [outq EXCEPT ![h] = outq[h]]
        /\ \E s \in {"dialing", "session", "severed", "backoff", "top"} : client' = [client EXCEPT ![h] = s]
    BY DEF LoopTop, Retry, DialSucceeds, DialFails, ConnectionDies, SessionLost, Resumed, ToBackoff, cloudVars
  <1>3. ASSUME NEW g \in Gens
        PROVE  /\ outq'[g] = outq[g]
               /\ client'[g] = client[g] \/ client'[g] \notin {"none", "spawned", "booted"}
    BY <1>1, <1>2
  <1> QED
    BY <1>1, <1>2, <1>3, QuietFollows

\* A step of the client or of the handler of one generation.
LEMMA OneFollows ==
    ASSUME FollowInv, NEW h \in Gens,
           \A g \in Gens \ {h} : /\ client'[g] = client[g] /\ outq'[g] = outq[g]
                                 /\ taskq'[g] = taskq[g] /\ handler'[g] = handler[g]
                                 /\ cur'[g] = cur[g],
           logged \subseteq logged', StageInv(h)',
           \A t \in Tasks :
            /\ Accounted(h, t)
            /\ RowOwed(h, t) => RowOwed(h, t)' \/ t \in logged'
            /\ delivered'[t] > 0 \/ t \in lost' \/ Answered(h, t)'
                => Told(t) \/ t \in logged' \/ RowOwed(h, t)'
    PROVE  FollowInv' /\ AllAccounted
  <1>1. ASSUME NEW g \in Gens, g # h, NEW t \in Tasks
        PROVE  /\ Answered(g, t)' <=> Answered(g, t)
               /\ Queued(g, t)' <=> Queued(g, t)
               /\ Pending(g, t)' <=> Pending(g, t)
               /\ RowOwed(g, t)' <=> RowOwed(g, t)
    BY <1>1 DEF Answered, ResultMsg, Queued, Pending, RowOwed, Streamed
  <1>2. RowFollowsAnswer'
    <2>1. ASSUME NEW t \in Tasks, Told(t)'
          PROVE  Told(t) \/ t \in logged' \/ \E g \in Gens : RowOwed(g, t)'
      <3>1. CASE delivered'[t] > 0 \/ t \in lost' \/ Answered(h, t)'
        BY <3>1
      <3>2. CASE \E g \in Gens : g # h /\ Answered(g, t)'
        BY <1>1, <3>2 DEF Told
      <3> QED
        BY <2>1, <3>1, <3>2 DEF Told
    <2>2. \A t \in Tasks, g \in Gens : RowOwed(g, t) => RowOwed(g, t)' \/ t \in logged'
      BY <1>1
    <2> QED
      BY <2>1, <2>2, RowKept DEF FollowInv
  <1>3. ASSUME NEW g \in Gens PROVE StageInv(g)'
    <2>1. CASE g = h
      BY <2>1
    <2>2. CASE g # h
      <3>1. StageInv(g)
        BY DEF FollowInv
      <3> QED
        BY <2>2, <3>1 DEF StageInv, Streamed
    <2> QED
      BY <2>1, <2>2
  <1>4. ASSUME NEW g \in Gens, NEW t \in Tasks PROVE Accounted(g, t)
    <2>1. CASE g = h
      BY <2>1
    <2>2. CASE g # h
      BY <1>1, <2>2 DEF Accounted, Holds
    <2> QED
      BY <2>1, <2>2
  <1> QED
    BY <1>2, <1>3, <1>4 DEF FollowInv, AllAccounted

\* The first poll of the outer task, and its end when no request can be built.
LEMMA BootFollows ==
    ASSUME DaemonInv, FollowInv, NEW h \in Gens, Boot(h)
    PROVE  FollowInv' /\ AllAccounted
  <1>1. /\ client \in [Gens -> ClientStates] /\ handler \in [Gens -> HandlerStates] /\ StageInv(h)
    BY DEF DaemonInv, TypeOK, FollowInv
  <1>2. /\ client[h] = "spawned" /\ client' = [client EXCEPT ![h] = "booted"]
        /\ handler' = [handler EXCEPT ![h] = "idle"]
        /\ UNCHANGED <<outq, taskq, cur, logged, delivered, lost>>
    BY DEF Boot, cloudVars
  <1>3. client'[h] = "booted" /\ handler'[h] = "idle" /\ handler[h] = "none" /\ taskq'[h] = <<>>
    BY <1>1, <1>2 DEF StageInv
  <1>4. StageInv(h)'
    BY <1>3 DEF StageInv
  <1>5. ASSUME NEW t \in Tasks
        PROVE  /\ Accounted(h, t)
               /\ RowOwed(h, t) => RowOwed(h, t)'
               /\ delivered'[t] > 0 \/ t \in lost' \/ Answered(h, t)' => Told(t)
    <2>1. /\ Answered(h, t)' <=> Answered(h, t)
          /\ Queued(h, t)' <=> Queued(h, t)
          /\ ~Pending(h, t) /\ ~RowOwed(h, t)
      BY <1>2, <1>3 DEF Answered, ResultMsg, Queued, Pending, RowOwed
    <2> QED
      BY <1>2, <2>1 DEF Accounted, Holds, Told
  <1>6. \A g \in Gens \ {h} : client'[g] = client[g] /\ handler'[g] = handler[g]
    BY <1>1, <1>2
  <1> QED
    BY <1>2, <1>4, <1>5, <1>6, OneFollows

LEMMA ExitFollows ==
    ASSUME DaemonInv, FollowInv, NEW h \in Gens, ClientExit(h)
    PROVE  FollowInv' /\ AllAccounted
  <1>1. /\ client \in [Gens -> ClientStates] /\ handler \in [Gens -> HandlerStates] /\ StageInv(h)
        /\ outq \in [Gens -> Seq(Messages)] /\ taskq \in [Gens -> Seq(Tasks)]
        /\ cur \in [Gens -> Tasks \union {NoTask}]
    BY DEF DaemonInv, TypeOK, FollowInv
  <1>2. /\ client[h] = "booted" /\ client' = [client EXCEPT ![h] = "exited"]
        /\ handler' = [handler EXCEPT ![h] = "ended"] /\ cur' = [cur EXCEPT ![h] = NoTask]
        /\ outq' = [outq EXCEPT ![h] = <<>>] /\ taskq' = [taskq EXCEPT ![h] = <<>>]
        /\ UNCHANGED <<logged, delivered, lost>>
    BY DEF ClientExit, cloudVars
  <1>3. /\ client'[h] = "exited" /\ handler'[h] = "ended" /\ handler[h] = "idle"
        /\ taskq'[h] = <<>> /\ outq'[h] = <<>>
    BY <1>1, <1>2 DEF StageInv
  <1>4. StageInv(h)'
    BY <1>3 DEF StageInv
  <1>5. ASSUME NEW t \in Tasks
        PROVE  /\ Accounted(h, t)
               /\ RowOwed(h, t) => RowOwed(h, t)'
               /\ delivered'[t] > 0 \/ t \in lost' \/ Answered(h, t)' => Told(t)
    <2>1. ~Answered(h, t)'
      <3>1. Answered(h, t)' <=> Has(outq'[h], ResultMsg(t))
        BY DEF Answered, ResultMsg
      <3> QED
        BY <1>3, <3>1, NoAnswers
    <2>2. ~RowOwed(h, t)
      BY <1>3 DEF RowOwed
    <2>3. ~Live(h)'
      BY <1>3 DEF Live, LiveStates
    <2> QED
      BY <1>2, <2>1, <2>2, <2>3 DEF Accounted, Told
  <1>6. \A g \in Gens \ {h} : client'[g] = client[g] /\ handler'[g] = handler[g] /\ cur'[g] = cur[g]
    BY <1>1, <1>2
  <1>7. \A g \in Gens \ {h} : outq'[g] = outq[g] /\ taskq'[g] = taskq[g]
    BY <1>1, <1>2
  <1> QED
    BY <1>2, <1>4, <1>5, <1>6, <1>7, OneFollows

\* What is in a queue is its head or stays when the head is taken.
LEMMA HeadOrTail ==
    ASSUME NEW S, NEW s \in Seq(S), s # <<>>, NEW x, Has(s, x)
    PROVE  Head(s) = x \/ Has(Tail(s), x)
  <1>1. /\ Len(s) \in Nat /\ Len(Tail(s)) = Len(s) - 1 /\ Head(s) = s[1]
        /\ \A i \in 1 .. Len(s) - 1 : Tail(s)[i] = s[i + 1]
    OBVIOUS
  <1>2. PICK i \in 1 .. Len(s) : s[i] = x
    BY DEF Has
  <1>3. CASE i = 1
    BY <1>1, <1>2, <1>3
  <1>4. CASE i # 1
    <2>1. i - 1 \in 1 .. Len(s) - 1 /\ (i - 1) + 1 = i
      BY <1>1, <1>4
    <2>2. Tail(s)[i - 1] = x
      BY <1>1, <1>2, <2>1
    <2> QED
      BY <1>1, <2>1, <2>2 DEF Has
  <1> QED
    BY <1>3, <1>4

\* A message leaves the queue: the answer of a task has reached the cloud or is lost.
LEMMA WriteFollows ==
    ASSUME DaemonInv, FollowInv, NEW h \in Gens, Write(h) \/ WriteFails(h)
    PROVE  FollowInv' /\ AllAccounted
  <1> DEFINE m == Head(outq[h])
  <1>1. /\ client \in [Gens -> ClientStates] /\ outq \in [Gens -> Seq(Messages)] /\ StageInv(h)
        /\ delivered \in [Tasks -> Nat]
    BY DEF DaemonInv, TypeOK, FollowInv
  <1>2. /\ outq[h] # <<>> /\ outq' = [outq EXCEPT ![h] = Tail(outq[h])]
        /\ UNCHANGED taskVars
        /\ client[h] \in {"session", "severed"}
        /\ client' = client \/ client' = [client EXCEPT ![h] = "backoff"]
    BY DEF Write, WriteFails, Unsent, ToBackoff, Connected
  <1>3. \/ Received(m) /\ lost' = lost
        \/ /\ lost' = lost \union ({m.task} \ {NoTask})
           /\ Received(m) \/ delivered' = delivered
    BY DEF Write, WriteFails, Loses
  <1>4. outq[h] \in Seq(Messages) /\ m \in Messages
    BY <1>1, <1>2, TailType
  <1>5. /\ UNCHANGED <<taskq, handler, cur, logged>>
        /\ client'[h] \in {"session", "severed", "backoff"} /\ outq'[h] = Tail(outq[h])
    BY <1>1, <1>2 DEF taskVars
  <1> HIDE DEF m
  <1>6. StageInv(h)'
    BY <1>1, <1>2, <1>5 DEF StageInv, Streamed
  <1>7. ASSUME NEW t \in Tasks
        PROVE  /\ m = ResultMsg(t) => delivered'[t] > 0 \/ t \in lost'
               /\ delivered'[t] > 0 => delivered[t] > 0 \/ m = ResultMsg(t)
               /\ t \in lost' => t \in lost \/ m = ResultMsg(t)
    <2>1. m = ResultMsg(t) <=> m.type = "result" /\ m.task = t
      BY <1>4, ResultIs
    <2>2. m.task = t => m.type = "result"
      BY <1>4, AbsentAssumption DEF Messages
    <2>3. t # NoTask
      BY AbsentAssumption
    <2>4. m.type = "result" => m.task \in Tasks
      BY <1>4 DEF Messages
    <2>5. Received(m) => /\ m = ResultMsg(t) => delivered'[t] > 0
                         /\ m # ResultMsg(t) => delivered'[t] = delivered[t]
      <3>1. CASE m = ResultMsg(t)
        BY <1>1, <2>1, <3>1 DEF Received
      <3>2. CASE m # ResultMsg(t)
        BY <1>1, <2>1, <2>4, <3>2 DEF Received
      <3> QED
        BY <3>1, <3>2
    <2>6. m = ResultMsg(t) => m.task = t
      BY <2>1
    <2> QED
      BY <1>3, <2>1, <2>2, <2>3, <2>5, <2>6
  <1>8. ASSUME NEW t \in Tasks
        PROVE  /\ Accounted(h, t)
               /\ RowOwed(h, t) => RowOwed(h, t)'
               /\ delivered'[t] > 0 \/ t \in lost' \/ Answered(h, t)' => Told(t)
    <2>1. /\ Answered(h, t) <=> Has(outq[h], ResultMsg(t))
          /\ Answered(h, t)' <=> Has(Tail(outq[h]), ResultMsg(t))
      BY <1>5 DEF Answered, ResultMsg
    <2>2. /\ Has(outq[h], ResultMsg(t)) => m = ResultMsg(t) \/ Has(Tail(outq[h]), ResultMsg(t))
          /\ Has(Tail(outq[h]), ResultMsg(t)) => Has(outq[h], ResultMsg(t))
          /\ m = ResultMsg(t) => Has(outq[h], ResultMsg(t))
      BY <1>2, <1>4, HeadOrTail, TailHas DEF m
    <2>3. /\ Queued(h, t)' <=> Queued(h, t)
          /\ Pending(h, t)' <=> Pending(h, t)
          /\ RowOwed(h, t)' <=> RowOwed(h, t)
      BY <1>5 DEF Queued, Pending, RowOwed, Streamed
    <2>4. Accounted(h, t)
      BY <1>2, <1>7, <2>1, <2>2, <2>3 DEF Accounted, Holds, Connected
    <2>5. delivered'[t] > 0 \/ t \in lost' \/ Answered(h, t)' => Told(t)
      BY <1>7, <2>1, <2>2 DEF Told
    <2> QED
      BY <2>3, <2>4, <2>5
  <1>9. \A g \in Gens \ {h} : client'[g] = client[g] /\ outq'[g] = outq[g]
    BY <1>1, <1>2
  <1> QED
    BY <1>5, <1>6, <1>8, <1>9, OneFollows

LEMMA ReceiveFollows ==
    ASSUME DaemonInv, FollowInv, NEW h \in Gens, NEW u \in Tasks, ReceiveTask(h, u)
    PROVE  FollowInv' /\ AllAccounted
  <1>1. taskq \in [Gens -> Seq(Tasks)] /\ StageInv(h)
    BY DEF DaemonInv, TypeOK, FollowInv
  <1>2. /\ client[h] = "session"
        /\ taskq' = taskq \/ taskq' = [taskq EXCEPT ![h] = Append(taskq[h], u)]
        /\ UNCHANGED <<client, outq, handler, cur, logged, delivered, lost>>
    BY DEF ReceiveTask
  <1>3. StageInv(h)'
    BY <1>1, <1>2 DEF StageInv, Streamed
  <1>4. ASSUME NEW t \in Tasks
        PROVE  /\ Accounted(h, t)
               /\ RowOwed(h, t) => RowOwed(h, t)'
               /\ delivered'[t] > 0 \/ t \in lost' \/ Answered(h, t)' => Told(t)
    <2>1. Queued(h, t) => Queued(h, t)'
      <3>1. taskq'[h] \in {taskq[h], Append(taskq[h], u)} /\ taskq[h] \in Seq(Tasks)
        BY <1>1, <1>2
      <3>2. Has(Append(taskq[h], u), t) <=> Has(taskq[h], t) \/ u = t
        BY <3>1, AppendHas
      <3> QED
        BY <3>1, <3>2 DEF Queued
    <2>2. /\ Answered(h, t)' <=> Answered(h, t)
          /\ Pending(h, t)' <=> Pending(h, t)
          /\ RowOwed(h, t)' <=> RowOwed(h, t)
      BY <1>2 DEF Answered, ResultMsg, Pending, RowOwed, Streamed
    <2> QED
      BY <1>2, <2>1, <2>2 DEF Accounted, Holds, Told
  <1>5. \A g \in Gens \ {h} : taskq'[g] = taskq[g]
    BY <1>1, <1>2
  <1> QED
    BY <1>2, <1>3, <1>4, <1>5, OneFollows

\* An answer that is queued is in the queue, unless the client is gone.
LEMMA EnqueueTells ==
    ASSUME outq \in [Gens -> Seq(Messages)], NEW g \in Gens, NEW u \in Tasks,
           Enqueue(g, ResultMsg(u)), NEW t \in Tasks
    PROVE  /\ Answered(g, t) => Answered(g, t)'
           /\ Answered(g, u)' \/ ~Live(g)
           /\ Answered(g, t)' => Answered(g, t) \/ t = u
           /\ \A f \in Gens \ {g} : outq'[f] = outq[f]
  <1>1. ResultMsg(u) \in Messages /\ (ResultMsg(u) = ResultMsg(t) <=> u = t)
    BY MessageTypes DEF ResultMsg
  <1>2. outq[g] \in Seq(Messages)
    OBVIOUS
  <1>3. outq'[g] = IF Live(g) THEN Append(outq[g], ResultMsg(u)) ELSE outq[g]
    BY DEF Enqueue
  <1>4. /\ Answered(g, t)' <=> Has(outq'[g], ResultMsg(t))
        /\ Answered(g, u)' <=> Has(outq'[g], ResultMsg(u))
    BY DEF Answered, ResultMsg
  <1>5. /\ Has(Append(outq[g], ResultMsg(u)), ResultMsg(t))
             <=> Has(outq[g], ResultMsg(t)) \/ ResultMsg(u) = ResultMsg(t)
        /\ Has(Append(outq[g], ResultMsg(u)), ResultMsg(u))
    BY <1>1, <1>2, QueueGrows
  <1>6. \A f \in Gens \ {g} : outq'[f] = outq[f]
    BY DEF Enqueue
  <1> QED
    BY <1>1, <1>3, <1>4, <1>5, <1>6 DEF Answered

\* A handler that steps belongs to a client that has begun to work.
LEMMA HandlerBegun ==
    ASSUME FollowInv, NEW h \in Gens, Handler(h)
    PROVE  client[h] \notin {"none", "spawned", "booted"}
  <1>1. StageInv(h)
    BY DEF FollowInv
  <1>2. \/ handler[h] = "idle" /\ (taskq[h] # <<>> \/ ~Live(h))
        \/ handler[h] \in {"executing", "sent", "rejected", "cooling"}
    BY DEF Handler, HandlerStep, Reject, Execute, Executed, LogSent, Cooled, HandlerPanics, HandlerEnds
  <1> QED
    BY <1>1, <1>2 DEF StageInv, Live, LiveStates

LEMMA HandlerFollows ==
    ASSUME DaemonInv, FollowInv, NEW h \in Gens, Handler(h)
    PROVE  FollowInv' /\ AllAccounted
  <1>1. /\ taskq \in [Gens -> Seq(Tasks)] /\ handler \in [Gens -> HandlerStates]
        /\ cur \in [Gens -> Tasks \union {NoTask}] /\ outq \in [Gens -> Seq(Messages)]
        /\ handler[h] \in {"executing", "sent", "rejected", "cooling"} => cur[h] \in Tasks
        /\ StageInv(h)
    BY DEF DaemonInv, TypeOK, FollowInv
  <1>2. client[h] \notin {"none", "spawned", "booted"}
    BY HandlerBegun
  <1>3. UNCHANGED <<client, delivered, lost>>
    BY DEF Handler, HandlerStep, Reject, Execute, Executed, LogSent, Cooled, HandlerPanics, HandlerEnds, cloudVars
  <1>4. \A t \in Tasks : delivered'[t] > 0 \/ t \in lost' => Told(t)
    BY <1>3 DEF Told
  <1>5. Live(h)' <=> Live(h)
    BY <1>3 DEF Live
  <1>6. CASE Reject(h)
    <2>1. taskq[h] # <<>>
      BY <1>6 DEF Reject
    <2>2. PICK u \in Tasks : u = Head(taskq[h])
      BY <1>1, <2>1, TailType
    <2>3. /\ handler[h] = "idle" /\ taskq[h] # <<>>
          /\ taskq' = [taskq EXCEPT ![h] = Tail(taskq[h])]
          /\ Enqueue(h, ResultMsg(u))
          /\ \/ /\ Streamed(u) /\ logged' = logged
                /\ handler' = [handler EXCEPT ![h] = "rejected"]
                /\ cur' = [cur EXCEPT ![h] = u]
             \/ logged' = logged \union {u} /\ handler' = handler /\ cur' = cur
      BY <1>1, <1>6, <2>2 DEF Reject, Log
    <2>4. ASSUME NEW t \in Tasks PROVE Queued(h, t) => Queued(h, t)' \/ t = u
      <3>1. taskq[h] \in Seq(Tasks) /\ taskq'[h] = Tail(taskq[h])
        BY <1>1, <2>3
      <3>2. Has(taskq[h], t) => Head(taskq[h]) = t \/ Has(Tail(taskq[h]), t)
        BY <2>2, <2>3, <3>1, HeadOrTail
      <3> QED
        BY <2>2, <3>1, <3>2 DEF Queued
    <2>5. \A g \in Gens \ {h} : taskq'[g] = taskq[g] /\ handler'[g] = handler[g] /\ cur'[g] = cur[g]
      BY <1>1, <2>3
    <2>6. \/ Streamed(u) /\ handler'[h] = "rejected" /\ cur'[h] = u
          \/ u \in logged' /\ handler'[h] = "idle"
      BY <1>1, <2>3
    <2>7. logged \subseteq logged'
      BY <2>3
    <2>8. StageInv(h)'
      BY <1>2, <1>3, <2>6 DEF StageInv, Streamed
    <2>9. ASSUME NEW t \in Tasks
          PROVE  /\ Answered(h, t) => Answered(h, t)'
                 /\ Answered(h, u)' \/ ~Live(h)
                 /\ Answered(h, t)' => Answered(h, t) \/ t = u
                 /\ \A g \in Gens \ {h} : outq'[g] = outq[g]
      BY <1>1, <2>3, EnqueueTells
    <2>10. ASSUME NEW t \in Tasks
          PROVE  /\ Accounted(h, t)
                 /\ RowOwed(h, t) => RowOwed(h, t)'
                 /\ delivered'[t] > 0 \/ t \in lost' \/ Answered(h, t)'
                     => Told(t) \/ t \in logged' \/ RowOwed(h, t)'
      <3>1. ~Pending(h, t) /\ ~RowOwed(h, t)
        BY <2>3 DEF Pending, RowOwed
      <3>2. t = u => t \in logged' \/ RowOwed(h, t)'
        BY <2>6 DEF RowOwed, Streamed
      <3>3. Accounted(h, t)
        BY <1>5, <2>4, <2>9, <3>1 DEF Accounted, Holds
      <3>4. Answered(h, t)' => Told(t) \/ t = u
        BY <2>9 DEF Told
      <3> QED
        BY <1>4, <3>1, <3>2, <3>3, <3>4
    <2> QED
      BY <1>3, <2>5, <2>7, <2>8, <2>9, <2>10, OneFollows
  <1>7. CASE Execute(h)
    <2>1. taskq[h] # <<>>
      BY <1>7 DEF Execute
    <2>2. PICK u \in Tasks : u = Head(taskq[h])
      BY <1>1, <2>1, TailType
    <2>3. /\ handler[h] = "idle" /\ taskq[h] # <<>>
          /\ taskq' = [taskq EXCEPT ![h] = Tail(taskq[h])]
          /\ handler' = [handler EXCEPT ![h] = "executing"] /\ cur' = [cur EXCEPT ![h] = u]
          /\ UNCHANGED <<outq, logged>>
      BY <1>1, <1>7, <2>2 DEF Execute
    <2>4. ASSUME NEW t \in Tasks PROVE Queued(h, t) => Queued(h, t)' \/ t = u
      <3>1. taskq[h] \in Seq(Tasks) /\ taskq'[h] = Tail(taskq[h])
        BY <1>1, <2>3
      <3>2. Has(taskq[h], t) => Head(taskq[h]) = t \/ Has(Tail(taskq[h]), t)
        BY <2>2, <2>3, <3>1, HeadOrTail
      <3> QED
        BY <2>2, <3>1, <3>2 DEF Queued
    <2>5. \A g \in Gens \ {h} : taskq'[g] = taskq[g] /\ handler'[g] = handler[g] /\ cur'[g] = cur[g]
      BY <1>1, <2>3
    <2>6. handler'[h] = "executing" /\ cur'[h] = u
      BY <1>1, <2>3
    <2>7. StageInv(h)'
      BY <1>2, <1>3, <2>6 DEF StageInv
    <2>8. ASSUME NEW t \in Tasks
          PROVE  /\ Accounted(h, t)
                 /\ RowOwed(h, t) => RowOwed(h, t)'
                 /\ delivered'[t] > 0 \/ t \in lost' \/ Answered(h, t)' => Told(t)
      <3>1. ~Pending(h, t) /\ ~RowOwed(h, t)
        BY <2>3 DEF Pending, RowOwed
      <3>2. (t = u => Pending(h, t)') /\ (Answered(h, t)' <=> Answered(h, t))
        BY <2>3, <2>6 DEF Pending, Answered, ResultMsg
      <3>3. Accounted(h, t)
        BY <2>4, <3>1, <3>2 DEF Accounted, Holds
      <3> QED
        BY <1>4, <3>1, <3>2, <3>3 DEF Told
    <2> QED
      BY <1>3, <2>3, <2>5, <2>7, <2>8, OneFollows
  <1>8. CASE Executed(h)
    <2>1. handler[h] = "executing"
      BY <1>8 DEF Executed
    <2>2. PICK u \in Tasks : u = cur[h]
      BY <1>1, <2>1
    <2>3. /\ handler[h] = "executing" /\ UNCHANGED <<taskq, cur>>
          /\ \/ /\ Streamed(u) /\ Enqueue(h, ResultMsg(u)) /\ logged' = logged
                /\ handler' = [handler EXCEPT ![h] = "sent"]
             \/ /\ ~Streamed(u) /\ outq' = outq /\ logged' = logged \union {u}
                /\ handler' = [handler EXCEPT ![h] = "cooling"]
      BY <1>1, <1>8, <2>2 DEF Executed, Log
    <2>4. \A g \in Gens \ {h} : handler'[g] = handler[g]
      BY <1>1, <2>3
    <2>5. \/ Streamed(u) /\ handler'[h] = "sent"
          \/ ~Streamed(u) /\ handler'[h] = "cooling" /\ u \in logged'
      BY <1>1, <2>3
    <2>6. logged \subseteq logged'
      BY <2>3
    <2>7. StageInv(h)'
      BY <1>2, <1>3, <2>2, <2>3, <2>5 DEF StageInv, Streamed
    <2>8. ASSUME NEW t \in Tasks
          PROVE  /\ Answered(h, t) => Answered(h, t)'
                 /\ Streamed(u) => Answered(h, u)' \/ ~Live(h)
                 /\ Answered(h, t)' => Answered(h, t) \/ (t = u /\ Streamed(t))
                 /\ \A g \in Gens \ {h} : outq'[g] = outq[g]
      <3>1. CASE Streamed(u) /\ Enqueue(h, ResultMsg(u))
        BY <1>1, <2>3, <3>1, EnqueueTells
      <3>2. CASE ~Streamed(u) /\ outq' = outq
        BY <3>2 DEF Answered, ResultMsg
      <3> QED
        BY <2>3, <3>1, <3>2
    <2>9. ASSUME NEW t \in Tasks
          PROVE  /\ Accounted(h, t)
                 /\ RowOwed(h, t) => RowOwed(h, t)'
                 /\ delivered'[t] > 0 \/ t \in lost' \/ Answered(h, t)'
                     => Told(t) \/ t \in logged' \/ RowOwed(h, t)'
      <3>1. /\ Pending(h, t) <=> t = u
            /\ ~RowOwed(h, t)
            /\ Queued(h, t)' <=> Queued(h, t)
            /\ Pending(h, t)' <=> t = u /\ ~Streamed(t)
            /\ RowOwed(h, t)' <=> t = u /\ Streamed(t)
        BY <2>2, <2>3, <2>5 DEF Pending, RowOwed, Queued, Streamed
      <3>2. Accounted(h, t)
        BY <1>5, <2>8, <3>1 DEF Accounted, Holds
      <3>3. Answered(h, t)' => Told(t) \/ RowOwed(h, t)'
        BY <2>8, <3>1 DEF Told
      <3> QED
        BY <1>4, <3>1, <3>2, <3>3
    <2> QED
      BY <1>3, <2>3, <2>4, <2>6, <2>7, <2>8, <2>9, OneFollows
  <1>9. CASE LogSent(h)
    <2>1. /\ handler[h] \in {"sent", "rejected"} /\ logged' = logged \union {cur[h]}
          /\ \/ handler' = [handler EXCEPT ![h] = "cooling"] /\ cur' = cur
             \/ handler' = [handler EXCEPT ![h] = "idle"] /\ cur' = [cur EXCEPT ![h] = NoTask]
          /\ UNCHANGED <<taskq, outq>>
      BY <1>9 DEF LogSent, Log
    <2>2. \A g \in Gens \ {h} : handler'[g] = handler[g] /\ cur'[g] = cur[g]
      BY <1>1, <2>1
    <2>3. \/ handler'[h] = "cooling" /\ cur'[h] \in logged'
          \/ handler'[h] = "idle"
      BY <1>1, <2>1
    <2>4. StageInv(h)'
      BY <1>2, <1>3, <2>3 DEF StageInv
    <2>5. ASSUME NEW t \in Tasks
          PROVE  /\ Accounted(h, t)
                 /\ RowOwed(h, t) => t \in logged'
                 /\ delivered'[t] > 0 \/ t \in lost' \/ Answered(h, t)' => Told(t)
      <3>1. /\ ~Pending(h, t)
            /\ RowOwed(h, t) => t \in logged'
            /\ Queued(h, t)' <=> Queued(h, t)
            /\ Answered(h, t)' <=> Answered(h, t)
        BY <2>1 DEF Pending, RowOwed, Queued, Answered, ResultMsg
      <3> QED
        BY <1>4, <3>1 DEF Accounted, Holds, Told
    <2> QED
      BY <1>3, <2>1, <2>2, <2>4, <2>5, OneFollows
  <1>10. CASE Cooled(h)
    <2>1. handler[h] = "cooling"
      BY <1>10 DEF Cooled
    <2>2. PICK u \in Tasks : u = cur[h]
      BY <1>1, <2>1
    <2>3. /\ handler[h] = "cooling" /\ u \in logged
          /\ handler' = [handler EXCEPT ![h] = "idle"] /\ cur' = [cur EXCEPT ![h] = NoTask]
          /\ \/ Streamed(u) /\ outq' = outq
             \/ ~Streamed(u) /\ Enqueue(h, ResultMsg(u))
          /\ UNCHANGED <<taskq, logged>>
      BY <1>1, <1>10, <2>2 DEF Cooled, StageInv
    <2>4. \A g \in Gens \ {h} : handler'[g] = handler[g] /\ cur'[g] = cur[g]
      BY <1>1, <2>3
    <2>5. handler'[h] = "idle"
      BY <1>1, <2>3
    <2>6. StageInv(h)'
      BY <1>2, <1>3, <2>5 DEF StageInv
    <2>7. ASSUME NEW t \in Tasks
          PROVE  /\ Answered(h, t) => Answered(h, t)'
                 /\ ~Streamed(u) => Answered(h, u)' \/ ~Live(h)
                 /\ Answered(h, t)' => Answered(h, t) \/ t = u
                 /\ \A g \in Gens \ {h} : outq'[g] = outq[g]
      <3>1. CASE ~Streamed(u) /\ Enqueue(h, ResultMsg(u))
        BY <1>1, <2>3, <3>1, EnqueueTells
      <3>2. CASE Streamed(u) /\ outq' = outq
        BY <3>2 DEF Answered, ResultMsg
      <3> QED
        BY <2>3, <3>1, <3>2
    <2>8. ASSUME NEW t \in Tasks
          PROVE  /\ Accounted(h, t)
                 /\ RowOwed(h, t) => RowOwed(h, t)'
                 /\ delivered'[t] > 0 \/ t \in lost' \/ Answered(h, t)' => Told(t) \/ t \in logged'
      <3>1. /\ Pending(h, t) => t = u /\ ~Streamed(u)
            /\ ~RowOwed(h, t)
            /\ Queued(h, t)' <=> Queued(h, t)
        BY <2>2, <2>3 DEF Pending, RowOwed, Queued
      <3>2. Accounted(h, t)
        BY <1>5, <2>7, <3>1 DEF Accounted, Holds
      <3>3. Answered(h, t)' => Told(t) \/ t \in logged'
        BY <2>3, <2>7 DEF Told
      <3> QED
        BY <1>4, <3>1, <3>2, <3>3
    <2> QED
      BY <1>3, <2>3, <2>4, <2>6, <2>7, <2>8, OneFollows
  <1>11. CASE HandlerEnds(h)
    <2>1. /\ handler[h] = "idle" /\ handler' = [handler EXCEPT ![h] = "ended"]
          /\ UNCHANGED <<taskq, outq, cur, logged>>
      BY <1>11 DEF HandlerEnds
    <2>2. handler'[h] = "ended" /\ \A g \in Gens \ {h} : handler'[g] = handler[g]
      BY <1>1, <2>1
    <2>3. StageInv(h)'
      BY <1>2, <1>3, <2>2 DEF StageInv
    <2>4. ASSUME NEW t \in Tasks
          PROVE  /\ Accounted(h, t)
                 /\ RowOwed(h, t) => RowOwed(h, t)'
                 /\ delivered'[t] > 0 \/ t \in lost' \/ Answered(h, t)' => Told(t)
      <3>1. /\ ~Pending(h, t) /\ ~RowOwed(h, t)
            /\ Queued(h, t)' <=> Queued(h, t)
            /\ Answered(h, t)' <=> Answered(h, t)
        BY <2>1 DEF Pending, RowOwed, Queued, Answered, ResultMsg
      <3> QED
        BY <1>4, <3>1 DEF Accounted, Holds, Told
    <2> QED
      BY <1>3, <2>1, <2>2, <2>3, <2>4, OneFollows
  <1>12. CASE HandlerPanics(h)
    <2>1. /\ handler[h] = "executing" /\ handler' = [handler EXCEPT ![h] = "panicked"]
          /\ cur' = [cur EXCEPT ![h] = NoTask] /\ taskq' = [taskq EXCEPT ![h] = <<>>]
          /\ dropped' = dropped \union {cur[h]} \union TasksIn(taskq[h])
          /\ UNCHANGED <<outq, logged>>
      BY <1>12 DEF HandlerPanics
    <2>2. \A g \in Gens \ {h} : taskq'[g] = taskq[g] /\ handler'[g] = handler[g] /\ cur'[g] = cur[g]
      BY <1>1, <2>1
    <2>3. handler'[h] = "panicked" /\ taskq[h] \in Seq(Tasks)
      BY <1>1, <2>1
    <2>4. StageInv(h)'
      BY <1>2, <1>3, <2>3 DEF StageInv
    <2>5. ASSUME NEW t \in Tasks
          PROVE  /\ Accounted(h, t)
                 /\ RowOwed(h, t) => RowOwed(h, t)'
                 /\ delivered'[t] > 0 \/ t \in lost' \/ Answered(h, t)' => Told(t)
      <3>1. /\ Pending(h, t) => t = cur[h]
            /\ ~RowOwed(h, t)
            /\ Answered(h, t)' <=> Answered(h, t)
        BY <2>1 DEF Pending, RowOwed, Answered, ResultMsg
      <3>2. Queued(h, t) => t \in TasksIn(taskq[h])
        BY <2>3, TasksInAre DEF Queued
      <3>3. Queued(h, t) \/ Pending(h, t) => t \in dropped'
        BY <2>1, <3>1, <3>2
      <3> QED
        BY <1>4, <2>3, <3>1, <3>3 DEF Accounted, Holds, Told
    <2> QED
      BY <1>3, <2>1, <2>2, <2>4, <2>5, OneFollows
  <1> QED
    BY <1>6, <1>7, <1>8, <1>9, <1>10, <1>11, <1>12 DEF Handler, HandlerStep

LEMMA InitFollows == ASSUME Init PROVE FollowInv
  <1>1. ASSUME NEW g \in Gens PROVE StageInv(g)
    BY DEF Init, StageInv
  <1>2. ASSUME NEW t \in Tasks PROVE ~Told(t)
    <2>1. delivered[t] = 0 /\ t \notin lost /\ \A g \in Gens : outq[g] = <<>>
      BY DEF Init
    <2> QED
      BY <2>1, NoAnswers DEF Told, Answered
  <1> QED
    BY <1>1, <1>2 DEF FollowInv, RowFollowsAnswer

LEMMA NextFollows == ASSUME DaemonInv, FollowInv, Next PROVE FollowInv' /\ AllAccounted
  <1>1. ASSUME NEW g \in Gens, Client(g) PROVE FollowInv' /\ AllAccounted
    BY <1>1, ClientFollows, BootFollows, ExitFollows, WriteFollows, ReceiveFollows
       DEF Client, ClientProgress, Dial
  <1> QED
    BY <1>1, CommandFollows, HandlerFollows, RefresherFollows DEF Next

\* What did not change before stays the same after.
LEMMA StillFollows == ASSUME DaemonInv, FollowInv, UNCHANGED vars PROVE FollowInv'
  <1>1. UNCHANGED <<taskVars, delivered, lost>> /\ UNCHANGED <<client, outq>>
    BY DEF vars, cloudVars
  <1> QED
    BY <1>1, QuietFollows DEF DaemonInv

\* Wherever the answer of a task is, queued, delivered or written in vain, the row of
\* the task is in p2p_task_log, or it is a streamed task and its handler is about to write the
\* row: log_and_return comes before the answer in handle_task and right after the terminal
\* frame in handle_task_stream, and no reconnection, stop or start comes in between.
THEOREM RowsFollowAnswers == Spec => []RowFollowsAnswer
  <1>1. DaemonInv /\ FollowInv /\ [Next]_vars => DaemonInv' /\ FollowInv'
    BY NextDaemonInv, NextFollows, StillFollows
  <1>2. Init => DaemonInv /\ FollowInv
    BY InitDaemonInv, InitFollows
  <1>3. FollowInv => RowFollowsAnswer
    BY DEF FollowInv
  <1> QED
    BY <1>1, <1>2, <1>3, PTL DEF Spec

\* A task that the daemon has taken is never forgotten without a trace: it stops waiting, being
\* worked on and being answered only with an answer that the cloud received, with an answer put
\* into a connection that failed or was dead already (sink.send), with a panic of its handler on
\* it or before it (truncate_str), or with the client of its generation gone (aborted by
\* Daemon::stop, or never able to build its request).
THEOREM NothingIsForgotten == Spec => [][AllAccounted]_vars
  <1>1. DaemonInv /\ FollowInv /\ [Next]_vars => DaemonInv' /\ FollowInv' /\ [AllAccounted]_vars
    BY NextDaemonInv, NextFollows, StillFollows
  <1>2. Init => DaemonInv /\ FollowInv
    BY InitDaemonInv, InitFollows
  <1> QED
    BY <1>1, <1>2, PTL DEF Spec
=============================================================================
