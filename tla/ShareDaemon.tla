---------------------------- MODULE ShareDaemon ----------------------------
(***************************************************************************)
(* The supplier daemon: the Tauri commands share_connect, share_disconnect *)
(* and set_role, Daemon::start / Daemon::stop, the reconnecting WebSocket  *)
(* client it spawns, the sequential task handler fed by that client and    *)
(* the periodic model refresh.                                             *)
(*                                                                         *)
(* Every call of Daemon::start creates a fresh client, outgoing queue,     *)
(* task queue, task handler and refresh loop.  They are indexed by a       *)
(* generation g.  Generations interact only through the fields of Daemon   *)
(* (running and the three handles), the daemon mutex and the database.     *)
(***************************************************************************)
EXTENDS Naturals, Sequences, FiniteSets

CONSTANTS
    Tasks,       \* task ids the cloud may dispatch, each at most once
    StreamTasks, \* the tasks dispatched with stream = true
    Blocked,     \* the tasks the content filter rejects
    Callers,     \* concurrent invocations of the Tauri commands
    MaxStarts,   \* bound: successful calls of Daemon::start
    MaxFaults,   \* bound: failed dials, lost sessions and failed writes
    MaxQueue     \* bound: the refresh loop does not grow a longer queue

ASSUME ConstAssumption ==
    /\ StreamTasks \subseteq Tasks
    /\ Blocked \subseteq Tasks
    /\ MaxStarts \in Nat \ {0}
    /\ MaxFaults \in Nat
    /\ MaxQueue \in Nat

Gens == 1 .. MaxStarts

\* Absent values: no caller holds the daemon mutex, no generation, no task.
NoCaller == "no caller"
NoTask == "no task"
NoGen == 0

ASSUME AbsentAssumption == NoCaller \notin Callers /\ NoTask \notin Tasks

VARIABLES
    connState,      \* ShareState.connection_state
    op,             \* the command each invocation runs
    pc,             \* where each invocation stands in its command
    daemonLock,     \* holder of the mutex ShareState.daemon
    running,        \* Daemon.running, shared with the spawned tasks
    handle,         \* Daemon.handle: generation of the outer task, or NoGen
    refreshHandle,  \* Daemon.refresh_handle
    outgoing,       \* Daemon.outgoing_tx
    starts,         \* generations created so far
    client,         \* outer task and its P2PClient::run, per generation
    outq,           \* outgoing channel, per generation
    announced,      \* a NodeStatus was written on the current connection
    taskq,          \* task channel, per generation
    handler,        \* the task handler, per generation
    cur,            \* the task a handler works on
    refresher,      \* the refresh loop, per generation
    dispatched,     \* tasks the cloud has sent
    executed,       \* history: number of times a task reached the executor
    logged,         \* tasks with a row in p2p_task_log
    delivered,      \* history: terminal results the cloud received, per task
    lost,           \* history: results that left the queue and may not have arrived
    dropped,        \* history: tasks a panic of the handler left without an answer
    faults          \* network failures so far

cmdVars == <<op, pc, daemonLock, handle, refreshHandle, outgoing, starts>>
taskVars == <<taskq, handler, cur, executed, logged>>
cloudVars == <<dispatched, delivered, lost, dropped>>
vars == <<connState, running, client, outq, announced, refresher, faults,
          cmdVars, taskVars, cloudVars>>

ConnStates == {"Disconnected", "Connecting", "Connected", "Reconnecting"}
Commands == {"none", "share_connect", "share_disconnect", "set_role"}
CommandSteps == {"idle", "begun", "abort client", "abort loops", "endpoint", "stopped"}
ClientStates == {"none", "spawned", "booted", "top", "dialing", "session", "severed",
                 "backoff", "exited", "aborted"}
HandlerStates == {"none", "idle", "executing", "sent", "rejected", "cooling", "panicked", "ended"}
RefresherStates == {"none", "asleep", "querying", "ended"}

\* OutgoingMessage, without Heartbeat and P2pAnswer.  A faulty variant gives a
\* result the tag of a status.
StatusMsg == [type |-> "status", task |-> NoTask]
OfflineMsg == [type |-> "offline", task |-> NoTask]
ResultMsgMistagged(t) == [type |-> "status", task |-> t]
ResultMsg(t) == [type |-> "result", task |-> t]
Messages ==
    [type : {"status", "offline"}, task : {NoTask}] \union [type : {"result"}, task : Tasks]

----------------------------------------------------------------------------
(* Helpers.                                                                *)

\* The outer task of g still runs: its channels' receiving ends exist.
LiveStates == {"spawned", "booted", "top", "dialing", "session", "severed", "backoff"}
Live(g) == client[g] \in LiveStates

\* run_session is running.  A severed connection is dead, and the node has not
\* noticed: what it writes goes into the socket and nowhere else.
Connected(g) == client[g] \in {"session", "severed"}

\* The tasks in a task channel.
TasksIn(queue) == {queue[i] : i \in DOMAIN queue}

\* A send on outgoing_tx: an error, ignored by every sender, once the client
\* and with it the receiver is gone.
Enqueue(g, msg) ==
    outq' = IF Live(g) THEN [outq EXCEPT ![g] = Append(@, msg)] ELSE outq

\* The event callback stores the state with try_write: the update is lost when
\* a reader holds the lock at that moment.
Report(s) == connState' \in {s, connState}

----------------------------------------------------------------------------
(* Commands.                                                               *)

Starting == {c \in Callers : op[c] = "share_connect" /\ pc[c] = "begun"}

Begin(c, command) ==
    /\ pc[c] = "idle"
    /\ pc' = [pc EXCEPT ![c] = "begun"]
    /\ op' = [op EXCEPT ![c] = command]

Return(c) ==
    /\ pc' = [pc EXCEPT ![c] = "idle"]
    /\ op' = [op EXCEPT ![c] = "none"]

\* share_connect up to the mutex: the state says Connecting before
\* Daemon::start has been asked.
ConnectBegin(c) ==
    /\ starts + Cardinality(Starting) < MaxStarts
    /\ Begin(c, "share_connect")
    /\ connState' = "Connecting"
    /\ UNCHANGED <<running, client, outq, announced, refresher, faults,
                   daemonLock, handle, refreshHandle, outgoing, starts,
                   taskVars, cloudVars>>

\* Daemon::start refuses a daemon that runs; the faulty variant asks whether the
\* displayed connection state instead.
CanStartUnlessConnected == ~running \/ connState # "Connected"
CanStart == ~running

\* Daemon::start under the mutex, refused: the mutex is released, the state
\* still says Connecting.
StartRefused(c) ==
    /\ op[c] = "share_connect"
    /\ pc[c] = "begun"
    /\ daemonLock = NoCaller
    /\ ~CanStart
    /\ Return(c)
    /\ UNCHANGED <<connState, running, client, outq, announced, refresher,
                   faults, daemonLock, handle, refreshHandle, outgoing, starts,
                   taskVars, cloudVars>>

\* Daemon::start under the mutex: new channels with the initial NodeStatus,
\* the outer task and the refresh loop.  The handles are overwritten whatever
\* they held.  share_connect keeps the mutex while it starts the P2P endpoint.
Start(c) ==
    /\ op[c] = "share_connect"
    /\ pc[c] = "begun"
    /\ daemonLock = NoCaller
    /\ CanStart
    /\ starts < MaxStarts
    /\ LET g == starts + 1 IN
        /\ starts' = g
        /\ handle' = g
        /\ refreshHandle' = g
        /\ outgoing' = g
        /\ client' = [client EXCEPT ![g] = "spawned"]
        /\ outq' = [outq EXCEPT ![g] = <<StatusMsg>>]
        /\ refresher' = [refresher EXCEPT ![g] = "asleep"]
    /\ running' = TRUE
    /\ daemonLock' = c
    /\ pc' = [pc EXCEPT ![c] = "endpoint"]
    /\ UNCHANGED <<connState, announced, faults, op, taskVars, cloudVars>>

\* P2PConnectionManager::start or ::shutdown has returned to share_connect or
\* share_disconnect, which releases the mutex.  Nothing here says that it ever
\* returns: module P2PEndpoint looks into it.
EndpointReturns(c) ==
    /\ pc[c] = "endpoint"
    /\ daemonLock' = NoCaller
    /\ Return(c)
    /\ UNCHANGED <<connState, running, client, outq, announced, refresher,
                   faults, handle, refreshHandle, outgoing, starts, taskVars,
                   cloudVars>>

\* share_disconnect writes Disconnected first, then waits for the mutex.
DisconnectBegin(c) ==
    /\ Begin(c, "share_disconnect")
    /\ connState' = "Disconnected"
    /\ UNCHANGED <<running, client, outq, announced, refresher, faults,
                   daemonLock, handle, refreshHandle, outgoing, starts,
                   taskVars, cloudVars>>

\* set_role(consumer | idle) goes straight to the mutex.
RoleBegin(c) ==
    /\ Begin(c, "set_role")
    /\ UNCHANGED <<connState, running, client, outq, announced, refresher,
                   faults, daemonLock, handle, refreshHandle, outgoing, starts,
                   taskVars, cloudVars>>

AsksStop(c) == pc[c] = "begun" /\ op[c] \in {"share_disconnect", "set_role"}

\* Daemon::stop returns: share_disconnect keeps the mutex while it shuts the
\* P2P endpoint down, set_role releases it.
AfterStop(c) ==
    IF op[c] = "share_disconnect"
    THEN pc' = [pc EXCEPT ![c] = "endpoint"] /\ daemonLock' = c
    ELSE pc' = [pc EXCEPT ![c] = "stopped"] /\ daemonLock' = NoCaller

\* Daemon::stop returns at once when the daemon does not run: the handles and
\* outgoing_tx keep what they hold.
StopSkipped(c) ==
    /\ AsksStop(c)
    /\ daemonLock = NoCaller
    /\ ~running
    /\ AfterStop(c)
    /\ UNCHANGED <<connState, running, client, outq, announced, refresher,
                   faults, op, handle, refreshHandle, outgoing, starts,
                   taskVars, cloudVars>>

\* The mutex a stop holds until its join handles are awaited, and a faulty
\* variant that lets it go with the flag.
StopLockReleased(c) == NoCaller
StopLock(c) == c

\* Daemon::stop: the flag falls and an Offline status is queued, then the outer
\* task is aborted and awaited with the mutex held.
StopBegin(c) ==
    /\ AsksStop(c)
    /\ daemonLock = NoCaller
    /\ running
    /\ running' = FALSE
    /\ daemonLock' = StopLock(c)
    /\ IF outgoing = NoGen THEN UNCHANGED outq ELSE Enqueue(outgoing, OfflineMsg)
    /\ pc' = [pc EXCEPT ![c] = "abort client"]
    /\ UNCHANGED <<connState, client, announced, refresher, faults, op, handle,
                   refreshHandle, outgoing, starts, taskVars, cloudVars>>

\* The outer task is dropped at its await point: the client and the receiving
\* end of outgoing go with it.  The JoinHandles of the subtasks are dropped too,
\* which detaches the task handler instead of stopping it.
AbortClient(c) ==
    /\ pc[c] = "abort client"
    /\ IF handle # NoGen /\ Live(handle)
       THEN /\ client' = [client EXCEPT ![handle] = "aborted"]
            /\ outq' = [outq EXCEPT ![handle] = <<>>]
            /\ announced' = [announced EXCEPT ![handle] = FALSE]
       ELSE UNCHANGED <<client, outq, announced>>
    /\ handle' = NoGen
    /\ pc' = [pc EXCEPT ![c] = "abort loops"]
    /\ UNCHANGED <<connState, running, refresher, faults, op, daemonLock,
                   refreshHandle, outgoing, starts, taskVars, cloudVars>>

\* The refresh loop after its abort, and a faulty variant that only drops the
\* handle.
AbortedRefresherDetached == refresher
AbortedRefresher ==
    [g \in Gens |-> IF g = refreshHandle THEN "ended" ELSE refresher[g]]

\* The refresh loop is aborted (the pricing loop in the same way) and
\* outgoing_tx is cleared.
AbortLoops(c) ==
    /\ pc[c] = "abort loops"
    /\ refresher' = AbortedRefresher
    /\ refreshHandle' = NoGen
    /\ outgoing' = NoGen
    /\ AfterStop(c)
    /\ UNCHANGED <<connState, running, client, outq, announced, faults, op,
                   handle, starts, taskVars, cloudVars>>

\* With the mutex released, set_role writes Disconnected.
RoleWritten(c) ==
    /\ pc[c] = "stopped"
    /\ connState' = "Disconnected"
    /\ Return(c)
    /\ UNCHANGED <<running, client, outq, announced, refresher, faults,
                   daemonLock, handle, refreshHandle, outgoing, starts,
                   taskVars, cloudVars>>

----------------------------------------------------------------------------
(* The outer task and the connection loop of P2PClient::run.               *)

\* First poll of the outer task: the subtasks are spawned.
Boot(g) ==
    /\ client[g] = "spawned"
    /\ client' = [client EXCEPT ![g] = "booted"]
    /\ handler' = [handler EXCEPT ![g] = "idle"]
    /\ UNCHANGED <<connState, running, outq, announced, refresher, faults,
                   cmdVars, taskq, cur, executed, logged, cloudVars>>

\* Head of the loop, request built.
LoopTop(g) ==
    /\ client[g] \in {"booted", "top"}
    /\ Report("Connecting")
    /\ client' = [client EXCEPT ![g] = "dialing"]
    /\ UNCHANGED <<running, outq, announced, refresher, faults, cmdVars,
                   taskVars, cloudVars>>

\* The flag after the outer task left run, and a faulty variant that forgets it.
FlagAfterExitForgotten == running
FlagAfterExit == FALSE

\* Head of the loop, build_connect_request fails.  It depends on the
\* configuration alone, which the client copied when it was created, so it
\* fails the first time or never.  run returns the error without reporting
\* Disconnected; the outer task clears the flag and aborts the task handler.
\* The handles of Daemon keep this generation.
ClientExit(g) ==
    /\ client[g] = "booted"
    /\ Report("Connecting")
    /\ client' = [client EXCEPT ![g] = "exited"]
    /\ running' = FlagAfterExit
    /\ outq' = [outq EXCEPT ![g] = <<>>]
    /\ handler' = [handler EXCEPT ![g] = "ended"]
    /\ cur' = [cur EXCEPT ![g] = NoTask]
    /\ taskq' = [taskq EXCEPT ![g] = <<>>]
    /\ UNCHANGED <<announced, refresher, faults, cmdVars, executed, logged,
                   cloudVars>>

\* A new session reads on from the one outgoing queue of the client; a faulty
\* variant opens an empty queue for every session.
ResumedEmpty(g) == <<>>
Resumed(g) == outq[g]

DialSucceeds(g) ==
    /\ client[g] = "dialing"
    /\ Report("Connected")
    /\ client' = [client EXCEPT ![g] = "session"]
    /\ announced' = [announced EXCEPT ![g] = FALSE]
    /\ outq' = [outq EXCEPT ![g] = Resumed(g)]
    /\ UNCHANGED <<running, refresher, faults, cmdVars, taskVars, cloudVars>>

\* One failure of the network more, within the bound.
Fault == faults < MaxFaults /\ faults' = faults + 1

\* A failed dial, or a session that ends: report Reconnecting and sleep.
ToBackoff(g) ==
    /\ IF client[g] = "severed" THEN UNCHANGED faults ELSE Fault
    /\ Report("Reconnecting")
    /\ client' = [client EXCEPT ![g] = "backoff"]
    /\ announced' = [announced EXCEPT ![g] = FALSE]

DialFails(g) ==
    /\ client[g] = "dialing"
    /\ ToBackoff(g)
    /\ UNCHANGED <<running, outq, refresher, cmdVars, taskVars, cloudVars>>

\* The connection dies and neither side hears of it: the heartbeat is written
\* and its pong not waited for.
ConnectionDies(g) ==
    /\ client[g] = "session"
    /\ Fault
    /\ client' = [client EXCEPT ![g] = "severed"]
    /\ UNCHANGED <<connState, running, outq, announced, refresher, cmdVars,
                   taskVars, cloudVars>>

SessionLost(g) ==
    /\ Connected(g)
    /\ ToBackoff(g)
    /\ UNCHANGED <<running, outq, refresher, cmdVars, taskVars, cloudVars>>

\* The back-off sleep of 1, 2, 4 .. seconds ends by itself; a faulty variant
\* looks at the displayed state, whose update may have been lost.
BackoffOverIfShown(g) == client[g] = "backoff" /\ connState = "Reconnecting"
BackoffOver(g) == client[g] = "backoff"

Retry(g) ==
    /\ BackoffOver(g)
    /\ client' = [client EXCEPT ![g] = "top"]
    /\ UNCHANGED <<connState, running, outq, announced, refresher, faults,
                   cmdVars, taskVars, cloudVars>>

\* What arrives at the cloud, and what is gone.
Received(msg) ==
    delivered' = IF msg.type = "result"
                 THEN [delivered EXCEPT ![msg.task] = @ + 1] ELSE delivered
Loses(msg) == lost' = lost \union ({msg.task} \ {NoTask})

\* The session takes the head of the queue and writes it.  sink.send succeeds
\* when the socket has taken the bytes: they arrive, unless the connection has
\* died meanwhile.
Write(g) ==
    /\ Connected(g)
    /\ outq[g] # <<>>
    /\ IF client[g] = "severed"
       THEN Loses(Head(outq[g])) /\ UNCHANGED delivered
       ELSE Received(Head(outq[g])) /\ UNCHANGED lost
    /\ outq' = [outq EXCEPT ![g] = Tail(@)]
    /\ announced' = [announced EXCEPT ![g] = @ \/ Head(outq[g]).type = "status"]
    /\ UNCHANGED <<connState, running, client, refresher, faults, cmdVars,
                   taskVars, dispatched, dropped>>

\* What a failing write leaves in the queue, and a faulty variant that keeps the
\* message for the next session.
UnsentKept(g) == outq[g]
Unsent(g) == Tail(outq[g])

\* The write fails, before or after the bytes reached the cloud.  The message
\* has left the queue and is not put back.
WriteFails(g) ==
    /\ Connected(g)
    /\ outq[g] # <<>>
    /\ \/ client[g] = "session" /\ Received(Head(outq[g]))
       \/ UNCHANGED delivered
    /\ Loses(Head(outq[g]))
    /\ outq' = [outq EXCEPT ![g] = Unsent(g)]
    /\ ToBackoff(g)
    /\ UNCHANGED <<running, refresher, cmdVars, taskVars, dispatched, dropped>>

\* A task frame arrives and is queued for the handler.  A handler that panicked
\* took the receiving end with it: the frame is dropped with a warning.
ReceiveTask(g, t) ==
    /\ client[g] = "session"
    /\ t \notin dispatched
    /\ dispatched' = dispatched \union {t}
    /\ IF handler[g] = "panicked"
       THEN dropped' = dropped \union {t} /\ UNCHANGED taskq
       ELSE taskq' = [taskq EXCEPT ![g] = Append(@, t)] /\ UNCHANGED dropped
    /\ UNCHANGED <<connState, running, client, outq, announced, refresher,
                   faults, cmdVars, handler, cur, executed, logged, delivered,
                   lost>>

----------------------------------------------------------------------------
(* The task handler.                                                       *)

\* log_and_return: the row of p2p_task_log, and a faulty variant that writes it
\* for plain tasks only.
LogPlain(t) == logged' = IF t \in StreamTasks THEN logged ELSE logged \union {t}
Log(t) == logged' = logged \union {t}

Streamed(t) == t \in StreamTasks

\* A rejected task is answered without cooldown.  handle_task logs it and the
\* caller sends the result; handle_task_stream sends first and logs then.
Reject(g) ==
    /\ handler[g] = "idle"
    /\ taskq[g] # <<>>
    /\ Head(taskq[g]) \in Blocked
    /\ taskq' = [taskq EXCEPT ![g] = Tail(@)]
    /\ Enqueue(g, ResultMsg(Head(taskq[g])))
    /\ IF Streamed(Head(taskq[g]))
       THEN /\ handler' = [handler EXCEPT ![g] = "rejected"]
            /\ cur' = [cur EXCEPT ![g] = Head(taskq[g])]
            /\ UNCHANGED logged
       ELSE /\ Log(Head(taskq[g]))
            /\ UNCHANGED <<handler, cur>>
    /\ UNCHANGED <<connState, running, client, announced, refresher, faults,
                   cmdVars, executed, cloudVars>>

Execute(g) ==
    /\ handler[g] = "idle"
    /\ taskq[g] # <<>>
    /\ Head(taskq[g]) \notin Blocked
    /\ handler' = [handler EXCEPT ![g] = "executing"]
    /\ cur' = [cur EXCEPT ![g] = Head(taskq[g])]
    /\ taskq' = [taskq EXCEPT ![g] = Tail(@)]
    /\ executed' = [executed EXCEPT ![Head(taskq[g])] = @ + 1]
    /\ UNCHANGED <<connState, running, client, outq, announced, refresher,
                   faults, cmdVars, logged, cloudVars>>

\* The executor has answered (completed or failed).  A streamed task sends its
\* terminal frame at once and then waits for its event channel to close; a
\* plain one is logged.
Executed(g) ==
    /\ handler[g] = "executing"
    /\ IF Streamed(cur[g])
       THEN /\ Enqueue(g, ResultMsg(cur[g]))
            /\ handler' = [handler EXCEPT ![g] = "sent"]
            /\ UNCHANGED logged
       ELSE /\ Log(cur[g])
            /\ handler' = [handler EXCEPT ![g] = "cooling"]
            /\ UNCHANGED outq
    /\ UNCHANGED <<connState, running, client, announced, refresher, faults,
                   cmdVars, taskq, cur, executed, cloudVars>>

\* The executor panics while it shortens a long error body for its log
\* (truncate_str).  The handler ends with its task and its channel; the client
\* does not notice.
HandlerPanics(g) ==
    /\ handler[g] = "executing"
    /\ handler' = [handler EXCEPT ![g] = "panicked"]
    /\ dropped' = dropped \union {cur[g]} \union TasksIn(taskq[g])
    /\ cur' = [cur EXCEPT ![g] = NoTask]
    /\ taskq' = [taskq EXCEPT ![g] = <<>>]
    /\ UNCHANGED <<connState, running, client, outq, announced, refresher,
                   faults, cmdVars, executed, logged, dispatched, delivered, lost>>

\* A streamed task is logged after its terminal frame was queued.
LogSent(g) ==
    /\ handler[g] \in {"sent", "rejected"}
    /\ Log(cur[g])
    /\ IF handler[g] = "sent"
       THEN handler' = [handler EXCEPT ![g] = "cooling"] /\ UNCHANGED cur
       ELSE /\ handler' = [handler EXCEPT ![g] = "idle"]
            /\ cur' = [cur EXCEPT ![g] = NoTask]
    /\ UNCHANGED <<connState, running, client, outq, announced, refresher,
                   faults, cmdVars, taskq, executed, cloudVars>>

\* After the cooldown a plain task is answered.
Cooled(g) ==
    /\ handler[g] = "cooling"
    /\ handler' = [handler EXCEPT ![g] = "idle"]
    /\ cur' = [cur EXCEPT ![g] = NoTask]
    /\ IF Streamed(cur[g]) THEN UNCHANGED outq ELSE Enqueue(g, ResultMsg(cur[g]))
    /\ UNCHANGED <<connState, running, client, announced, refresher, faults,
                   cmdVars, taskq, executed, logged, cloudVars>>

\* The task channel is empty and its sender went away with the client.
HandlerEnds(g) ==
    /\ handler[g] = "idle"
    /\ taskq[g] = <<>>
    /\ ~Live(g)
    /\ handler' = [handler EXCEPT ![g] = "ended"]
    /\ UNCHANGED <<connState, running, client, outq, announced, refresher,
                   faults, cmdVars, taskq, cur, executed, logged, cloudVars>>

----------------------------------------------------------------------------
(* The refresh loop.                                                       *)

\* The loop goes on while the daemon runs; a faulty variant looks at the
\* displayed state.
RefreshContinuesIfShown == running /\ connState = "Connected"
RefreshContinues == running

\* The sleep is over: leave when the daemon has stopped, else ask cc-switch.
RefreshWakes(g) ==
    /\ refresher[g] = "asleep"
    /\ refresher' = [refresher EXCEPT ![g] = IF RefreshContinues THEN "querying" ELSE "ended"]
    /\ UNCHANGED <<connState, running, client, outq, announced, faults,
                   cmdVars, taskVars, cloudVars>>

\* Models found: a new NodeStatus is queued.
RefreshSends(g) ==
    /\ refresher[g] = "querying"
    /\ Len(outq[g]) < MaxQueue
    /\ refresher' = [refresher EXCEPT ![g] = "asleep"]
    /\ Enqueue(g, StatusMsg)
    /\ UNCHANGED <<connState, running, client, announced, faults, cmdVars,
                   taskVars, cloudVars>>

\* No model available: nothing is sent.
RefreshSkips(g) ==
    /\ refresher[g] = "querying"
    /\ refresher' = [refresher EXCEPT ![g] = "asleep"]
    /\ UNCHANGED <<connState, running, client, outq, announced, faults, cmdVars,
                   taskVars, cloudVars>>

----------------------------------------------------------------------------
Init ==
    /\ connState = "Disconnected"
    /\ op = [c \in Callers |-> "none"]
    /\ pc = [c \in Callers |-> "idle"]
    /\ daemonLock = NoCaller
    /\ running = FALSE
    /\ handle = NoGen
    /\ refreshHandle = NoGen
    /\ outgoing = NoGen
    /\ starts = 0
    /\ client = [g \in Gens |-> "none"]
    /\ outq = [g \in Gens |-> <<>>]
    /\ announced = [g \in Gens |-> FALSE]
    /\ taskq = [g \in Gens |-> <<>>]
    /\ handler = [g \in Gens |-> "none"]
    /\ cur = [g \in Gens |-> NoTask]
    /\ refresher = [g \in Gens |-> "none"]
    /\ dispatched = {}
    /\ executed = [t \in Tasks |-> 0]
    /\ logged = {}
    /\ delivered = [t \in Tasks |-> 0]
    /\ lost = {}
    /\ dropped = {}
    /\ faults = 0

StopSteps(c) ==
    StopSkipped(c) \/ StopBegin(c) \/ AbortClient(c) \/ AbortLoops(c) \/ RoleWritten(c)
CommandProgress(c) ==
    StartRefused(c) \/ Start(c) \/ EndpointReturns(c) \/ StopSteps(c)
Command(c) ==
    ConnectBegin(c) \/ DisconnectBegin(c) \/ RoleBegin(c) \/ CommandProgress(c)

ClientProgress(g) == Boot(g) \/ LoopTop(g) \/ ClientExit(g) \/ Retry(g)
Dial(g) == DialSucceeds(g) \/ DialFails(g)
Client(g) ==
    \/ ClientProgress(g)
    \/ Dial(g)
    \/ ConnectionDies(g)
    \/ SessionLost(g)
    \/ Write(g)
    \/ WriteFails(g)
    \/ \E t \in Tasks : ReceiveTask(g, t)

HandlerStep(g) ==
    Reject(g) \/ Execute(g) \/ Executed(g) \/ HandlerPanics(g) \/ LogSent(g) \/ Cooled(g)
Handler(g) == HandlerStep(g) \/ HandlerEnds(g)
Refresher(g) == RefreshWakes(g) \/ RefreshSends(g) \/ RefreshSkips(g)

Next ==
    \/ \E c \in Callers : Command(c)
    \/ \E g \in Gens : Client(g) \/ Handler(g) \/ Refresher(g)

Spec == Init /\ [][Next]_vars
----------------------------------------------------------------------------
(* Fairness: what the code's scheduling justifies.                         *)

\* Where a command asks for the daemon mutex.
Acquires(c) == StartRefused(c) \/ Start(c) \/ StopSkipped(c) \/ StopBegin(c)
Finishes(c) == AbortClient(c) \/ AbortLoops(c) \/ RoleWritten(c)
Writes(g) == Write(g) \/ WriteFails(g)

\* tokio polls every runnable task, its mutex is first come first served, a
\* write ends, the back-off and the cooldown are finite sleeps and the executor
\* answers within the timeouts of its HTTP client.  The refresh finds models
\* again and again.  Nothing is assumed of the network: a dial or a session may
\* fail MaxFaults times, a dial may never end, and a connection may be dead for
\* ever without the node noticing.
Fairness ==
    /\ \A c \in Callers : SF_vars(Acquires(c)) /\ WF_vars(Finishes(c))
    /\ \A g \in Gens :
        /\ WF_vars(ClientProgress(g))
        /\ WF_vars(Writes(g))
        /\ WF_vars(HandlerStep(g))
        /\ WF_vars(HandlerEnds(g))
        /\ WF_vars(RefreshWakes(g))
        /\ SF_vars(RefreshSends(g))

FairSpec == Spec /\ Fairness
=============================================================================
