---------------------------- MODULE P2PEndpoint ----------------------------
(***************************************************************************)
(* The QUIC endpoint of P2PConnectionManager, the commands that open and   *)
(* close it, and the accept loops that wait on it.                         *)
(*                                                                         *)
(* The endpoint sits in a tokio RwLock<Option<Endpoint>>, which serves     *)
(* requests first come, first served.  Commands hold it for an instant; an *)
(* accept loop keeps its read guard for as long as it waits for an         *)
(* incoming connection.  share_connect and share_disconnect hold the       *)
(* daemon mutex while they ask for it.                                     *)
(***************************************************************************)
EXTENDS Naturals, Sequences, FiniteSets, SequencesExt

CONSTANTS
    Callers,    \* concurrent invocations of the Tauri commands
    Ops,        \* the commands they invoke
    MaxStarts,  \* bound: successful calls of Daemon::start
    MaxConns,   \* bound: incoming connections open at a time
    MaxDials    \* bound: outgoing connections, over the whole run

AllOps == {"share_connect", "share_disconnect", "p2p_start", "p2p_stop",
           "p2p_get_status", "start_local_server", "stop_local_server", "set_role"}

ASSUME ConstAssumption ==
    /\ Ops \subseteq AllOps
    /\ {MaxStarts, MaxConns, MaxDials} \subseteq Nat

Gens == 1 .. MaxStarts
NoCaller == "no caller"

ASSUME CallerAssumption == Callers \intersect Gens = {} /\ NoCaller \notin Callers

VARIABLES
    op,         \* the command each invocation runs
    pc,         \* where each invocation stands
    daemonLock, \* holder of the mutex ShareState.daemon
    running,    \* Daemon.running
    starts,     \* generations of the daemon so far
    client,     \* the outer task of the daemon, per generation
    endpoint,   \* the option holds an endpoint
    queue,      \* requests waiting for the RwLock, oldest first
    guards,     \* generations whose accept loop holds a read guard
    loop,       \* accept_loop, per generation
    active,     \* P2PConnectionManager.active_connections
    open,       \* accepted connections that are open
    dials       \* outgoing connections so far

commandVars == <<op, pc, daemonLock>>
daemonVars == <<running, starts, client>>
countVars == <<active, open, dials>>
vars == <<commandVars, daemonVars, endpoint, queue, guards, loop, countVars>>

Steps == {"idle", "begun", "ask", "asking", "addresses", "bind", "opening", "closing"}
LoopStates == {"none", "top", "asking", "accepting", "handshaking", "failed",
               "checking", "sleeping", "ended"}
ClientStates == {"none", "spawned", "booted", "up", "gone"}

----------------------------------------------------------------------------
(* The lock.                                                               *)

Request(who, kind) == queue' = Append(queue, [who |-> who, kind |-> kind])

\* A reader's turn comes when it is the oldest request: no writer is ever inside
\* between two steps.  A faulty variant lets readers overtake waiting writers.
ReadTurnOvertaking(who) == \E i \in DOMAIN queue : queue[i] = [who |-> who, kind |-> "read"]
ReadTurn(who) == queue # <<>> /\ Head(queue) = [who |-> who, kind |-> "read"]

\* A writer also waits for the guards; a faulty variant does not.
WriteTurnUnguarded(who) == queue # <<>> /\ Head(queue) = [who |-> who, kind |-> "write"]
WriteTurn(who) ==
    /\ queue # <<>>
    /\ Head(queue) = [who |-> who, kind |-> "write"]
    /\ guards = {}

\* The request of who leaves the queue, granted or dropped; nobody waits twice.
Requests(who) == {i \in DOMAIN queue : queue[i].who = who}
Without(who) ==
    IF Requests(who) = {} THEN queue
    ELSE RemoveAt(queue, CHOOSE i \in Requests(who) : TRUE)

Leave(who) == queue' = Without(who)

----------------------------------------------------------------------------
(* Commands.                                                               *)

Starting == {c \in Callers : op[c] = "share_connect" /\ pc[c] = "begun"}

At(c, step) == pc' = [pc EXCEPT ![c] = step]

\* The command returns and lets the daemon mutex go if it holds it.
Return(c) ==
    /\ At(c, "idle")
    /\ op' = [op EXCEPT ![c] = "none"]
    /\ daemonLock' = IF daemonLock = c THEN NoCaller ELSE daemonLock

Begin(c) ==
    /\ pc[c] = "idle"
    /\ \E o \in Ops :
        /\ o = "share_connect" => starts + Cardinality(Starting) < MaxStarts
        /\ op' = [op EXCEPT ![c] = o]
    /\ At(c, "begun")
    /\ UNCHANGED <<daemonLock, daemonVars, endpoint, queue, guards, loop, countVars>>

\* p2p_start builds an endpoint whether or not there is one.
Bind(c) ==
    /\ pc[c] = "begun" /\ op[c] = "p2p_start"
    /\ At(c, "bind")
    /\ UNCHANGED <<op, daemonLock, daemonVars, endpoint, queue, guards, loop, countVars>>

\* p2p_stop goes straight to the write lock.
Close(c) ==
    /\ pc[c] = "begun" /\ op[c] = "p2p_stop"
    /\ Request(c, "write")
    /\ At(c, "closing")
    /\ UNCHANGED <<op, daemonLock, daemonVars, endpoint, guards, loop, countVars>>

\* The other commands look at is_running first.  share_connect does so after
\* Daemon::start, which it may refuse; share_disconnect after Daemon::stop,
\* which drops the client but leaves the accept loop behind.
RefusedStart(c) ==
    /\ pc[c] = "begun" /\ op[c] = "share_connect"
    /\ daemonLock = NoCaller
    /\ running
    /\ Return(c)
    /\ UNCHANGED <<daemonVars, endpoint, queue, guards, loop, countVars>>

DaemonStart(c) ==
    /\ pc[c] = "begun" /\ op[c] = "share_connect"
    /\ daemonLock = NoCaller
    /\ ~running
    /\ starts < MaxStarts
    /\ running' = TRUE
    /\ starts' = starts + 1
    /\ client' = [client EXCEPT ![starts + 1] = "spawned"]
    /\ daemonLock' = c
    /\ At(c, "ask")
    /\ UNCHANGED <<op, endpoint, queue, guards, loop, countVars>>

Stopped ==
    /\ running' = FALSE
    /\ client' = IF running THEN [client EXCEPT ![starts] = "gone"] ELSE client
    /\ UNCHANGED starts

DaemonStop(c) ==
    /\ pc[c] = "begun" /\ op[c] = "share_disconnect"
    /\ daemonLock = NoCaller
    /\ Stopped
    /\ daemonLock' = c
    /\ At(c, "ask")
    /\ UNCHANGED <<op, endpoint, queue, guards, loop, countVars>>

\* set_role stops the daemon and leaves the endpoint alone.
RoleStop(c) ==
    /\ pc[c] = "begun" /\ op[c] = "set_role"
    /\ daemonLock = NoCaller
    /\ Stopped
    /\ Return(c)
    /\ UNCHANGED <<endpoint, queue, guards, loop, countVars>>

ServerCommand(c) ==
    /\ pc[c] = "begun"
    /\ op[c] \in {"p2p_get_status", "start_local_server", "stop_local_server"}
    /\ At(c, "ask")
    /\ UNCHANGED <<op, daemonLock, daemonVars, endpoint, queue, guards, loop, countVars>>

\* start_local_server returns early when the server runs or is not configured.
ServerReturns(c) ==
    /\ pc[c] = "begun" /\ op[c] = "start_local_server"
    /\ Return(c)
    /\ UNCHANGED <<daemonVars, endpoint, queue, guards, loop, countVars>>

Ask(c) ==
    /\ pc[c] = "ask"
    /\ Request(c, "read")
    /\ At(c, "asking")
    /\ UNCHANGED <<op, daemonLock, daemonVars, endpoint, guards, loop, countVars>>

\* The request of c is answered and c asks again at once.
AskAgain(c, kind) ==
    queue' = Append(Without(c), [who |-> c, kind |-> kind])

Opens(c) == op[c] \in {"share_connect", "start_local_server"}
Closes(c) == op[c] \in {"share_disconnect", "stop_local_server"}

\* The answer of is_running decides; the lock is free again when it is used.
Answered(c) ==
    /\ pc[c] = "asking"
    /\ ReadTurn(c)
    /\ \/ /\ Opens(c) /\ ~endpoint
          /\ Leave(c)
          /\ At(c, "bind")
          /\ UNCHANGED <<op, daemonLock>>
       \/ /\ Closes(c) /\ endpoint
          /\ AskAgain(c, "write")
          /\ At(c, "closing")
          /\ UNCHANGED <<op, daemonLock>>
       \/ /\ op[c] = "p2p_get_status" /\ endpoint
          /\ AskAgain(c, "read")
          /\ At(c, "addresses")
          /\ UNCHANGED <<op, daemonLock>>
       \/ /\ endpoint <=> Opens(c)
          /\ Leave(c)
          /\ Return(c)
    /\ UNCHANGED <<daemonVars, endpoint, guards, loop, countVars>>

\* local_addr, the second read of p2p_get_status.
Addressed(c) ==
    /\ pc[c] = "addresses"
    /\ ReadTurn(c)
    /\ Leave(c)
    /\ Return(c)
    /\ UNCHANGED <<daemonVars, endpoint, guards, loop, countVars>>

\* start builds a socket and an endpoint, then asks for the write lock.
Bound(c) ==
    /\ pc[c] = "bind"
    /\ Request(c, "write")
    /\ At(c, "opening")
    /\ UNCHANGED <<op, daemonLock, daemonVars, endpoint, guards, loop, countVars>>

BindFails(c) ==
    /\ pc[c] = "bind"
    /\ Return(c)
    /\ UNCHANGED <<daemonVars, endpoint, queue, guards, loop, countVars>>

\* start stores its endpoint, or shutdown takes the endpoint out.
Stored(c) ==
    /\ pc[c] \in {"opening", "closing"}
    /\ WriteTurn(c)
    /\ endpoint' = (pc[c] = "opening")
    /\ Leave(c)
    /\ Return(c)
    /\ UNCHANGED <<daemonVars, guards, loop, countVars>>

----------------------------------------------------------------------------
(* The daemon's outer task, as far as the accept loop goes.                *)

\* The first poll spawns the accept loop.
Boot(g) ==
    /\ client[g] = "spawned"
    /\ client' = [client EXCEPT ![g] = "booted"]
    /\ loop' = [loop EXCEPT ![g] = "top"]
    /\ UNCHANGED <<commandVars, running, starts, endpoint, queue, guards, countVars>>

ClientUp(g) ==
    /\ client[g] = "booted"
    /\ client' = [client EXCEPT ![g] = "up"]
    /\ UNCHANGED <<commandVars, running, starts, endpoint, queue, guards, loop, countVars>>

\* The client cannot build its request: the accept loop is aborted wherever it
\* stands, and with it its guard or its place in the queue.
ClientExit(g) ==
    /\ client[g] = "booted"
    /\ client' = [client EXCEPT ![g] = "gone"]
    /\ running' = FALSE
    /\ loop' = [loop EXCEPT ![g] = "ended"]
    /\ guards' = guards \ {g}
    /\ Leave(g)
    /\ UNCHANGED <<commandVars, starts, endpoint, countVars>>

----------------------------------------------------------------------------
(* accept_loop.                                                            *)

LoopAsks(g) ==
    /\ loop[g] \in {"top", "failed"}
    /\ Request(g, "read")
    /\ loop' = [loop EXCEPT ![g] = IF @ = "top" THEN "asking" ELSE "checking"]
    /\ UNCHANGED <<commandVars, daemonVars, endpoint, guards, countVars>>

\* accept_incoming: with an endpoint, wait on it under the guard.
LoopEnters(g) ==
    /\ loop[g] = "asking"
    /\ ReadTurn(g)
    /\ Leave(g)
    /\ guards' = IF endpoint THEN guards \union {g} ELSE guards
    /\ loop' = [loop EXCEPT ![g] = IF endpoint THEN "accepting" ELSE "failed"]
    /\ UNCHANGED <<commandVars, daemonVars, endpoint, countVars>>

\* After an error: leave for good if no endpoint is running by now.
LoopChecks(g) ==
    /\ loop[g] = "checking"
    /\ ReadTurn(g)
    /\ Leave(g)
    /\ loop' = [loop EXCEPT ![g] = IF endpoint THEN "sleeping" ELSE "ended"]
    /\ UNCHANGED <<commandVars, daemonVars, endpoint, guards, countVars>>

LoopWakes(g) ==
    /\ loop[g] = "sleeping"
    /\ loop' = [loop EXCEPT ![g] = "top"]
    /\ UNCHANGED <<commandVars, daemonVars, endpoint, queue, guards, countVars>>

\* The counter at an incoming connection, and a faulty variant that forgets it.
CountIncomingNot == active
CountIncoming == active + 1

Handshaking == {g \in Gens : loop[g] = "handshaking"}

\* A connection comes in: it is counted and the guard goes.
LoopAccepts(g) ==
    /\ loop[g] = "accepting"
    /\ open + Cardinality(Handshaking) < MaxConns
    /\ guards' = guards \ {g}
    /\ active' = CountIncoming
    /\ loop' = [loop EXCEPT ![g] = "handshaking"]
    /\ UNCHANGED <<commandVars, daemonVars, endpoint, queue, open, dials>>

\* The handshake succeeds and a handler is spawned, or it fails.
LoopHandshakes(g) ==
    /\ loop[g] = "handshaking"
    /\ \/ open' = open + 1 /\ UNCHANGED active
       \/ active' = active - 1 /\ UNCHANGED open
    /\ loop' = [loop EXCEPT ![g] = "top"]
    /\ UNCHANGED <<commandVars, daemonVars, endpoint, queue, guards, dials>>

\* The handler of an accepted connection ends.
ConnectionEnds ==
    /\ open > 0
    /\ open' = open - 1
    /\ active' = active - 1
    /\ UNCHANGED <<commandVars, daemonVars, endpoint, queue, guards, loop, dials>>

\* connect_to_peer of the consumer side counts its connection too; when that
\* connection closes nothing is called.
Dial ==
    /\ endpoint
    /\ dials < MaxDials
    /\ dials' = dials + 1
    /\ active' = active + 1
    /\ UNCHANGED <<commandVars, daemonVars, endpoint, queue, guards, loop, open>>

----------------------------------------------------------------------------
Init ==
    /\ op = [c \in Callers |-> "none"]
    /\ pc = [c \in Callers |-> "idle"]
    /\ daemonLock = NoCaller
    /\ running = FALSE
    /\ starts = 0
    /\ client = [g \in Gens |-> "none"]
    /\ endpoint = FALSE
    /\ queue = <<>>
    /\ guards = {}
    /\ loop = [g \in Gens |-> "none"]
    /\ active = 0
    /\ open = 0
    /\ dials = 0

Acquires(c) == RefusedStart(c) \/ DaemonStart(c) \/ DaemonStop(c) \/ RoleStop(c)
Proceeds(c) ==
    \/ Bind(c) \/ Close(c) \/ ServerCommand(c) \/ ServerReturns(c)
    \/ Ask(c) \/ Answered(c) \/ Addressed(c)
    \/ Bound(c) \/ BindFails(c) \/ Stored(c)
Boots(g) == Boot(g) \/ ClientUp(g) \/ ClientExit(g)
LoopMoves(g) ==
    LoopAsks(g) \/ LoopEnters(g) \/ LoopChecks(g) \/ LoopWakes(g) \/ LoopHandshakes(g)

Next ==
    \/ \E c \in Callers : Begin(c) \/ Acquires(c) \/ Proceeds(c)
    \/ \E g \in Gens : Boots(g) \/ LoopMoves(g) \/ LoopAccepts(g)
    \/ ConnectionEnds \/ Dial

Spec == Init /\ [][Next]_vars

\* tokio polls runnable tasks and serves its mutex in order; connections end.
\* Whether a consumer ever connects is not up to the program.
Fairness ==
    /\ \A c \in Callers : SF_vars(Acquires(c)) /\ WF_vars(Proceeds(c))
    /\ \A g \in Gens : WF_vars(Boots(g)) /\ WF_vars(LoopMoves(g))
    /\ WF_vars(ConnectionEnds)

FairSpec == Spec /\ Fairness
=============================================================================
