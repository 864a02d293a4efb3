-------------------------- MODULE ShareDaemonProps --------------------------
(***************************************************************************)
(* What the supplier daemon promises, stated over the module ShareDaemon.  *)
(***************************************************************************)
EXTENDS ShareDaemon

\* Every variable has its type (the fields of ShareState and Daemon, and the
\* state of the spawned tasks per generation).
TypeOK ==
    /\ connState \in ConnStates
    /\ op \in [Callers -> Commands]
    /\ pc \in [Callers -> CommandSteps]
    /\ daemonLock \in Callers \union {NoCaller}
    /\ running \in BOOLEAN
    /\ handle \in Gens \union {NoGen}
    /\ refreshHandle \in Gens \union {NoGen}
    /\ outgoing \in Gens \union {NoGen}
    /\ starts \in 0 .. MaxStarts
    /\ client \in [Gens -> ClientStates]
    /\ outq \in [Gens -> Seq(Messages)]
    /\ announced \in [Gens -> BOOLEAN]
    /\ taskq \in [Gens -> Seq(Tasks)]
    /\ handler \in [Gens -> HandlerStates]
    /\ cur \in [Gens -> Tasks \union {NoTask}]
    /\ \A g \in Gens : handler[g] \in {"executing", "sent", "rejected", "cooling"}
            => cur[g] \in Tasks
    /\ refresher \in [Gens -> RefresherStates]
    /\ dispatched \in SUBSET Tasks
    /\ executed \in [Tasks -> Nat]
    /\ logged \in SUBSET Tasks
    /\ delivered \in [Tasks -> Nat]
    /\ lost \in SUBSET Tasks
    /\ dropped \in SUBSET Tasks
    /\ faults \in 0 .. MaxFaults

\* At most one client per node is connected to the cloud, or on its way there,
\* whatever the order of share_connect, share_disconnect, set_role and of a
\* client that gives up by itself (Daemon::start, Daemon::stop).
SingleLiveClient == \A g, h \in Gens : Live(g) /\ Live(h) => g = h

\* Daemon.running is true only while the outer task named by Daemon.handle
\* runs, so a stop that does not return early aborts a live client.
RunningMeansLive == running => handle # NoGen /\ Live(handle)

\* A task is executed at most once and the cloud receives at most one terminal
\* result for it, across reconnections and restarts of the daemon.
AtMostOnce == \A t \in Tasks : executed[t] <= 1 /\ delivered[t] <= 1

\* A refresh loop that runs without Daemon.refresh_handle naming it was left
\* behind by a client that gave up: a stop never leaves one.
OrphanRefresherOnlyAfterExit ==
    \A g \in Gens :
        refresher[g] \in {"asleep", "querying"} /\ g # refreshHandle
            => client[g] = "exited"

\* When Daemon::stop has returned, whichever way, no client is left running:
\* the early return on a cleared flag never skips a client that is still up.
StopLeavesNoClient ==
    [][\A c \in Callers :
        op[c] # "share_connect" /\ pc[c] \in {"begun", "abort loops"}
        /\ pc'[c] \in {"endpoint", "stopped"}
            => \A g \in Gens : ~Live(g)']_vars

----------------------------------------------------------------------------
(* Liveness.                                                               *)

\* What the two properties below need of the network: connect_async has no
\* timeout, so nothing in the code ends a dial that hangs.
DialsEnd == \A g \in Gens : []<>(client[g] # "dialing")

\* A client that is up finds its way back to a session unless it is stopped or
\* gives up (P2PClient::run), or a dial hangs for ever.
Reconnects ==
    DialsEnd => \A g \in Gens : Live(g) ~> Connected(g) \/ ~Live(g)

\* A task that arrived is answered: its result reaches the cloud.  The ways out
\* are that the result was written to a dead or failing connection, that the
\* handler panicked on it or before it, that the client is gone, and a dial that
\* hangs for ever.
TaskAnswered ==
    DialsEnd => \A t \in Tasks :
        t \in dispatched ~> \/ delivered[t] > 0
                            \/ t \in lost \union dropped
                            \/ \A g \in Gens : ~Live(g)

\* A streamed task is answered before its row is written, but the row follows,
\* whatever happens to the client meanwhile.
AnsweredIsLogged == \A t \in Tasks : delivered[t] > 0 ~> t \in logged

\* On every new connection the node writes its models again, as long as the
\* refresh finds some: the client itself does not repeat the NodeStatus.
StatusFollowsConnection ==
    \A g \in Gens : Connected(g) ~> announced[g] \/ ~Connected(g)
=============================================================================
