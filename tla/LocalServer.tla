---------------------------- MODULE LocalServer ----------------------------
(***************************************************************************)
(* The lifecycle of the local consumer server: start_local_server,         *)
(* stop_local_server and the part of set_role that stops it, over the two  *)
(* mutexes of LocalServerHandle. Each mutex is held for one access only, so*)
(* the commands interleave between any two of them. The QUIC endpoint the  *)
(* commands start and stop as well is P2PEndpoint.                         *)
(***************************************************************************)
EXTENDS Naturals

CONSTANTS
    Commands,   \* commands that may overlap
    Addrs,      \* addresses a server may be bound to
    NoAddr,
    MaxStarts   \* bound: servers that are spawned

ASSUME LocalAssumption == NoAddr \notin Addrs /\ MaxStarts \in Nat

VARIABLES
    addr,       \* LocalServerHandle.addr
    shutdown,   \* LocalServerHandle.shutdown: a task, or 0
    task,       \* the spawned tasks: unused, spawned, serving or over
    taskAddr,   \* the address each is to be bound to
    step,       \* where each command stands
    own,        \* the task a start has spawned
    target,     \* the address a start was given
    overlapped  \* history: a start was under way together with another command

localVars == <<addr, shutdown, task, taskAddr, step, own, target, overlapped>>

Starts == 1 .. MaxStarts

LocalInit ==
    /\ addr = NoAddr /\ shutdown = 0
    /\ task = [k \in Starts |-> "unused"]
    /\ taskAddr = [k \in Starts |-> NoAddr]
    /\ step = [c \in Commands |-> "idle"]
    /\ own = [c \in Commands |-> 0]
    /\ target = [c \in Commands |-> NoAddr]
    /\ overlapped = FALSE

Go(c, s) == step' = [step EXCEPT ![c] = s]
Alone(c) == \A d \in Commands \ {c} : step[d] = "idle"
Starting == \E d \in Commands : step[d] \in {"configure", "setAddr", "setShutdown"}

\* start_local_server returns the address when there is one.
StartServer(c) ==
    /\ step[c] = "idle" /\ addr = NoAddr
    /\ \E a \in Addrs : target' = [target EXCEPT ![c] = a]
    /\ Go(c, "configure")
    /\ overlapped' = (overlapped \/ ~Alone(c))
    /\ UNCHANGED <<addr, shutdown, task, taskAddr, own>>

\* The configuration is read and copied into the state of the server, and the task is
\* spawned; or the cloud has no address, or the one given does not parse.
Configure(c) ==
    /\ step[c] = "configure"
    /\ \/ \E k \in Starts :
            /\ task[k] = "unused" /\ \A j \in 1 .. k - 1 : task[j] # "unused"
            /\ task' = [task EXCEPT ![k] = "spawned"]
            /\ taskAddr' = [taskAddr EXCEPT ![k] = target[c]]
            /\ own' = [own EXCEPT ![c] = k]
            /\ Go(c, "setAddr")
            /\ UNCHANGED target
       \/ /\ Go(c, "idle")
          /\ target' = [target EXCEPT ![c] = NoAddr]
          /\ UNCHANGED <<task, taskAddr, own>>
    /\ UNCHANGED <<addr, shutdown, overlapped>>

\* serve: the listener is bound unless another server has the address.
Bind(k) ==
    /\ task[k] = "spawned"
    /\ task' = [task EXCEPT ![k] =
            IF \E j \in Starts : task[j] = "serving" /\ taskAddr[j] = taskAddr[k]
            THEN "over" ELSE "serving"]
    /\ UNCHANGED <<addr, shutdown, taskAddr, step, own, target, overlapped>>

\* The address is taken by another program, or the listener fails.
ServerFails(k) ==
    /\ task[k] \in {"spawned", "serving"}
    /\ task' = [task EXCEPT ![k] = "over"]
    /\ UNCHANGED <<addr, shutdown, taskAddr, step, own, target, overlapped>>

SetAddr(c) ==
    /\ step[c] = "setAddr"
    /\ addr' = target[c]
    /\ Go(c, "setShutdown")
    /\ UNCHANGED <<shutdown, task, taskAddr, own, target, overlapped>>

SetShutdown(c) ==
    /\ step[c] = "setShutdown"
    /\ shutdown' = own[c]
    /\ own' = [own EXCEPT ![c] = 0]
    /\ target' = [target EXCEPT ![c] = NoAddr]
    /\ Go(c, "idle")
    /\ UNCHANGED <<addr, task, taskAddr, overlapped>>

\* The task whose handle is taken is aborted; a faulty variant drops the handle only.
AbortedDropped == task
Aborted == [k \in Starts |-> IF k = shutdown THEN "over" ELSE task[k]]

\* stop_local_server and set_role take the handle, if there is one, ...
TakeShutdown(c) ==
    /\ step[c] = "idle"
    /\ task' = Aborted
    /\ shutdown' = 0
    /\ Go(c, "clearAddr")
    /\ overlapped' = (overlapped \/ Starting)
    /\ UNCHANGED <<addr, taskAddr, own, target>>

\* ... and clear the address.
ClearAddr(c) ==
    /\ step[c] = "clearAddr"
    /\ addr' = NoAddr
    /\ Go(c, "idle")
    /\ UNCHANGED <<shutdown, task, taskAddr, own, target, overlapped>>

LocalNext ==
    \/ \E c \in Commands :
        \/ StartServer(c) \/ Configure(c) \/ SetAddr(c) \/ SetShutdown(c)
        \/ TakeShutdown(c) \/ ClearAddr(c)
    \/ \E k \in Starts : Bind(k) \/ ServerFails(k)
=============================================================================
