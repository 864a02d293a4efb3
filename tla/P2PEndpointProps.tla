-------------------------- MODULE P2PEndpointProps --------------------------
(***************************************************************************)
(* What the commands on the QUIC endpoint and the accept loops promise.    *)
(***************************************************************************)
EXTENDS P2PEndpoint

\* Every variable has its type; in particular the usize active_connections
\* never wraps below zero.
TypeOK ==
    /\ op \in [Callers -> Ops \union {"none"}]
    /\ pc \in [Callers -> Steps]
    /\ daemonLock \in Callers \union {NoCaller}
    /\ running \in BOOLEAN
    /\ starts \in 0 .. MaxStarts
    /\ client \in [Gens -> ClientStates]
    /\ endpoint \in BOOLEAN
    /\ queue \in Seq([who : Callers \union Gens, kind : {"read", "write"}])
    /\ guards \in SUBSET Gens
    /\ loop \in [Gens -> LoopStates]
    /\ active \in Nat /\ open \in Nat
    /\ dials \in 0 .. MaxDials

\* An accept loop waits for connections only on an endpoint that is open: the
\* endpoint is never replaced or taken away under its guard, which would leave
\* it waiting on a dead one for ever.
AcceptsOnOpenEndpoint == \A g \in Gens : loop[g] = "accepting" => endpoint /\ g \in guards

\* The counter never misses an accepted connection, in or after its handshake,
\* so peer_disconnected cannot take it below the connections still open.
CountCoversIncoming == active >= open + Cardinality(Handshaking)

\* As long as the accept loops are not stuck waiting for a peer, every command
\* returns: whoever waits for the endpoint lock, with or without the daemon
\* mutex, gets it.  (P2PConnectionManager and its callers share_connect,
\* share_disconnect, p2p_start, p2p_stop, p2p_get_status.)
CommandsReturnIfPeersCome ==
    []<>(guards = {}) => \A c \in Callers : pc[c] # "idle" ~> pc[c] = "idle"

\* Unkept: every command returns, share_disconnect among them, which closes the
\* endpoint alongside the daemon.
CommandsReturn == \A c \in Callers : pc[c] # "idle" ~> pc[c] = "idle"
=============================================================================
