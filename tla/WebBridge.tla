------------------------------ MODULE WebBridge ------------------------------
(***************************************************************************)
(* The bridge to the browser extension (share/web_bridge.rs, and           *)
(* WebExecutor on top of it): a listener, one session per connection of an *)
(* extension, and the tasks dispatched to the session that paired last.    *)
(*                                                                         *)
(* start and stop take the bridge by &mut, so no dispatch is under way and *)
(* no task waits; the sessions are tasks of their own and outlive a stop.  *)
(* There is one web provider. The extension is external: it answers tasks  *)
(* it was sent. A caller awaits its dispatch to the end.                   *)
(***************************************************************************)
EXTENDS Naturals, Sequences

CONSTANTS
    Dispatches,     \* tasks given to WebExecutor::execute
    MaxSessions     \* bound: connections of extensions

ASSUME BridgeAssumption == MaxSessions \in Nat

VARIABLES
    listening,      \* server_handle is set
    session,        \* the connections: unused, accepted, pairing, open or over
    outbox,         \* the channel of each to its extension
    received,       \* the tasks its extension has been sent
    paired,         \* paired_tx: a session, or 0
    newest,         \* history: the session that paired last since the last stop, or 0
    provider,       \* provider_states of the provider: Offline is no entry as well
    pending,        \* the tasks with a oneshot sender in the map
    dispatch,       \* what each dispatch awaits, or how it has ended
    sender,         \* the session whose channel it has cloned
    answered        \* the tasks whose oneshot holds a result

sessionVars == <<session, outbox, received, paired, newest, provider>>
dispatchVars == <<pending, dispatch, sender, answered>>
bridgeVars == <<listening, sessionVars, dispatchVars>>

Sessions == 1 .. MaxSessions

BridgeInit ==
    /\ listening = FALSE
    /\ session = [k \in Sessions |-> "unused"]
    /\ outbox = [k \in Sessions |-> <<>>]
    /\ received = [k \in Sessions |-> {}]
    /\ paired = 0 /\ newest = 0
    /\ provider = "offline"
    /\ pending = {}
    /\ dispatch = [t \in Dispatches |-> "new"]
    /\ sender = [t \in Dispatches |-> 0]
    /\ answered = {}

NoDispatch == \A t \in Dispatches : dispatch[t] \notin {"checked", "sending", "waiting"}

\* start; an address that does not parse or is taken leaves everything as it is.
StartBridge ==
    /\ ~listening /\ NoDispatch
    /\ listening' = TRUE
    /\ UNCHANGED <<sessionVars, dispatchVars>>

\* stop: the listener is aborted and the three tables are cleared.
StopBridge ==
    /\ NoDispatch
    /\ listening' = FALSE
    /\ pending' = {}
    /\ provider' = "offline"
    /\ paired' = 0 /\ newest' = 0
    /\ UNCHANGED <<session, outbox, received, dispatch, sender, answered>>

----------------------------------------------------------------------------
(* handle_connection.                                                      *)

Accept(k) ==
    /\ listening
    /\ session[k] = "unused" /\ \A j \in 1 .. k - 1 : session[j] # "unused"
    /\ session' = [session EXCEPT ![k] = "accepted"]
    /\ UNCHANGED <<listening, outbox, received, paired, newest, provider, dispatchVars>>

\* The first frame pairs with the right token and this session replaces the one before.
Pair(k) ==
    /\ session[k] = "accepted"
    /\ session' = [session EXCEPT ![k] = "pairing"]
    /\ paired' = k /\ newest' = k
    /\ UNCHANGED <<listening, outbox, received, provider, dispatchVars>>

\* The receiver of the channel is gone, and what it held with it.
Over(k) ==
    /\ session' = [session EXCEPT ![k] = "over"]
    /\ outbox' = [outbox EXCEPT ![k] = <<>>]

\* Another first frame or token, or a Paired frame that is not written, ends the session
\* without the clean-up at the end of the loop.
PairFails(k) ==
    /\ session[k] \in {"accepted", "pairing"}
    /\ Over(k)
    /\ UNCHANGED <<listening, received, paired, newest, provider, dispatchVars>>

PairedSent(k) ==
    /\ session[k] = "pairing"
    /\ session' = [session EXCEPT ![k] = "open"]
    /\ UNCHANGED <<listening, outbox, received, paired, newest, provider, dispatchVars>>

\* What paired_tx is after session k: it is cleared by the session it names; and a faulty
\* variant that clears it in any case.
PairedAfterAny(k) == 0
PairedAfter(k) == IF paired = k THEN 0 ELSE paired

\* The extension closes, or a read or a write fails.
SessionEnds(k) ==
    /\ session[k] = "open"
    /\ Over(k)
    /\ paired' = PairedAfter(k)
    /\ UNCHANGED <<listening, received, newest, provider, dispatchVars>>

WriteTaskFrame(k) ==
    /\ session[k] = "open" /\ outbox[k] # <<>>
    /\ received' = [received EXCEPT ![k] = @ \union {Head(outbox[k])}]
    /\ outbox' = [outbox EXCEPT ![k] = Tail(@)]
    /\ UNCHANGED <<listening, session, paired, newest, provider, dispatchVars>>

\* handle_ext_message: web_status from any open session, ...
WebStatus(k) ==
    /\ session[k] = "open"
    /\ provider' \in {"idle", "busy", "offline"}
    /\ UNCHANGED <<listening, session, outbox, received, paired, newest, dispatchVars>>

\* ... and task_result, which goes to its waiter, or to nobody.
ExtensionResult(k, t) ==
    /\ session[k] = "open" /\ t \in received[k]
    /\ received' = [received EXCEPT ![k] = @ \ {t}]
    /\ pending' = pending \ {t}
    /\ answered' = answered \union (pending \intersect {t})
    /\ UNCHANGED <<listening, session, outbox, paired, newest, provider, dispatch, sender>>

----------------------------------------------------------------------------
(* dispatch, called by WebExecutor::execute.                               *)

\* A provider that is busy or offline is the result.
CheckProvider(t) ==
    /\ dispatch[t] = "new"
    /\ dispatch' = [dispatch EXCEPT ![t] = IF provider = "idle" THEN "checked" ELSE provider]
    /\ UNCHANGED <<listening, sessionVars, pending, sender, answered>>

CloneSender(t) ==
    /\ dispatch[t] = "checked"
    /\ dispatch' = [dispatch EXCEPT ![t] = IF paired = 0 THEN "error" ELSE "sending"]
    /\ sender' = [sender EXCEPT ![t] = paired]
    /\ UNCHANGED <<listening, sessionVars, pending, answered>>

\* The oneshot is put into the map and the frame into the channel; when the session is
\* over the send fails and the entry is taken out again.
SendTask(t) ==
    /\ dispatch[t] = "sending"
    /\ IF session[sender[t]] = "over"
       THEN /\ dispatch' = [dispatch EXCEPT ![t] = "error"]
            /\ UNCHANGED <<outbox, pending>>
       ELSE /\ dispatch' = [dispatch EXCEPT ![t] = "waiting"]
            /\ outbox' = [outbox EXCEPT ![sender[t]] = Append(@, t)]
            /\ pending' = pending \union {t}
    /\ UNCHANGED <<listening, session, received, paired, newest, provider, sender, answered>>

\* The result is there.
DispatchReturns(t) ==
    /\ dispatch[t] = "waiting" /\ t \in answered
    /\ dispatch' = [dispatch EXCEPT ![t] = "done"]
    /\ UNCHANGED <<listening, sessionVars, pending, sender, answered>>

DispatchTimesOut(t) ==
    /\ dispatch[t] = "waiting" /\ t \notin answered
    /\ dispatch' = [dispatch EXCEPT ![t] = "timeout"]
    /\ pending' = pending \ {t}
    /\ UNCHANGED <<listening, sessionVars, sender, answered>>

BridgeNext ==
    \/ StartBridge \/ StopBridge
    \/ \E k \in Sessions :
        \/ Accept(k) \/ Pair(k) \/ PairFails(k) \/ PairedSent(k) \/ SessionEnds(k)
        \/ WriteTaskFrame(k) \/ WebStatus(k)
        \/ \E t \in Dispatches : ExtensionResult(k, t)
    \/ \E t \in Dispatches :
        \/ CheckProvider(t) \/ CloneSender(t) \/ SendTask(t)
        \/ DispatchReturns(t) \/ DispatchTimesOut(t)
=============================================================================
