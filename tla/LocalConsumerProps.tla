------------------------- MODULE LocalConsumerProps -------------------------
(***************************************************************************)
(* What the user, the supplier and the books may rely on, whichever way a  *)
(* request takes through the module LocalConsumer.                         *)
(***************************************************************************)
EXTENDS LocalConsumer, FiniteSets

Events == {"delta", "finish", "finish_with_error", "message_start", "content_block_start",
           "content_block_stop", "end_turn", "stop_error", "error", "message_stop"}

RequestTypes ==
    /\ entry \in [Requests -> Entries \union {"none"}]
    /\ streamed \in [Requests -> BOOLEAN]
    /\ pc \in [Requests -> Steps]
    /\ tries \in [Requests -> 0 .. PunchTries]
    /\ offers \in SUBSET Requests
    /\ conn \in [Requests -> BOOLEAN]
    /\ supplier \in [Requests -> Supplier]
    /\ sessions \in SUBSET Requests
    /\ posted \in [Requests -> [Posts -> Nat]]
    /\ reply \in [Requests -> {"none", "ok"}]
    /\ runs \in [Requests -> Nat]
    /\ row \in [Requests -> {"none", "completed", "failed"}]
    /\ report \in [Requests -> {"none", "completed", "failed"}]
    /\ answer \in [Requests -> {"none", "ok", "error", "sse"}]
    /\ frames \in [Requests -> Seq(Frames)]
    /\ events \in [Requests -> Seq(Events)]
    /\ crashes \in 0 .. MaxCrashes

\* Every variable has its type.
TypeOK == RequestTypes /\ locked \in BOOLEAN

\* A fallback may run, and bill, a task again that a supplier or the cloud has
\* already begun, but never more often than the ways its entry point has: one
\* for the Messages API, the direct and the relayed one for share_consume, and
\* the handler's own post on top for chat completions.
RunsPerEntry ==
    \A r \in Requests :
        runs[r] <= CASE entry[r] = "none" -> 0
                     [] entry[r] = "messages" -> 1
                     [] entry[r] = "share_consume" -> 2
                     [] entry[r] = "chat_completions" -> 3

\* The books agree with the user's answer. A completed row is written for the
\* answer the user gets, and share_consume never succeeds with a failed row. A
\* usage report is sent for billing when the handler has the result of a direct
\* task, and never for one the relay is asked to run too: a completed report tells
\* of the only run there is, a failed one of a run that the chat handler follows
\* with its own post at most. chat_completions streams only after P2PConsumer has
\* failed with either a row or a report, whatever the user asked for.
BooksTellAnswer ==
    \A r \in Requests :
        /\ row[r] = "completed" => answer[r] = "ok"
        /\ entry[r] = "share_consume" /\ answer[r] = "ok" => row[r] # "failed"
        /\ report[r] # "none" =>
            /\ row[r] = "none" /\ posted[r]["relay"] = 0
            /\ report[r] = "completed" => runs[r] = 1 /\ answer[r] = "ok"
            /\ runs[r] <= (IF entry[r] = "chat_completions" THEN 2 ELSE 1)
        /\ entry[r] = "chat_completions" /\ answer[r] = "sse"
            => row[r] = "failed" \/ report[r] = "failed"

\* A streamed answer tells how its task ended. OpenAI: a finish reason is sent
\* once at most, and only for a terminal frame, so that a broken stream does not
\* look complete. Anthropic: text comes in one message and one block, before the
\* first stop; the first stop reason is that of the terminal frame; a message
\* that was started is stopped.
StreamTellsOutcome ==
    \A r \in Requests :
        LET Count(e) == Cardinality({i \in DOMAIN events[r] : events[r][i] = e})
            Before(e, f) == \A i, j \in DOMAIN events[r] :
                events[r][i] = e /\ events[r][j] = f => i < j
            ended == {frames[r][i] : i \in DOMAIN frames[r]} \ {"text"}
        IN  /\ Count("finish") + Count("finish_with_error") <= Cardinality(ended)
            /\ Count("message_start") <= 1 /\ Count("content_block_start") <= 1
            /\ entry[r] = "messages" =>
                /\ Before("content_block_start", "delta") /\ Before("delta", "message_stop")
                /\ Before("message_start", "content_block_stop")
                /\ "failed" \in ended /\ Count("end_turn") > 0
                        => Count("stop_error") = 1 /\ Before("stop_error", "end_turn")
                /\ pc[r] = "done" /\ Count("delta") > 0 => Count("message_stop") > 0

\* Every request is answered, or its user has left, provided that no writer keeps
\* readers from the endpoint for ever (module P2PEndpoint shows that one may: the
\* accept loop holds the lock until a peer comes). No other wait of the handler is
\* without an end, and it is enough that the lock is free now and then.
EveryRequestEnds ==
    []<>(~locked) => \A r \in Requests : pc[r] # "idle" ~> pc[r] \in {"done", "gone"}
=============================================================================
