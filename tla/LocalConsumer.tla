--------------------------- MODULE LocalConsumer ---------------------------
(***************************************************************************)
(* How a request of the user is served from the shared pool: the handlers  *)
(* of the local server (local_server/openai_compat.rs, anthropic_compat.rs)*)
(* and the command share_consume, the consumer that tries a direct task    *)
(* over QUIC first (p2p/consumer.rs), its fallback to the cloud            *)
(* (share/consumer.rs), and the supplier's side of the direct task         *)
(* (p2p/supplier.rs and the offer handler of share/daemon.rs).             *)
(*                                                                         *)
(* The session of a direct task is named by its request. The cloud is      *)
(* external: it offers the session to a supplier, and it runs a task posted*)
(* to it once, later, or never.                                            *)
(*                                                                         *)
(* The consumer reads its own QUIC endpoint through the RwLock of module   *)
(* P2PEndpoint, without a timeout. Of that module only what a reader sees  *)
(* is left here: whether a writer, waiting or at work, keeps readers out.  *)
(***************************************************************************)
EXTENDS Naturals, Sequences

CONSTANTS
    Requests,    \* the requests of the user
    PunchTries,  \* hole_punch_retries of the stored P2P configuration
    MaxFrames,   \* bound: frames in the body of one streamed response
    MaxCrashes   \* bound: restarts of the supplier

ASSUME ConsumerAssumption == PunchTries \in Nat /\ MaxFrames \in Nat /\ MaxCrashes \in Nat

VARIABLES
    entry,     \* the way the request came in
    streamed,  \* it asks for stream: true
    pc,        \* where its handler stands
    tries,     \* rounds of punch_and_connect so far
    offers,    \* sessions the cloud has yet to offer to a supplier
    conn,      \* the consumer's QUIC connection for it is up
    supplier,  \* where the supplier stands with its direct task
    sessions,  \* P2PSessionStore of the supplier
    posted,    \* posts to /api/v1/dispatch that the cloud has not worked off
    reply,     \* the cloud's response to the post the handler waits for
    runs,      \* how often the task has been run for it, all ways together
    row,       \* its row of p2p_task_log on the consumer's side
    report,    \* status in the usage report spawned for it
    answer,    \* what the user has got
    frames,    \* frames of the streamed response read so far
    events,    \* events of the streamed answer sent to the user
    crashes,   \* restarts of the supplier so far
    locked     \* a writer keeps readers from the consumer's endpoint

handlerVars == <<entry, streamed, pc, tries, reply, row, report, answer, frames, events>>
vars == <<handlerVars, offers, conn, supplier, sessions, posted, runs, crashes, locked>>

Entries == {"chat_completions", "messages", "share_consume"}
Posts == {"relay", "dispatch"}     \* by Consumer::consume, by the handler itself
Steps == {"idle", "candidates", "offer", "punch", "write", "exchange", "stream", "done", "gone"} \union Posts
Frames == {"text", "completed", "failed"}
Supplier == {"none", "registered", "answered", "refused", "executing",
             "ran completed", "ran failed", "sent completed", "sent failed",
             "told completed", "told failed", "unsent", "lost"}
SentAs(status) == IF status = "completed" THEN {"sent completed", "told completed"}
                  ELSE {"sent failed", "told failed"}
Sent == SentAs("completed") \union SentAs("failed")

Init ==
    /\ entry = [r \in Requests |-> "none"]
    /\ streamed = [r \in Requests |-> FALSE]
    /\ pc = [r \in Requests |-> "idle"]
    /\ tries = [r \in Requests |-> 0]
    /\ offers = {}
    /\ conn = [r \in Requests |-> FALSE]
    /\ supplier = [r \in Requests |-> "none"]
    /\ sessions = {}
    /\ posted = [r \in Requests |-> [p \in Posts |-> 0]]
    /\ reply = [r \in Requests |-> "none"]
    /\ runs = [r \in Requests |-> 0]
    /\ row = [r \in Requests |-> "none"]
    /\ report = [r \in Requests |-> "none"]
    /\ answer = [r \in Requests |-> "none"]
    /\ frames = [r \in Requests |-> <<>>]
    /\ events = [r \in Requests |-> <<>>]
    /\ crashes = 0
    /\ locked = FALSE

----------------------------------------------------------------------------
(* The handler.                                                            *)

GoTo(r, step) == pc' = [pc EXCEPT ![r] = step]

Answer(r, a) == GoTo(r, "done") /\ answer' = [answer EXCEPT ![r] = a]

\* The handler sends its post to the cloud and waits for the response.
Post(r, p) ==
    /\ GoTo(r, p)
    /\ posted' = [posted EXCEPT ![r][p] = @ + 1]
    /\ reply' = [reply EXCEPT ![r] = "none"]

\* A request comes in.
Enter(r, e) ==
    /\ pc[r] = "idle"
    /\ entry' = [entry EXCEPT ![r] = e]
    /\ \E s \in BOOLEAN : streamed' = [streamed EXCEPT ![r] = s]
    /\ UNCHANGED <<tries, conn, supplier, sessions, runs, row, report, frames, events, crashes>>

Refuse(r) == Answer(r, "error") /\ UNCHANGED <<offers, posted, reply>>

\* request_p2p_dispatch: the consumer gathers its own candidates.
SeekSupplier(r) == GoTo(r, "candidates") /\ UNCHANGED <<offers, posted, reply, answer>>

\* Consumer::consume posts the task to the cloud.
PostRelay(r) == Post(r, "relay")

\* POST /v1/chat/completions, with a cloud host configured (base) and an API key or
\* session token at hand (key) or not. Without the key the direct way is skipped,
\* and without a readable P2P configuration (loaded) it is over at once.
ChatCompletions(r) ==
    /\ Enter(r, "chat_completions")
    /\ \E base, key, loaded \in BOOLEAN :
        \/ ~base /\ Refuse(r)
        \/ base /\ key /\ loaded /\ SeekSupplier(r)
        \/ base /\ ~(key /\ loaded) /\ PostRelay(r) /\ UNCHANGED <<offers, answer>>

\* POST /v1/messages goes to the cloud at once.
Messages(r) ==
    /\ Enter(r, "messages")
    /\ \E base \in BOOLEAN :
        \/ ~base /\ Refuse(r)
        \/ base /\ Post(r, "dispatch") /\ UNCHANGED <<offers, answer>>

\* The command share_consume needs both.
ShareConsume(r) ==
    /\ Enter(r, "share_consume")
    /\ \E configured, loaded \in BOOLEAN :
        \/ ~configured /\ Refuse(r)
        \/ configured /\ loaded /\ SeekSupplier(r)
        \/ configured /\ ~loaded /\ PostRelay(r) /\ UNCHANGED <<offers, answer>>

\* consume_p2p returns an error: the connection, if any, is dropped and the task
\* goes to Consumer::consume.
FallBack(r) ==
    /\ PostRelay(r)
    /\ conn' = [conn EXCEPT ![r] = FALSE]

\* With the local address, which takes the endpoint's lock, the candidates are
\* complete and the cloud is asked for a supplier to connect to.
AskForSupplier(r) ==
    /\ pc[r] = "candidates" /\ ~locked
    /\ GoTo(r, "offer")
    /\ offers' = offers \union {r}
    /\ UNCHANGED <<entry, streamed, tries, conn, supplier, sessions, posted, reply, runs, row,
                   report, answer, frames, events, crashes>>

\* Faulty variant: the request for a supplier has no timeout.
OfferReturnsUntimed(r) ==
    /\ pc[r] = "offer" /\ supplier[r] = "answered"
    /\ GoTo(r, "punch")
    /\ UNCHANGED <<offers, entry, streamed, tries, conn, supplier, sessions, posted, reply, runs,
                   row, report, answer, frames, events, crashes>>

\* The response to /p2p/dispatch: the supplier's candidates and key, or an error,
\* a relay mode, a missing field, a timeout.
OfferReturns(r) ==
    /\ pc[r] = "offer"
    /\ \/ supplier[r] = "answered" /\ GoTo(r, "punch") /\ UNCHANGED <<posted, reply, conn>>
       \/ FallBack(r)
    /\ UNCHANGED <<offers, entry, streamed, tries, supplier, sessions, runs, row, report, answer,
                   frames, events, crashes>>

\* Faulty variant: one round too many.
MoreTriesByOne(r) == tries[r] <= PunchTries

MoreTries(r) == tries[r] < PunchTries

\* One round of punch_and_connect, for which punch_udp and connect_to_peer take the
\* endpoint's lock: it connects, or the next round follows, and after the last one
\* an error.
Punch(r) ==
    /\ pc[r] = "punch"
    /\ \/ /\ MoreTries(r) /\ ~locked
          /\ tries' = [tries EXCEPT ![r] = @ + 1]
          /\ \/ GoTo(r, "write") /\ conn' = [conn EXCEPT ![r] = TRUE]
             \/ UNCHANGED <<pc, conn>>
          /\ UNCHANGED <<posted, reply>>
       \/ ~MoreTries(r) /\ FallBack(r) /\ UNCHANGED tries
    /\ UNCHANGED <<offers, entry, streamed, supplier, sessions, runs, row, report, answer, frames,
                   events, crashes>>

\* The task is encrypted and written to a new stream.
WriteTask(r) ==
    /\ pc[r] = "write"
    /\ \/ conn[r] /\ GoTo(r, "exchange") /\ UNCHANGED <<posted, reply, conn>>
       \/ ~conn[r] /\ FallBack(r)
    /\ UNCHANGED <<offers, entry, streamed, tries, supplier, sessions, runs, row, report, answer,
                   frames, events, crashes>>

\* The chat handler's own post, after P2PConsumer::consume has failed.
PostDispatch(r) == Post(r, "dispatch")

\* Faulty variant: share_consume tries a third way as well.
FailedForAll(r) == PostDispatch(r) /\ UNCHANGED answer

\* A failed attempt is the answer of share_consume; chat_completions goes on.
Failed(r) ==
    IF entry[r] = "share_consume"
    THEN Answer(r, "error") /\ UNCHANGED <<posted, reply>>
    ELSE PostDispatch(r) /\ UNCHANGED answer

\* P2pFrame::decode of what one read returned: a frame, or only a piece of one.
Decodes(read) == read = "frame"

\* The one read of the response: a result, whose status the consumer reports and
\* returns, or an error. A direct task leaves no row.
ReadResult(r) ==
    /\ pc[r] = "exchange"
    /\ \E read \in {"frame", "piece", "closed"} :
        \/ /\ conn[r] /\ Decodes(read)
           /\ \E status \in {"completed", "failed"} :
                /\ supplier[r] \in SentAs(status)
                /\ report' = [report EXCEPT ![r] = status]
                /\ IF status = "completed"
                   THEN Answer(r, "ok") /\ UNCHANGED <<posted, reply>>
                   ELSE Failed(r)
           /\ conn' = [conn EXCEPT ![r] = FALSE]
        \/ /\ \/ read = "piece" /\ conn[r] /\ supplier[r] \in Sent
              \/ read = "closed" /\ (~conn[r] \/ supplier[r] = "refused")
           /\ FallBack(r)
           /\ UNCHANGED <<report, answer>>
    /\ UNCHANGED <<offers, entry, streamed, tries, supplier, sessions, runs, row, frames,
                   events, crashes>>

\* Faulty variant: the row ignores the outcome.
LogRowCompleted(r, status) == row' = [row EXCEPT ![r] = "completed"]

\* Consumer::log inserts the row of a relayed task.
LogRow(r, status) == row' = [row EXCEPT ![r] = status]

\* Consumer::consume gets the cloud's answer: one it can decode is a success.
RelayReturns(r) ==
    /\ pc[r] = "relay"
    /\ \/ /\ reply[r] = "ok"
          /\ LogRow(r, "completed")
          /\ Answer(r, "ok")
          /\ UNCHANGED <<posted, reply>>
       \/ LogRow(r, "failed") /\ Failed(r)
    /\ UNCHANGED <<offers, entry, streamed, tries, conn, supplier, sessions, runs, report,
                   frames, events, crashes>>

\* A complete response is translated; one that is no JSON is an error.
NonStreamed(r) == \E a \in {"ok", "error"} : Answer(r, a)

\* The handler's own post returns: an error, a complete response, or the head of
\* a streamed one.
DispatchReturns(r) ==
    /\ pc[r] = "dispatch"
    /\ \/ Answer(r, "error")
       \/ reply[r] = "ok" /\ ~streamed[r] /\ NonStreamed(r)
       \/ /\ reply[r] = "ok" /\ streamed[r]
          /\ GoTo(r, "stream")
          /\ answer' = [answer EXCEPT ![r] = "sse"]
    /\ UNCHANGED <<offers, entry, streamed, tries, conn, supplier, sessions, posted, reply,
                   runs, row, report, frames, events, crashes>>

\* The user closes the connection: the future of the handler is dropped where it
\* awaits, and with it the QUIC connection. A Tauri command is not cancelled.
ClientLeaves(r) ==
    /\ entry[r] \in {"chat_completions", "messages"}
    /\ pc[r] \notin {"idle", "done", "gone"}
    /\ GoTo(r, "gone")
    /\ conn' = [conn EXCEPT ![r] = FALSE]
    /\ UNCHANGED <<offers, entry, streamed, tries, supplier, sessions, posted, reply, runs,
                   row, report, answer, frames, events, crashes>>

----------------------------------------------------------------------------
(* Streamed responses: the translation of the cloud's frames.              *)

\* The last frame read ended the task: the cloud passes on the frames of one
\* task, whose terminal frame is the last.
Terminated(r) == frames[r] # <<>> /\ frames[r][Len(frames[r])] # "text"

\* stream_openai_sse: one chunk per frame, the terminal one with a finish reason.
OpenAIEvents(f) ==
    CASE f = "text" -> <<"delta">>
      [] f = "completed" -> <<"finish">>
      [] f = "failed" -> <<"finish_with_error">>

\* stream_anthropic_sse: started is set by the first text alone, so a terminal
\* frame that comes first opens the message but no content block.
Started(r) == \E i \in DOMAIN frames[r] : frames[r][i] = "text"
Closing(reason) == <<"content_block_stop", reason, "message_stop">>
AnthropicEvents(r, f) ==
    CASE f = "text" -> (IF Started(r) THEN <<>> ELSE <<"message_start", "content_block_start">>)
                       \o <<"delta">>
      [] f = "completed" -> (IF Started(r) THEN <<>> ELSE <<"message_start">>)
                            \o Closing("end_turn")
      [] f = "failed" -> IF Started(r) THEN Closing("stop_error") ELSE Tail(Closing("stop_error"))

\* A whole frame of the response is read and translated.
StreamFrame(r, f) ==
    /\ pc[r] = "stream" /\ ~Terminated(r) /\ Len(frames[r]) < MaxFrames
    /\ frames' = [frames EXCEPT ![r] = Append(@, f)]
    /\ events' = [events EXCEPT ![r] = @ \o
            IF entry[r] = "messages" THEN AnthropicEvents(r, f) ELSE OpenAIEvents(f)]
    /\ UNCHANGED <<offers, entry, streamed, pc, tries, conn, supplier, sessions, posted, reply,
                   runs, row, report, answer, crashes>>

\* Faulty variant: the OpenAI side too closes whatever it streamed.
OpenAITailFinishes(rest) == IF rest = "text" THEN <<"delta", "finish">> ELSE <<"finish">>

\* What follows the body, which ended or broke off (broken). The OpenAI side
\* parses a frame left without its blank line (rest), where it knows no error
\* status; the Anthropic side closes a started message, also a closed one.
OpenAITail(rest) ==
    CASE rest = "none" -> <<>>
      [] rest = "text" -> <<"delta">>
      [] OTHER -> <<"finish">>
AnthropicTail(r, broken) ==
    (IF broken THEN <<"error", "message_stop">> ELSE <<>>)
    \o (IF Started(r) THEN Closing("end_turn") ELSE <<>>)

StreamEnds(r, broken, rest) ==
    /\ pc[r] = "stream"
    /\ rest # "none" => ~Terminated(r) /\ Len(frames[r]) < MaxFrames
    /\ GoTo(r, "done")
    /\ IF entry[r] = "messages"
       THEN /\ events' = [events EXCEPT ![r] = @ \o AnthropicTail(r, broken)]
            /\ UNCHANGED frames
       ELSE /\ events' = [events EXCEPT ![r] = @ \o OpenAITail(rest)]
            /\ frames' = IF rest = "none" THEN frames
                         ELSE [frames EXCEPT ![r] = Append(@, rest)]
    /\ UNCHANGED <<offers, entry, streamed, tries, conn, supplier, sessions, posted, reply, runs,
                   row, report, answer, crashes>>

----------------------------------------------------------------------------
(* The supplier of a direct task.                                          *)

\* P2PSessionStore.
Register(r) == sessions' = sessions \union {r}
Known(r) == r \in sessions
Remove(r) == sessions' = sessions \ {r}

\* The daemon's offer handler takes the P2POffer and registers the session; the
\* cloud may send it late, when the consumer no longer waits for it.
TakeOffer(r) ==
    /\ r \in offers
    /\ offers' = offers \ {r}
    /\ Register(r)
    /\ supplier' = [supplier EXCEPT ![r] = "registered"]
    /\ UNCHANGED <<handlerVars, conn, posted, runs, crashes>>

\* After STUN and the local address, for which it may wait too, it queues the
\* P2pAnswer.
AnswerOffer(r) ==
    /\ supplier[r] = "registered"
    /\ supplier' = [supplier EXCEPT ![r] = "answered"]
    /\ UNCHANGED <<handlerVars, offers, conn, sessions, posted, runs, crashes>>

\* accept_bi returns a stream once the consumer has written to it.
StreamOpened(r) == conn[r] /\ pc[r] = "exchange"

\* handle_task_stream reads the request once. Without a session, and when the
\* frame is incomplete or does not decrypt, it returns and the stream is dropped.
TakeTask(r) ==
    /\ supplier[r] = "answered" /\ StreamOpened(r)
    /\ \/ /\ Known(r)
          /\ supplier' = [supplier EXCEPT ![r] = "executing"]
          /\ runs' = [runs EXCEPT ![r] = @ + 1]
       \/ supplier' = [supplier EXCEPT ![r] = "refused"] /\ UNCHANGED runs
    /\ UNCHANGED <<handlerVars, offers, conn, sessions, posted, crashes>>

\* The executor returns a response or an error; the consumer may have gone.
FinishTask(r) ==
    /\ supplier[r] = "executing"
    /\ \E result \in {"ran completed", "ran failed"} :
        supplier' = [supplier EXCEPT ![r] = result]
    /\ UNCHANGED <<handlerVars, offers, conn, sessions, posted, runs, crashes>>

\* The result is written to the stream, or the connection is lost: then the
\* handler returns with the session still registered.
SendResult(r) ==
    /\ supplier[r] \in {"ran completed", "ran failed"}
    /\ supplier' = [supplier EXCEPT ![r] =
            CASE ~conn[r] -> "unsent"
              [] conn[r] /\ supplier[r] = "ran completed" -> "sent completed"
              [] OTHER -> "sent failed"]
    /\ UNCHANGED <<handlerVars, offers, conn, sessions, posted, runs, crashes>>

\* P2PSessionStore::remove, after the result was sent.
ForgetSession(r) ==
    /\ supplier[r] \in {"sent completed", "sent failed"}
    /\ Remove(r)
    /\ supplier' = [supplier EXCEPT ![r] =
            IF @ = "sent completed" THEN "told completed" ELSE "told failed"]
    /\ UNCHANGED <<handlerVars, offers, conn, posted, runs, crashes>>

\* The QUIC connection breaks or has been idle for too long: no keep-alive is
\* configured, so this also ends a task that simply takes its time.
LoseConnection(r) ==
    /\ conn[r]
    /\ conn' = [conn EXCEPT ![r] = FALSE]
    /\ UNCHANGED <<handlerVars, offers, supplier, sessions, posted, runs, crashes>>

\* The supplier's application restarts: the session store is in memory only.
RestartSupplier ==
    /\ crashes < MaxCrashes
    /\ crashes' = crashes + 1
    /\ sessions' = {}
    /\ supplier' = [r \in Requests |->
            CASE supplier[r] \in {"registered", "executing", "ran completed", "ran failed"}
                    -> "lost"
              [] supplier[r] = "sent completed" -> "told completed"
              [] supplier[r] = "sent failed" -> "told failed"
              [] OTHER -> supplier[r]]
    /\ conn' = [r \in Requests |-> FALSE]
    /\ UNCHANGED <<handlerVars, offers, posted, runs>>

----------------------------------------------------------------------------
(* The cloud (external).                                                   *)

\* A posted task is run by some supplier; the handler hears of it only if it
\* still waits for that post.
CloudRuns(r, p) ==
    /\ posted[r][p] > 0
    /\ posted' = [posted EXCEPT ![r][p] = @ - 1]
    /\ runs' = [runs EXCEPT ![r] = @ + 1]
    /\ reply' = IF pc[r] = p THEN [reply EXCEPT ![r] = "ok"] ELSE reply
    /\ UNCHANGED <<offers, entry, streamed, pc, tries, conn, supplier, sessions, row, report, answer,
                   frames, events, crashes>>

\* It refuses the post: no node, no credits, a bad signature.
CloudRefuses(r, p) ==
    /\ posted[r][p] > 0
    /\ posted' = [posted EXCEPT ![r][p] = @ - 1]
    /\ UNCHANGED <<handlerVars, offers, conn, supplier, sessions, runs, crashes>>

----------------------------------------------------------------------------

\* A command on the endpoint queues for its write lock, behind the accept loop that
\* holds it for reading, and keeps out the readers that come later.
WriterQueues ==
    /\ ~locked /\ locked' = TRUE
    /\ UNCHANGED <<handlerVars, offers, conn, supplier, sessions, posted, runs, crashes>>

\* It has had the lock and leaves: the readers that wait are next.
WriterLeaves ==
    /\ locked /\ locked' = FALSE
    /\ UNCHANGED <<handlerVars, offers, conn, supplier, sessions, posted, runs, crashes>>

----------------------------------------------------------------------------

\* What a handler waits for the endpoint to do.
ReadsEndpoint(r) == (AskForSupplier(r) \/ Punch(r)) /\ UNCHANGED locked

\* The other steps of a waiting handler: every one has an answer, a timeout or, for
\* the read of the result, the idle limit of QUIC.
Handler(r) ==
    /\ \/ OfferReturns(r) \/ WriteTask(r) \/ ReadResult(r) \/ LoseConnection(r)
       \/ RelayReturns(r) \/ DispatchReturns(r)
       \/ \E broken \in BOOLEAN, rest \in Frames \union {"none"} : StreamEnds(r, broken, rest)
    /\ UNCHANGED locked

SupplierStep(r) ==
    TakeOffer(r) \/ AnswerOffer(r) \/ TakeTask(r) \/ FinishTask(r) \/ SendResult(r)
    \/ ForgetSession(r)

Next ==
    \/ \E r \in Requests : ReadsEndpoint(r) \/ Handler(r)
    \/ /\ \/ \E r \in Requests :
            \/ ChatCompletions(r) \/ Messages(r) \/ ShareConsume(r) \/ ClientLeaves(r) \/ SupplierStep(r)
            \/ \E f \in Frames : StreamFrame(r, f)
            \/ \E p \in Posts : CloudRuns(r, p) \/ CloudRefuses(r, p)
          \/ RestartSupplier
       /\ UNCHANGED locked
    \/ WriterQueues \/ WriterLeaves

Spec == Init /\ [][Next]_vars

\* Tokio's RwLock serves its waiters in their order: a reader that waits is let in
\* as soon as the writers ahead of it have left, whoever queues behind it. Nothing
\* makes a writer leave.
FairSpec == Spec /\ \A r \in Requests : WF_vars(Handler(r)) /\ SF_vars(ReadsEndpoint(r))
=============================================================================
