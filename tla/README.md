# SharePlan Desktop in TLA+

SharePlan Desktop (`src/src-tauri/src`) is a Tauri application with two roles.
As a *supplier* it keeps a WebSocket to the cloud, takes tasks (chat
completions) from it, runs them through the local cc-switch proxy and sends the
results back. As a *consumer* it offers an OpenAI-compatible server on
localhost and has the requests answered by suppliers, over a direct QUIC
connection or through the cloud. Credits, statistics and logs are kept in one
SQLite file, `share.db`.

This directory holds TLA+ modules of the parts where order, failure and
concurrency matter, the TLC configurations that check them on small instances,
and TLAPS proofs for every value of their constants. `PROJECT.json` maps each
definition to the lines it stands for.

    tlc -workers 2 -config ShareDaemon_safety.cfg MCShareDaemon.tla
    tlapm ShareDaemonProofs.tla

## Inventory

Paths are under `src/src-tauri/src`.

| Component | State | Operations | What is hard | What makes it correct |
|---|---|---|---|---|
| Supplier daemon: `share/daemon.rs`, `share/client.rs`, `commands/share.rs`, `commands/consume_config.rs` | `Daemon.running`, three join handles, `outgoing_tx`, the channels of each start, `connection_state` | `share_connect`, `share_disconnect`, `set_role`, the connection loop with back-off, task handler, model refresh | commands interleave with a client that gives up by itself; abort detaches subtasks; messages lost in dead or failing connections | one client at a time; a stop stops; tasks run and are answered once; reconnection |
| QUIC endpoint: `p2p/connection.rs`, `p2p/supplier.rs`, `commands/p2p.rs`, `commands/local_server.rs` | `RwLock<Option<Endpoint>>`, `active_connections`, one accept loop per daemon | open, close, query, accept | a guard held over an await, a fair lock, the daemon mutex held over it | commands return; accept loops live as long as the endpoint |
| Task execution: `share/supplier.rs`, `share/mutex.rs`, `share/executor.rs`, `ccswitch/proxy_executor.rs`, `share/protocol.rs` | busy set, `seq`, `final_result`, SSE buffer, event channel | `handle_task`, `handle_task_stream`, the reader of a stream | reader and handler run apart; the upstream may end anywhere | gapless frames, one answer, log row as answered |
| Schema: `database/schema.rs`, `database/mod.rs` | tables, columns, `user_version` | `ShareDb::init` | statements commit one by one; crashes; non-idempotent ALTER | version never ahead of the file; opened means complete |
| Settlement: `database/dao_credits.rs`, `credits/wallet.rs`, `commands/wallet.rs` | `p2p_task_log`, `user_wallet`, `last_settlement_sync` | receipts, wallet sync, corrections of a wallet | repeated and late receipts, answers cut off at a limit, rows that do not exist yet, overlapping syncs of several users | none passed by without a reason; wallets show what the cloud told |
| Statistics: `stats/sync.rs`, `database/dao_sync.rs` | `daily_sync_log` | aggregate, push, mark | crash between push and mark, same-second rows | every task counted once |
| Direct tasks: `p2p/consumer.rs`, `p2p/protocol.rs`, `p2p/session.rs`, `p2p/report.rs`, `p2p/key.rs`, `p2p/crypto.rs`, `p2p/hole_punch.rs` | session store, streams | offer, hole punching, exchange, fall-back | time-outs racing answers, double execution, idle connections | one answer per request; books that tell of it |
| Local server: `local_server/`, `share/consumer.rs`, `commands/consume.rs` | stored address and task; a handler per request | start, stop, role switch; three entries for requests | check then act over awaits; streams that break | one server, its handle kept; the user learns how the task ended |
| Authentication: `auth/`, `commands/auth.rs` | stored session, callback servers | login, logout, refresh, auto-refresh | refresh racing login and logout, connections that outlive their server | the user shown is the one the token is for; no session lost or back without a cause |
| Provider registry: `ccswitch/provider_registry.rs`, `ccswitch/proxy_client.rs`, `commands/providers.rs` | snapshot | refresh, filter, diagnose | an older refresh overwrites a newer | what is shown and announced is not older than the refreshes under way |
| Browser bridge: `share/web_bridge.rs`, `share/web_executor.rs` | paired sender, pending map, states | listen, pair, dispatch, result | replaced sessions, sessions outliving a stop, time-outs | tasks go to the newest session; the pending map holds who waits. `lib.rs` does not wire it |
| System log: `system_log/` | channel, batch, table | dispatch, flush, prune, clear | flush failing and logging its own failure, the end of the application | entries in order, none twice |
| Pricing: `credits/pricing.rs` | price map | replace, save | the lookup by prefix is in hash order; only tests call it | |
| Pool and STUN: `p2p/pool.rs`, `p2p/stun_client.rs` | map of connections | | `ConnectionPool` is constructed nowhere | |
| Stateless parts: `content_filter/`, `share/humanizer.rs`, `share/signing.rs`, `share/fingerprint.rs`, `url_utils.rs` | none | pure functions | | |
| Configuration: `database/dao_config.rs`, `database/dao_share.rs` | rows | single-statement reads and writes | | |
| Frontend: `src/src` (TypeScript) | React state | calls commands, shows events | concurrent calls | |

Components meet in four places: the commands share the daemon mutex
(`ShareState.daemon`); the daemon and the commands share the QUIC endpoint; the
client, the task handler and the cloud are joined by channels; and everything
that lasts goes through `share.db`, one connection behind a mutex. The modules
are cut along these: `ShareDaemon` takes the endpoint as one step that
`P2PEndpoint` opens, and the executor as one step that `TaskStream` opens; what
`ShareDaemon` allows about the order of rows and answers is what `Settlement`
starts from (a receipt may come before its row).

The hazards that follow from this are listed in `PROJECT.json` with the line
where each bites and the properties aimed at it.

## Modules

### ShareDaemon: the supplier daemon

Every successful `Daemon::start` makes a *generation* `g`: a client with its
connection loop, an outgoing queue, a task queue, a task handler and a refresh
loop. Generations meet only in the fields of `Daemon` and in the database.

- `pc`, `op` and `daemonLock` follow each concurrent call of `share_connect`,
  `share_disconnect` and `set_role` from the write of `connection_state` to the
  mutex, through the awaits of `Daemon::stop` (abort the client, abort the
  loops) and out. `EndpointReturns` stands for the endpoint work done with the
  mutex held; `P2PEndpoint` looks into it.
- `client[g]` follows `P2PClient::run`: `LoopTop`, `DialSucceeds`, `DialFails`,
  `SessionLost`, `Retry`, `Write`, `WriteFails`, `ReceiveTask`. A connection may
  die without the node noticing (`ConnectionDies`, `severed`); `Write` then
  succeeds like any other and what it sends is `lost`. `ClientExit` is
  the return of `run` when the request cannot be built, with what the outer task
  does after it (`share/daemon.rs:363-366`).
- `handler[g]` is the task handler: `Reject`, `Execute`, `Executed`, `LogSent`,
  `Cooled`. A plain task is logged, cooled down and answered, a streamed one is
  answered (terminal frame), logged and cooled down. `HandlerEnds`: the channel
  is closed and empty. After a stop the handler is *not* ended, because its
  JoinHandle is only dropped. `HandlerPanics` is the slice of `truncate_str`
  inside a character of an upstream's error text: the handler ends without an
  answer and what is queued for it is `dropped`.
- `refresher[g]` is the model refresh.
- `Report` is the state callback with its `try_write`: the update may be lost.

History variables (`executed`, `delivered`, `lost`, `dropped`) serve the properties only.
Not here: heartbeats (a lost session is nondeterministic), `ConnectionError` and
`TaskFinished` events and the pricing refresh; the P2P offer handler is in
`LocalConsumer`, the receipt handler in `Settlement`. The cloud dispatches a task id once. Inserting a row of a new task is
taken to succeed (`log_and_return` only logs an error); a disk that fails is not
modelled.

### P2PEndpoint: the QUIC endpoint

`queue` is the fair queue of tokio's `RwLock`, `guards` the read guards that
accept loops hold while they await a connection. `AllOps` are the commands that
open, close or query it (`share_connect`, `share_disconnect`, `p2p_start`,
`p2p_stop`, `p2p_get_status`, `start_local_server`, `stop_local_server`) and
`set_role`, which stops the daemon and leaves the endpoint open. `share_connect`
and `share_disconnect` hold `daemonLock` meanwhile, reduced here to the flag and
the generation. `loop[g]`
is `accept_loop`, including its end when it finds no endpoint, and its survival
of a stop. `open` counts accepted connections with a live handler, `active` is
`active_connections`. The handlers of chat requests, `share_consume` and the P2P
offer handler read it as well (`local_addr`, `connect_to_peer`): they hold the
lock for an instant, keep nobody waiting and are not queued here. That they can
be kept waiting themselves is in `LocalConsumer`.

### TaskStream and StreamedTask: one task from dispatch to answer

`StreamedTask` is the contract with the cloud: per task, numbered chunks without
a gap, one answer, nothing after it. `TaskStream` is the code: the handler with
the content filter and the local mutex, the call, and for streamed tasks the
reader that turns server-sent events into `StreamEvent`s. `TaskStreamProps`
instantiates the contract with the frames sent so far and TLC checks it as a
property.

Content is reduced to the number of the delta, usage to which counts were
reported. The reader has one action per kind of event that the two parsers tell
apart; an upstream of format "gemini" yields none, as in the code. A delta whose
character is split over two reads is `garbled` (`ReadPart`, at most `MaxSplits`
times), and `ReadEof` drops a last event that has no end. An error status whose
text is cut inside a character kills the handler (`CallPanics`): it is `"dead"`,
and neither its task nor those behind it are answered. Frames are
handed to the socket by `ShareDaemon`, whose handler takes the steps of this
module in coarser form.

### SchemaMigration: ShareDb::init

The statements of `create_tables` and of each migration in their order, the
version that is read back from the file, and a crash between any two. `release`
remembers the schema version a file came with: 0 is no file, `SCHEMA_VERSION + 1`
the file of a newer program. `wide` are the tables that have `upstream_model`,
the one column added by ALTER. Indexes go with their tables.

### DailySync: statistics of share.db

`stamp` and `logged` are the rows of `p2p_task_log`: `created_at` is read
(`Finish`) before `insert_p2p_task_log` gets the mutex of the connection
(`LogTask`). A `sync_daily_stats` goes through `InsertRows`, `SetLastSync`,
`ReadUnsynced`, `Push` and `MarkSynced`; the mutex is held across a step only
between the two statements of the aggregation. `PushFails` before or after the
cloud has the rows, `SetLastSyncFails` and `Crash` are its error paths. A row is
the set of the tasks it sums, and `KindOf` what the SELECT groups by (date,
direction, model, upstream model). `fresh`, `cut`, `late` and `accepted` are
histories. Not here: the counts themselves, credits that arrive after a task
was summed, a clock that is set back, and a log that cannot be written.

The properties state what the code does keep. Three things it does not: a task
logged in or before the second of the last aggregation is never summed (`late`),
an aggregation cut off before `last_daily_sync` is repeated (`cut`: the table has
no unique index for `INSERT OR REPLACE`), and a row whose answer is lost, or that
two commands read, is pushed twice.

### LocalConsumer: a request of the user

`pc[r]` is where the handler of a request waits, for all three entries:
`/v1/chat/completions` and `share_consume` go through `P2PConsumer::consume`
(`AskForSupplier`, `OfferReturns`, `Punch`, `WriteTask`, `ReadResult`) and fall back to
`Consumer::consume` (`RelayReturns`); the chat handler then posts once more and
streams (`DispatchReturns`), and `/v1/messages` does so from the start.
`StreamFrame` and `StreamEnds` are the two translations of the frames into
events of the OpenAI and of the Anthropic API, with the tail that is sent after
the loop. `supplier[r]` is the other end of the direct task: the offer handler
(`TakeOffer`, `AnswerOffer`), the session store, the exchange (`TakeTask`,
`FinishTask`, `SendResult`, `ForgetSession`) and `RestartSupplier`. The cloud
is external: `CloudRuns` runs a post at any time, once or never. The two steps of
the handler that read the endpoint (`ReadsEndpoint`) wait while `locked`: a
command that queues for the write lock, behind the accept loop, keeps them out,
and nothing in the code makes it leave.

What the code does and the properties allow: a task may run up to three times
(directly, relayed, posted by the handler); a request with `stream: true` is
answered with one JSON body when the direct task succeeds; the tail of an
Anthropic stream may send a second `message_stop`.

### AuthSession: the stored session

A session is a user and a token, tokens are numbered as they are issued, and
`owner` remembers for whom. `Login`, `Logout`, `Refresh`, `BrowserLogin` and the
auto-refresh task read before their await and write after it (`loaded`, `reply`);
`CloudRefreshes` without `RefreshReturns` is a lost answer. A callback server may
outlive its command, and what the command aborts is its accept loop only: a
connection that was made goes on being served (`Serves`, server "aborted"), and
`Callback` may store a session after a logout, or once more the token of its
redirect (`retired` remembers which tokens were given up). `Age` brings the expiry near, `Restart`
ends all tasks. That a refresh which fails clears whatever is stored by then is
in the model, and `SessionMovesWithUser` names it.

### Services: five services that share no state

`Services` EXTENDS the five modules below and follows, in a behaviour, the one
that `active` names, the others staying as they begin. The properties look at one
service each, so this loses nothing; the states of the run are the sum and not
the product of theirs.

- `Settlement`: `HandleReceipt` (`update_task_credits`, then the wallet "local"),
  `sync_wallet` in the steps between its awaits (`SyncWallet`, `ProfileAnswered`,
  `ProfileReturns`, `ReceiptsAnswered`, `ReceiptsReturn`, `SyncFails`), the
  command `update_wallet_balance` (`AdjustWallet`) and `LogTask`. The answer with
  the receipts has room for `PageLimit` of them (100 in the request), in an order
  the request leaves open; `missed` is a history of the five ways in which
  `last_settlement_sync` moves past a row that has no credits. The rows are the
  supplier's: those of a consumed task are stored under a local uuid, so no
  receipt ever credits them. `Foreign` is a balance that no profile has told, as
  the wallet "local" always has; `adjusted`, `asOf` and `began` say which wallets
  show one the cloud has told, and how old it may be.
- `LocalServer`: `start_local_server`, `stop_local_server` and the stop in
  `set_role`, one step for each time one of the two mutexes of the handle is
  taken. Two starts that overlap lose a handle; `overlapped` tells these
  behaviours apart.
- `WebBridge`: listener, pairing, replaced sessions, dispatch with its time-out.
  The old session is not kicked out when another pairs, so its results count.
- `LogPipeline`: the channel, the writer's buffer and the table. `LOG_TX` is a
  static, so the flush for a closed channel never comes (`Relaunch`).
- `ProviderRegistry`: a refresh asks, builds, writes and reads again.
  `RegistryIsFresh` is about what the panel shows and the loop announces;
  `share_connect` announces the snapshot as it is.

## Runs

| Run | Question | Bounds | States |
|---|---|---|---|
| `daemon_safety` | do handles, flag and tasks stay in step, is nothing run or answered twice? | 2 callers (symmetric), 2 starts, a plain and a streamed task, 1 fault, refresh stops at 1 queued message; view and symmetry | 0.7 M |
| `daemon_live` | does it reconnect, answer, log, announce? | 1 caller, 1 start, a streamed and a filtered task, 1 fault, queue 2 | 121 k |
| `endpoint_safety` | is the endpoint safe under its guards? | 2 callers (symmetric), all eight commands, 2 starts, 1 incoming, 1 outgoing connection | 1.0 M |
| `endpoint_lock` | do commands return when peers come? | 2 callers, all eight commands, 1 start, 1 incoming, 1 outgoing connection | 0.15 M |
| `endpoint_quiet` | do commands return when none comes? **violated** | 1 caller, connect and disconnect | |
| `stream` | contract, log row, content, termination | 2 streamed, 1 plain, 1 filtered task, 3 formats, 2 deltas each, 1 split character | 0.3 M |
| `schema` | is an opened database complete, which files fail? | every release, 2 crashes | 1.7 k |
| `schema_fresh` | does a new installation come up? **violated** | no file | |
| `daily_sync` | is every task summed once, is only what was received marked? | 2 commands and 2 of 4 tasks (symmetric), one failed, 2 kinds, 2 seconds, 1 fault | 0.3 M |
| `consume` | how often does a request run, what do books and stream tell, does it end? | 1 request by any entry, 2 rounds of hole punching, 3 frames, 1 restart of the supplier | 25 k |
| `account` | whose session is stored, what takes it away, is an expiring one settled? | 2 commands and the auto-refresh, 2 users, 3 tokens, 1 callback server, restarts | 0.65 M |
| `services` | credits, handle, pairing, log, snapshot | 2 syncs, 2 tasks, 2 users, 2 seconds, 1 receipt to a page; 2 commands, 3 starts, 2 addresses; 2 dispatches, 3 sessions; 5 entries, batches of 2; 2 refreshes, 2 revisions of 5 offers; symmetry | 1.1 M |

Why the bounds suffice: two generations are the least where an old task handler,
refresh loop or stale flag can meet a new daemon, and two callers the least that
interleave; a third adds only another waiter at the same mutex. One fault puts
a message loss at every place of the queue. The endpoint is checked with
the accept loops of two starts, so that an old loop meets a new endpoint, and
for liveness with one; the theorems hold for any number. The view of
`daemon_safety` leaves out the state shown to the interface and two records of
what was sent; no guard reads them and, but for their types, no invariant of
the run. A stream with two deltas has a
first, a last and one between frames; two streamed tasks in a row show what one
leaves behind for the next. Two crashes let a migration be cut off, repeated and
cut off again. In `daily_sync` only the order of a task's second and the last
synced one matters: two seconds give before, equal and after.

In `consume` requests share nothing but the restart of the supplier, so one is
enough; three frames give text before the terminal frame and something after
it, and two rounds of hole punching a repeated one. In `account` three tokens
let a login fall between the read and the write of a refresh and be refreshed
itself; one server is enough for a redirect that comes after its command has
given up, or has returned and aborted it. In `services` two receipts and a page
of one give an answer with room for all, and one without; three starts let a stopped server be followed by two that overlap; three
sessions are an extension, the one that replaces it and one after a stop; five
entries are two batches and a rest, and a batch that fails adds its own;
the five offers are cc-switch not reached, stopped, running with nothing, with an
active target and with a current provider only. The symmetries are used for invariants and the one
action property of `daemon_safety`, never for liveness.

Deadlock is not checked where the program may come to rest: a
stopped daemon, an endpoint nobody asks for, a finished list of tasks, an
answered request.

### What the violated runs show

Each states what a comment of the repository says, quoted in `PROJECT.json`.

- `endpoint_quiet`: `accept_incoming` keeps its read guard while it waits; with
  no peer, `share_disconnect` waits for the write lock for ever and holds the
  daemon mutex.
- `schema_fresh`: on a new file `create_tables` already makes the column that the
  v5 migration adds, `ALTER TABLE` fails and the application does not start.

### What the modules show and no property states

These are in the models, and the properties allow for them:

- `Daemon::stop` leaves the task handler with its queue.
- An answer written to a connection that is already dead is lost; nothing asks
  for an acknowledgement.
- A dial has no time-out, and a panic in `truncate_str` ends the task handler
  while the client goes on accepting tasks.
- An accept loop that is polled before `share_connect` has stored the endpoint
  ends for good.
- A stream that breaks is reported with the event of a normal end; token counts
  of the last events, and a last delta without its end, may be missing; a
  character split over two reads is replaced.
- A request of the consumer waits for the endpoint as long as a command does
  that queues behind the accept loop.
- A connection to a callback server outlives the abort, and may store a session
  after a logout.
- A sync of the wallet that is answered with fewer receipts than there are may
  move the mark past the rest, and no receipt credits the row of a consumed task.
- Calls of `start_local_server` that overlap leave a server that nothing stops.
  The comment on it says "Idempotent: re-starting while running returns the
  existing address" (`commands/local_server.rs:31-32`). That is so once a start has
  stored its address; until then nothing tells a second one that the server is
  running.

## Fairness

`ShareDaemon`: tokio polls runnable tasks and serves its mutex in order, hence
strong fairness for whoever waits for the mutex and weak fairness for each step
that only needs to be polled; a write ends, and so does the executor within the
time-outs of its HTTP client; the refresh finds models again and again (strong fairness of
`RefreshSends`), which is an assumption about cc-switch and needed only for
`StatusFollowsConnection`. Nothing makes `EndpointReturns` fair: `TaskAnswered`
and the rest hold even if a command hangs there. Nothing makes a dial end either:
`connect_async` has no time-out, so `Reconnects` and `TaskAnswered` have the
premise that no dial hangs for ever (`DialsEnd`). `P2PEndpoint`: the same for the
commands and the loop, and connections end; that a peer *comes* is not assumed,
it is the premise of `CommandsReturnIfPeersCome`. `TaskStream`: the handler is
polled and every stream ends or fails within the 600 seconds of its HTTP client.
`LocalConsumer`: weak fairness of `Handler`, each wait of which has an answer, a
time-out of the HTTP client, or the idle limit of QUIC; the supplier and the
cloud owe nothing. The two reads of the endpoint have no time-out. They are
strongly fair because tokio's lock lets its waiters in by their order, which is
of use only when the writers ahead leave: `EveryRequestEnds` has the premise that
the lock is free of them again and again, and `P2PEndpoint` shows that it may
not be (`endpoint_quiet`). `AuthSession`: the interval ticks and the request of the
auto-refresh ends within its 30 seconds. The fairness is strong because a restart
disables both for a while: some run of the application is taken to last that long.
`Settlement` and the other services have safety properties only.

## Proofs

| Module | Theorems | Argument |
|---|---|---|
| `ShareDaemonProofs` | `TypeCorrect`, `OneLiveClient`, `FlagMeansLive`, `OrphansComeFromExits`, `StopsAreComplete`, `AnsweredOnce`, `RowsFollowAnswers`, `NothingIsForgotten` | the inductive `DaemonInv`, `TaskInv` and `FollowInv` |
| `P2PEndpointProofs` | `TypeCorrect`, `AcceptsSafely`, `CounterCovers`, `NobodyWaitsTwice` | guards and loops agree, the counter covers open connections and handshakes (`EndpointInv`); the queue holds who waits (`LockInv`) |
| `TaskStreamProofs` | `TypeCorrect`, `RowsAreTrue`, `ContentIsComplete`, `StreamRefines` | the inductive `StreamInv`; a refinement mapping, step by step |
| `SchemaMigrationProofs` | `TypeCorrect`, `VersionKept`, `OpenComplete`, `FailsOnlyOnKnown` | the inductive `SchemaInv` and `KnownInv` |
| `DailySyncProofs` | `TypeCorrect`, `CountsOnce`, `MissesOnlyLate`, `MarksAreEarned` | the inductive `SyncInv` |
| `AuthSessionProofs` | `TypeCorrect`, `IdentityIsRight`, `SessionsMoveWithUsers` | the inductive `AuthInv` |
| `LocalConsumerProofs` | `TypeCorrect`, `RunsAreBounded`, `BooksAreTrue`, `StreamsTellOutcome` | the inductive `ConsumerInv`, one `Fine` per request; the form of a stream, `StreamInv` |
| `ServicesProofs` | `CreditsAreMissedOnlyIf`, `WalletsMirrorTheCloud`, `ServerCanBeStopped`, `BridgeTablesAreTrue`, `RegistryStaysFresh`, `LogStaysWhole`, `ServicesTypes` | one inductive invariant per service |

`OneLiveClient` is not inductive as stated. `DaemonInv` adds who holds the mutex
at which step (`LockInv`), that every live client is the one `handle` names or
one being aborted (`HandleInv`), that the flag implies it is live
(`RunningMeansLive`), that generations beyond `starts` are untouched
(`FreshInv`), and where a refresh loop may still run without its handle. A start
needs the flag down; with `HandleInv` that means no client is up.
`StopsAreComplete` is the action property of the early return: it needs
`HandleInv` in the state before the step.

`AnsweredOnce` follows a task on its way. `OnceInv` says that it is queued, worked
on or answered in one generation at most, in one of these places at most, and that
none of them holds it once the cloud has its answer. A step moves one task on
(`Moved`) and leaves the others where they are or drops them (`GoneOrSame`); the
lemmas on `Has` and `Once` say what taking the head and appending do to a queue.

`RowsFollowAnswers` and `NothingIsForgotten` are the safety half of the two liveness
properties of this module, `AnsweredIsLogged` and `TaskAnswered`, and no run states them:
they say at every state what those say of the end. A plain task has its row before
its answer is queued, a streamed one right after, and then its handler stands at the
write (`RowOwed`); a task stops being queued, worked on or answered only with an answer
received, one put into a dead or failing connection, a panic of its handler, or its
client gone (`Accounted`). Both need `StageInv`: before a
client has begun it has no task, and a handler that cools down has written its row.
`OneFollows` settles a step of one generation, `QuietFollows` those that leave the handlers alone.

`StreamInv` of `TaskStream` says what the frames of a task look like. The tasks still
on the task channel are untouched, and those the handler is done with have all their
chunks, then the answer that their row names (`OtherTasksInv`). Of the task at
hand (`CurrentInv`), the frames sent, with the deltas on the channel behind them,
are the first `deltas[cur]` chunks while the stream runs (`Running`), and an
answer after them once it has ended (`Ended`); a task whose handler has died has no
frame; what is on the channel after the
deltas carries no content, and nothing follows the end (`TailOfChannel`). The
number the handler gives a chunk is its place because it counts deltas alone.
For `StreamRefines`, `Received` is the mapping: frames without content and
usage. A step of `TaskStream` that emits a frame maps to one `Send` of the
contract (`EmitIsSend`): the invariant supplies that it has the next number and
that no answer is there. All others stutter. A task of `waiting` has no frame,
so taking it up is a stutter as well.

`NobodyWaitsTwice` is about the fair lock. A waiter stands in one place (`Waits`),
and the queue has exactly one request for it of the kind that place asks for;
what makes it hold is that `Leave` takes out every trace of an aborted accept
loop, and that a caller and a generation are never the same name
(`CallerAssumption`). `AppendRequest` and `WithoutRequest` say what asking and
leaving do to a queue. `TypeCorrect` follows, since the queue's type rests on it.

`VersionIsKept` needs the progress of the migration that is running: when
`user_version` is written, the statements of that migration have all been done
and what they did is still there, since no statement removes anything.
`FailsOnlyOnKnown` adds to it that a file of v4 whose launches were never cut off
has just the columns of the statements this launch has run (`KnownInv`).

`CountedOnce` rests on `SummedInv`: a summed task is older than
`last_daily_sync`, or its aggregation is under way, or was cut off; so the next
aggregation, which takes only newer tasks and needs the mutex, finds none of
them. `MissedOnlyIfLate` needs that, while the mutex is held between the two
statements, all completed tasks of the log are summed or late (`LockInv`): only
then may the date move to `now`. `SyncedWasReceived` needs that a command that
marks has been answered (`MarkInv`). The clock runs forward in the model, and
`CountedOnce` would not survive one that is set back.

`IdentityMatchesToken` needs to know what a refresh holds between its read and its
write: `RefreshInv` says that it began with a session of an issued token and that
the answer is for the user of that token. The auto-refresh began with an expiring
one, which is why it can take no other session away unless it began with another;
`SessionsMoveWithUsers` is the action property that follows. Its other half, that a
token once given up comes back only from a redirect, needs that the token of a
refresh answer is new: nobody has stored it, and no other command and no redirect
holds it (`ReplyInv`).

`CreditsMissedOnlyIf` needs that a page holds the receipts after the mark that was
asked for, that `cut` holds those left out of it, and that the rest is of a
second not before the last on the page (`PageInv`), and that the reasons
cover what is at or before any mark, the stored one or one that a sync still
holds in `after` (`MissedInv`). The last part came out of the proof: an
overlapping sync that read less moves the mark back, a receipt of a second that
the other has asked for is then settled, and when that other saves its mark it has
been passed by; with two seconds, as in the run, this cannot happen.
`WalletIsMirror` needs the balance that a sync holds to lie between what was
settled for its user when the first of the syncs that overlap it began, and what
is settled now (`MirrorInv`). That survives whatever the cloud settles since the
count of a user's receipts only grows (`CountsGrow`).

`RunsPerEntry` speaks of runs alone, but a post that the cloud has yet to work
off is a run to come: `RunsInv` bounds runs and posts together by `Ways`, which
grows with the place the handler has reached and with a supplier that may have
taken the direct task. `BooksTellAnswer` needs in addition that a report is only
written for a direct task that was sent back, hence run once and never relayed
(`ReportInv`), and which entries may stand at which step (`PlaceInv`). No step
touches two requests, but for the restart of the supplier, so `SameIsFine` settles
all the others.

`StreamTellsOutcome` counts events and compares places, and no count is inductive.
`Fits` gives the form of what has been sent instead, as a predicate of entry, place
of the handler, frames and events, so that its lemmas apply to the state before
and after a step alike. An OpenAI stream is text with at most one finish reason at
its end, and only for a frame that ended the task. An Anthropic stream without text is one
of six sequences (`Textless`); one with text opens its message and block, has text up to a
place `m` and only endings after it (`TextUpTo`), the reason of a failed task
being at `m + 2` (`FirstReason`), before any that the tail adds. `FormTells` reads
the counts off the form.

In `ServicesProofs` a step of one service leaves the others alone, so each
invariant is inductive by itself. `HandleInv` says who may be between the
spawn of a server and the storing of its handle, `BridgeInv` that a result is held
only for a dispatch that waits or is done, `FoundInv` that what a refresh holds is
of a revision since the refreshes under way began. `LogIsWhole` is inductive for
the concatenation of table, buffer and channel; the lemmas on `Whole` say what
appending an entry and cutting out a part do to it.

Assumptions are the named ASSUMEs of the modules: the sets of tasks are related
as their comments say, bounds are natural numbers, the absent values are no
members, and `Releases` are versions up to one beyond the current.

The types of `SchemaMigration` and `DailySync`, and `VersionIsKept`, are proved
and not run: TLC would check them on a small instance of what holds in general.

Every invariant, every action property and the refinement that the passing runs check
are proved. Model-checked only: liveness under fairness (`Reconnects`, `TaskAnswered`,
`AnsweredIsLogged`, `StatusFollowsConnection`, `CommandsReturnIfPeersCome`,
`EveryTaskAnswered`, `EveryRequestEnds`, `ExpiringIsSettled`), which the provers do
not reach, and the absence of deadlock, which is about ENABLED.

## Not modelled

- Pricing (`credits/pricing.rs`): a map replaced as a whole. Its lookup by prefix
  takes the first match in hash order where its comment speaks of the longest, but
  only tests call it.
- `ConnectionPool` (`p2p/pool.rs`): its check and its insert have a dial in
  between, but nothing constructs one. `stun_client.rs` is byte layout.
- `WalletManager` (`credits/wallet.rs`) and `update_p2p_task_status`: only tests
  call them, so their check-then-subtract cannot be met.
- Heartbeats, the pricing refresh and the listings that only read.
- Stateless conversions: content filter (a verdict in the models), humanizer (a
  finite delay), signing, fingerprint, address rules, request formats, SSE framing
  on bytes, the mapping of upstream configurations to model names.
- Settings that are read and written by one statement each, and the frontend,
  which appears as the callers.

## Plan

What is left to prove lies between the modules: that the task handler of
`ShareDaemon` takes the steps of `TaskStream` in coarser form, and what
`StreamedTask` promises a consumer by itself.
