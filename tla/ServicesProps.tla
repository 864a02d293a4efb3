--------------------------- MODULE ServicesProps ---------------------------
(***************************************************************************)
(* The properties of the settlement mirror, the local server, the extension*)
(* bridge, the system log and the registry of providers.                   *)
(***************************************************************************)
EXTENDS Services

SettlementTypeOK ==
    /\ clock \in 1 .. MaxTime
    /\ settledAt \in [Tasks -> 0 .. MaxTime]
    /\ owner \in [Tasks -> Users \union {Local}]
    /\ signedIn \in Users
    /\ row \in [Tasks -> {"none", "uncredited", "credited"}]
    /\ mark \in 0 .. clock
    /\ wallet \in [Users \union {Local} -> Nat \union {Foreign}]
    /\ adjusted \in SUBSET Users /\ asOf \in [Users -> Nat]
    /\ sync \in [Callers -> {"idle", "profile", "balance", "receipts", "page"}]
    /\ began \in [Callers -> Nat] /\ balance \in [Callers -> Nat]
    /\ after \in [Callers -> 0 .. MaxTime]
    /\ syncUser \in [Callers -> Users \union {Local}]
    /\ page \in [Callers -> SUBSET Tasks] /\ cut \in [Callers -> SUBSET Tasks]
    /\ missed \in SUBSET Tasks

LocalServerTypeOK ==
    /\ addr \in Addrs \union {NoAddr} /\ shutdown \in Starts \union {0}
    /\ task \in [Starts -> {"unused", "spawned", "serving", "over"}]
    /\ taskAddr \in [Starts -> Addrs \union {NoAddr}]
    /\ step \in [Commands -> {"idle", "configure", "setAddr", "setShutdown", "clearAddr"}]
    /\ own \in [Commands -> Starts \union {0}]
    /\ target \in [Commands -> Addrs \union {NoAddr}]
    /\ overlapped \in BOOLEAN

WebBridgeTypeOK ==
    /\ listening \in BOOLEAN
    /\ session \in [Sessions -> {"unused", "accepted", "pairing", "open", "over"}]
    /\ outbox \in [Sessions -> Seq(Dispatches)]
    /\ received \in [Sessions -> SUBSET Dispatches]
    /\ paired \in Sessions \union {0} /\ newest \in Sessions \union {0}
    /\ provider \in {"idle", "busy", "offline"}
    /\ pending \in SUBSET Dispatches
    /\ dispatch \in [Dispatches -> {"new", "checked", "sending", "waiting", "done", "error",
                                    "busy", "offline", "timeout"}]
    /\ sender \in [Dispatches -> Sessions \union {0}]
    /\ answered \in SUBSET Dispatches

LogTypeOK ==
    /\ writing \in BOOLEAN
    /\ sent \in 0 .. MaxEntries /\ gone \in SUBSET (1 .. sent)
    /\ {logQueue, buffer, table} \subseteq Seq(1 .. sent)
    /\ Len(buffer) < BatchMax

RegistryTypeOK ==
    /\ offer \in [Revisions -> Offers] /\ revision \in Revisions
    /\ snapshot \in {SnapshotOf(o) : o \in Offers} \union {Nothing}
    /\ refresh \in [Refreshes -> {"idle", "asked", "built", "written", "panel", "loop"}]
    /\ found \in [Refreshes -> {SnapshotOf(o) : o \in Offers} \union {Nothing}]
    /\ told \in [warning : {"unsaid", "unreachable", "stopped", "noProviders", "none"},
                models : SUBSET Models, since : Revisions]
    /\ since \in 0 .. revision /\ told.since \in 0 .. since

\* Every variable of the services has its type; the mark is never ahead of the clock of the
\* cloud, and what the log writer holds is less than a batch.
TypeOK ==
    /\ SettlementTypeOK /\ LocalServerTypeOK /\ WebBridgeTypeOK
    /\ LogTypeOK /\ RegistryTypeOK

\* A task of the supplier is left without the credits of a receipt the mark has passed
\* only for one of these reasons: it was logged after its receipt, its update failed,
\* another user had signed in, the receipt is of a second that had been asked for, or the
\* answer it should have come with had no room for it. However the syncs overlap, in
\* whatever order they save the mark, none is lost otherwise. (The row of a consumed task
\* has an id that no receipt names, so a receipt never credits it.)
CreditsMissedOnlyIf ==
    \A t \in Tasks :
        settledAt[t] # 0 /\ settledAt[t] <= mark /\ row[t] = "uncredited" => t \in missed

\* Unless the command update_wallet_balance has changed it since, the wallet of a user
\* shows a balance the cloud has told of this very user, whoever has signed in meanwhile
\* and whatever receipts have come; and one not older than the first of the syncs that
\* overlapped the last one to write it, although an older answer may overwrite a newer.
WalletIsMirror ==
    \A u \in Users \ adjusted :
        wallet[u] # Foreign /\ asOf[u] <= wallet[u] /\ wallet[u] <= Cardinality(SettledFor(u))

\* While the commands are given one after the other, a server that runs is the one whose
\* handle is kept, under the address that is shown: the next stop ends it. (Commands
\* that overlap lose a handle, and a server that nothing can stop runs on.)
ServerIsStoppable ==
    ~overlapped /\ (\A c \in Commands : step[c] = "idle") =>
        \A k \in Starts : task[k] \in {"spawned", "serving"} =>
            shutdown = k /\ addr = taskAddr[k]

\* However sessions pair, end and outlive a stop, tasks go to the extension that paired
\* last, as long as it is there: the end of a replaced session does not take it away.
PairedIsNewest ==
    /\ paired \in {0, newest}
    /\ newest # 0 /\ session[newest] \in {"pairing", "open"} => paired = newest

\* The map holds a sender for each dispatch that waits, and for no other: neither a result,
\* a late one, a timeout, a lost or replaced session nor a stop leaves one behind or takes
\* one away.
PendingIsWaiting ==
    \A t \in Dispatches :
        t \in pending <=> dispatch[t] = "waiting" /\ t \notin answered

\* The tables of the bridge are true: PairedIsNewest and PendingIsWaiting.
BridgeTablesHold == PairedIsNewest /\ PendingIsWaiting

\* Table, buffer and channel hold, one behind the other and each once, all entries that
\* were sent, in their order, but for those of a batch that failed, those deleted and those
\* of an application that has ended: no other entry is lost, doubled or overtaken, although
\* a failing batch logs its own failure.
LogIsWhole ==
    LET held == table \o buffer \o logQueue
    IN /\ ToSet(held) = 1 .. sent \ gone
       /\ \A i, j \in 1 .. Len(held) : i < j => held[i] < held[j]

\* An older refresh may overwrite a newer one, but no answer of cc-switch outlives the
\* refreshes under way: the models the refresh loop announces and the warnings shown are of a
\* revision not older than when these began, unless cc-switch was not reached. (What
\* share_connect announces is the snapshot as it is, however old.)
RegistryIsFresh ==
    LET Seen == {SnapshotOf(offer[v]) : v \in told.since .. revision}
    IN /\ told.models \subseteq UNION {s.models : s \in Seen}
       /\ told.warning \in {"unsaid", "unreachable"} \union {Diagnosis(s) : s \in Seen}
=============================================================================
