----------------------------- MODULE Settlement -----------------------------
(***************************************************************************)
(* The local mirror of what the cloud settles: the credits of a row of     *)
(* p2p_task_log and the rows of user_wallet. A receipt comes over the      *)
(* WebSocket of the supplier, where it may be lost or repeated, and again  *)
(* with sync_wallet, which asks for the receipts after last_settlement_sync*)
(* and which panels call without waiting for each other.                   *)
(*                                                                         *)
(* Every receipt is of one credit, so the balance the cloud tells is the   *)
(* number of receipts of the user. What is added to a row of user_wallet   *)
(* makes it a balance that no profile has told, as that of "local" always  *)
(* is. The rows are those of the supplier: the consumer's have ids of its  *)
(* own, which no receipt names.                                            *)
(***************************************************************************)
EXTENDS Naturals, FiniteSets, FiniteSetsExt

CONSTANTS
    Tasks,       \* tasks served or consumed
    Users,
    Local,       \* the user_id "local"
    Callers,     \* calls of sync_wallet that may overlap
    PageLimit,   \* the limit of 100 receipts in an answer
    Foreign,     \* a balance that no profile has told
    MaxTime      \* bound: seconds of the clock of the cloud

ASSUME SettlementAssumption ==
    /\ IsFiniteSet(Tasks) /\ Local \notin Users /\ Foreign \notin Nat
    /\ PageLimit \in Nat \ {0}
    /\ MaxTime \in Nat \ {0}

VARIABLES
    clock,       \* seconds, from 1
    settledAt,   \* timestamp of each receipt, 0 before there is one
    owner,       \* the user it is for
    signedIn,    \* the user of auth_state_v1
    row,         \* p2p_task_log: none, uncredited (credits = 0) or credited
    mark,        \* last_settlement_sync of client_config
    wallet,      \* user_wallet
    adjusted,    \* history: wallets that update_wallet_balance changed since a profile
    asOf,        \* history: what was settled for the user when the syncs began of which
                 \* one wrote the wallet last
    sync,        \* what each sync_wallet awaits
    syncUser,    \* the user it has loaded
    began,       \* history: what was settled for that user when the first of the syncs
                 \* that overlap it began
    balance,     \* the balance of the profile it was answered
    after,       \* the mark it has read
    page,        \* the receipts it was answered
    cut,         \* history: those the answer had no room for
    missed       \* history: tasks without credits that a sync may have passed by

cloudSettles == <<clock, settledAt, owner>>
walletVars == <<wallet, adjusted, asOf>>
syncVars == <<sync, syncUser, began, balance, after, page, cut>>
settlementVars == <<cloudSettles, signedIn, row, mark, walletVars, syncVars, missed>>

SettlementInit ==
    /\ clock = 1
    /\ settledAt = [t \in Tasks |-> 0]
    /\ owner = [t \in Tasks |-> Local]
    /\ signedIn \in Users
    /\ row = [t \in Tasks |-> "none"]
    /\ mark = 0
    /\ wallet = [u \in Users \union {Local} |-> IF u = Local THEN Foreign ELSE 0]
    /\ adjusted = {} /\ asOf = [u \in Users |-> 0]
    /\ sync = [c \in Callers |-> "idle"]
    /\ syncUser = [c \in Callers |-> Local]
    /\ began = [c \in Callers |-> 0] /\ balance = [c \in Callers |-> 0]
    /\ after = [c \in Callers |-> 0] /\ page = [c \in Callers |-> {}]
    /\ cut = [c \in Callers |-> {}]
    /\ missed = {}

----------------------------------------------------------------------------
(* The tasks, the cloud and the WebSocket.                                 *)

\* insert_p2p_task_log; a streamed task is answered, and perhaps settled, before.
LogTask(t) ==
    /\ row[t] = "none"
    /\ row' = [row EXCEPT ![t] = "uncredited"]
    /\ missed' = IF settledAt[t] # 0 THEN missed \union {t} ELSE missed
    /\ UNCHANGED <<cloudSettles, signedIn, mark, walletVars, syncVars>>

\* The cloud (external) settles a task with the user of the node.
Settle(t) ==
    /\ settledAt[t] = 0
    /\ settledAt' = [settledAt EXCEPT ![t] = clock]
    /\ owner' = [owner EXCEPT ![t] = signedIn]
    /\ missed' = IF /\ row[t] = "uncredited"
                    /\ clock <= mark \/ \E c \in Callers : clock <= after[c]
                 THEN missed \union {t} ELSE missed
    /\ UNCHANGED <<clock, signedIn, row, mark, walletVars, syncVars>>

ClockTicks ==
    /\ clock < MaxTime
    /\ clock' = clock + 1
    /\ UNCHANGED <<settledAt, owner, signedIn, row, mark, walletVars, syncVars, missed>>

\* update_task_credits on a set of tasks: rows with credits = 0 are written.
Credit(ts, passed) ==
    /\ row' = [t \in Tasks |-> IF t \in ts /\ row[t] = "uncredited" THEN "credited" ELSE row[t]]
    /\ missed' = {t \in missed \union passed : row'[t] = "uncredited"}

\* update_wallet_balance.
UpdateWallet(u) == wallet' = [wallet EXCEPT ![u] = Foreign]

\* set_wallet_from_cloud: the row is made or overwritten.
SetWalletFromCloud(u, credits) == wallet' = [wallet EXCEPT ![u] = credits]

\* The wallet a receipt is added to, and a faulty variant that takes the wallet sync_wallet
\* mirrors.
ReceiptWalletSigned == signedIn
ReceiptWallet == Local

\* handle_incoming_text and the receipt handler, one channel behind the other: the
\* credits of the task, then the wallet, also of a receipt that came before. The cloud
\* pushes a receipt any time it is connected, perhaps again and again, perhaps never; a
\* statement that fails is as one that was not pushed.
HandleReceipt(t) ==
    /\ settledAt[t] # 0
    /\ Credit({t}, {})
    /\ UpdateWallet(ReceiptWallet)
    /\ UNCHANGED <<cloudSettles, signedIn, mark, adjusted, asOf, syncVars>>

----------------------------------------------------------------------------
(* The wallet panel.                                                       *)

\* The command update_wallet_balance adds what it is given to the wallet it is given.
\* (A wallet without a row is left alone: it is as one that nobody changed.)
AdjustWallet(u) ==
    /\ UpdateWallet(u)
    /\ adjusted' = adjusted \union {u}
    /\ asOf' = [asOf EXCEPT ![u] = 0]
    /\ UNCHANGED <<cloudSettles, signedIn, row, mark, syncVars, missed>>

SwitchUser ==
    /\ signedIn' \in Users \ {signedIn}
    /\ UNCHANGED <<cloudSettles, row, mark, walletVars, syncVars, missed>>

SettledFor(u) == {t \in Tasks : owner[t] = u}

\* The sync is about to write the wallet of the user.
Mirrors(c, u) == sync[c] \in {"profile", "balance"} /\ syncUser[c] = u

\* sync_wallet loads the user and asks for the profile.
SyncWallet(c) ==
    /\ sync[c] = "idle"
    /\ sync' = [sync EXCEPT ![c] = "profile"]
    /\ syncUser' = [syncUser EXCEPT ![c] = signedIn]
    /\ began' = [began EXCEPT ![c] =
            IF \E d \in Callers : Mirrors(d, signedIn)
            THEN began[CHOOSE d \in Callers : Mirrors(d, signedIn)]
            ELSE Cardinality(SettledFor(signedIn))]
    /\ UNCHANGED <<cloudSettles, signedIn, row, mark, walletVars, balance, after, page, cut, missed>>

\* The cloud (external) answers with the profile as it is.
ProfileAnswered(c) ==
    /\ sync[c] = "profile"
    /\ sync' = [sync EXCEPT ![c] = "balance"]
    /\ balance' = [balance EXCEPT ![c] = Cardinality(SettledFor(syncUser[c]))]
    /\ UNCHANGED <<cloudSettles, signedIn, row, mark, walletVars, syncUser, began, after, page, cut, missed>>

\* set_wallet_from_cloud; the mark is read and the receipts after it are asked for.
ProfileReturns(c) ==
    /\ sync[c] = "balance"
    /\ sync' = [sync EXCEPT ![c] = "receipts"]
    /\ SetWalletFromCloud(syncUser[c], balance[c])
    /\ adjusted' = adjusted \ {syncUser[c]}
    /\ asOf' = [asOf EXCEPT ![syncUser[c]] = began[c]]
    /\ after' = [after EXCEPT ![c] = mark]
    /\ began' = [began EXCEPT ![c] = 0] /\ balance' = [balance EXCEPT ![c] = 0]
    /\ UNCHANGED <<cloudSettles, signedIn, row, mark, syncUser, page, cut, missed>>

\* The cloud (external) answers with the receipts of the user after the mark, or with as
\* many of them as the limit of the request allows, in an order the request leaves open.
\* (That it may also ignore the limit gives a small instance answers of both kinds.)
ReceiptsAnswered(c) ==
    /\ sync[c] = "receipts"
    /\ sync' = [sync EXCEPT ![c] = "page"]
    /\ LET new == {t \in SettledFor(syncUser[c]) : settledAt[t] > after[c]}
       IN \E answer \in SUBSET new :
            /\ answer = new \/ Cardinality(answer) = PageLimit
            /\ page' = [page EXCEPT ![c] = answer]
            /\ cut' = [cut EXCEPT ![c] = new \ answer]
    /\ UNCHANGED <<cloudSettles, signedIn, row, mark, walletVars, syncUser, began, balance, after, missed>>

\* What last_settlement_sync becomes: the latest timestamp of the page, and a faulty
\* variant with the time of the sync.
NewMarkNow(c) == clock
NewMark(c) == IF page[c] = {} THEN mark ELSE Max({settledAt[t] : t \in page[c]})

\* sync_wallet is over.
EndSync(c) ==
    /\ sync' = [sync EXCEPT ![c] = "idle"]
    /\ syncUser' = [syncUser EXCEPT ![c] = Local]
    /\ began' = [began EXCEPT ![c] = 0] /\ balance' = [balance EXCEPT ![c] = 0]
    /\ after' = [after EXCEPT ![c] = 0]
    /\ page' = [page EXCEPT ![c] = {}] /\ cut' = [cut EXCEPT ![c] = {}]

\* The receipts a new mark leaves behind without a look at them: those of other users,
\* those of the second of the mark that were issued after the answer, and those the
\* answer had no room for.
PassedBy(c) ==
    LET Unseen == {t \in Tasks :
            settledAt[t] # 0 /\ (owner[t] # syncUser[c] \/ settledAt[t] = NewMark(c))}
    IN cut[c] \union (Unseen \ page[c])

\* The loop over the page: an update that fails is logged and passed over; then the
\* mark, whose write may fail as well.
ReceiptsReturn(c) ==
    /\ sync[c] = "page"
    /\ \E failed \in SUBSET page[c] :
        Credit(page[c] \ failed, failed \union PassedBy(c))
    /\ mark' \in {mark, NewMark(c)}
    /\ EndSync(c)
    /\ UNCHANGED <<cloudSettles, signedIn, walletVars>>

\* Either request fails.
SyncFails(c) ==
    /\ sync[c] # "idle"
    /\ EndSync(c)
    /\ UNCHANGED <<cloudSettles, signedIn, row, mark, walletVars, missed>>

SettlementNext ==
    \/ \E t \in Tasks : LogTask(t) \/ Settle(t) \/ HandleReceipt(t)
    \/ ClockTicks \/ SwitchUser \/ \E u \in Users : AdjustWallet(u)
    \/ \E c \in Callers :
        \/ SyncWallet(c) \/ ProfileAnswered(c) \/ ProfileReturns(c) \/ ReceiptsAnswered(c) \/ ReceiptsReturn(c) \/ SyncFails(c)
=============================================================================
