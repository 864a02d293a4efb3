--------------------------- MODULE ServicesProofs ---------------------------
(***************************************************************************)
(* Proofs about the mirror of the cloud's settlement, the local server,    *)
(* the extension bridge, the system log and the registry of providers, for *)
(* any number of tasks, users, syncs, commands, sessions, dispatches,      *)
(* entries and revisions. Each invariant is about one service and is kept  *)
(* by the steps of that service; those of the others leave it alone.       *)
(***************************************************************************)
EXTENDS ServicesProps, FiniteSetTheorems, SequenceTheorems, TLAPS

(* The mirror of the settlement.                                           *)

\* A non-empty set of numbers up to n has a maximum: the numbers below its elements are
\* 0 .. k - 1 for their count k, and k - 1 is the maximum.
LEMMA MaxOf ==
    ASSUME NEW n \in Nat, NEW S \in SUBSET (0 .. n), S # {}
    PROVE  Max(S) \in S /\ \A y \in S : y <= Max(S)
  <1> DEFINE U == {i \in 0 .. n : \E x \in S : i <= x}
             k == Cardinality(U)
  <1>1. /\ IsFiniteSet(0 .. n) /\ \A i \in Nat : IsFiniteSet(0 .. i) /\ Cardinality(0 .. i) = i + 1
    BY FS_Interval
  <1>2. IsFiniteSet(U) /\ k \in Nat
    BY <1>1, FS_Subset, FS_CardinalityType
  <1>3. S \subseteq U
    OBVIOUS
  <1>4. \A i \in U : \A j \in 0 .. i : j \in U
    OBVIOUS
  <1>5. \A i \in U : i < k
    <2> SUFFICES ASSUME NEW i \in U PROVE i < k
      OBVIOUS
    <2>1. 0 .. i \subseteq U /\ i \in Nat
      BY <1>4
    <2>2. Cardinality(0 .. i) <= k
      BY <1>2, <2>1, FS_Subset
    <2> QED
      BY <1>1, <1>2, <2>1, <2>2
  <1>6. k # 0 /\ k - 1 \in U
    <2>1. k # 0
      BY <1>2, <1>3, FS_EmptySet
    <2>2. SUFFICES ASSUME k - 1 \notin U PROVE FALSE
      BY <2>1
    <2>3. ASSUME NEW i \in U PROVE i < k - 1
      <3>1. i \in Nat /\ i < k
        BY <1>5
      <3>2. i # k - 1
        BY <2>2
      <3> QED
        BY <1>2, <3>1, <3>2
    <2>4. PICK s : s \in S
      OBVIOUS
    <2>5. PICK j \in Nat : j = k - 2
      <3>1. s < k - 1
        BY <1>3, <2>3, <2>4
      <3>2. k - 2 \in Nat
        <4>1. s \in Nat
          BY <2>4
        <4> QED
          BY <1>2, <3>1, <4>1
      <3> QED
        BY <3>2
    <2>6. U \subseteq 0 .. j
      BY <1>2, <2>3, <2>5
    <2>7. k <= Cardinality(0 .. j) /\ Cardinality(0 .. j) = j + 1
      BY <1>1, <2>6, FS_Subset
    <2> QED
      BY <1>2, <2>5, <2>7
  <1>7. PICK x \in S : k - 1 <= x
    BY <1>6
  <1>8. \A y \in S : x >= y
    BY <1>2, <1>3, <1>5, <1>7
  <1> QED
    BY <1>8 DEF Max

----------------------------------------------------------------------------
\* Receipts are dated up to now, and a task without one has no user yet.
DateInv ==
    \A t \in Tasks : settledAt[t] <= clock /\ (settledAt[t] = 0 => owner[t] = Local)

\* A page has receipts after the mark it was asked for; and none that it has not, and that
\* is not among those cut off, is earlier than one it has.
PageInv ==
    \A c \in Callers : sync[c] = "page" => \A p \in page[c] :
        /\ settledAt[p] > after[c]
        /\ \A t \in Tasks \ (page[c] \union cut[c]) :
            settledAt[t] > after[c] /\ owner[t] = syncUser[c] => settledAt[p] <= settledAt[t]

\* What a mark, the one that is stored or one that a sync has read, leaves behind
\* without credits is missed for one of the reasons.
MissedInv ==
    \A t \in Tasks :
        /\ settledAt[t] # 0 /\ row[t] = "uncredited"
        /\ settledAt[t] <= mark \/ \E c \in Callers : settledAt[t] <= after[c]
        => t \in missed

SettlementInv == SettlementTypeOK /\ DateInv /\ PageInv /\ MissedInv

\* The receipts of a user can be counted.
LEMMA Counted ==
    ASSUME SettlementTypeOK, NEW u
    PROVE  SettledFor(u) \subseteq Tasks /\ IsFiniteSet(SettledFor(u)) /\ Cardinality(SettledFor(u)) \in Nat
  BY SettlementAssumption, FS_Subset, FS_CardinalityType DEF SettledFor

\* A step that settles nothing, and leaves the wallets and the pages alone.
LEMMA LogTaskKeepsInv == ASSUME SettlementInv, NEW t \in Tasks, LogTask(t) PROVE SettlementInv'
  <1>1. /\ row[t] = "none" /\ row' = [row EXCEPT ![t] = "uncredited"]
        /\ missed' = IF settledAt[t] # 0 THEN missed \union {t} ELSE missed
        /\ UNCHANGED <<clock, settledAt, owner, signedIn, mark, wallet, adjusted, asOf,
                       sync, syncUser, began, balance, after, page, cut>>
    BY DEF LogTask, cloudSettles, walletVars, syncVars
  <1>2. SettlementTypeOK'
    BY <1>1 DEF SettlementInv, SettlementTypeOK
  <1>3. DateInv' /\ PageInv'
    BY <1>1 DEF SettlementInv, DateInv, PageInv
  <1>4. MissedInv'
    BY <1>1 DEF SettlementInv, SettlementTypeOK, MissedInv
  <1> QED
    BY <1>2, <1>3, <1>4 DEF SettlementInv

\* The cloud settles in the present, so no page is disturbed.
LEMMA SettleKeepsInv == ASSUME SettlementInv, NEW t \in Tasks, Settle(t) PROVE SettlementInv'
  <1>1. /\ settledAt[t] = 0 /\ settledAt' = [settledAt EXCEPT ![t] = clock]
        /\ owner' = [owner EXCEPT ![t] = signedIn]
        /\ missed' = IF /\ row[t] = "uncredited"
                        /\ clock <= mark \/ \E c \in Callers : clock <= after[c]
                     THEN missed \union {t} ELSE missed
        /\ UNCHANGED <<clock, signedIn, row, mark, wallet, adjusted, asOf,
                       sync, syncUser, began, balance, after, page, cut>>
    BY DEF Settle, walletVars, syncVars
  <1>2. SettlementTypeOK'
    BY <1>1, SettlementAssumption DEF SettlementInv, SettlementTypeOK
  <1>3. DateInv'
    BY <1>1, SettlementAssumption DEF SettlementInv, SettlementTypeOK, DateInv
  <1>4. PageInv'
    <2> SUFFICES ASSUME NEW c \in Callers, sync[c] = "page", NEW p \in page[c]
                 PROVE  /\ settledAt'[p] > after[c]
                        /\ \A u \in Tasks \ (page[c] \union cut[c]) :
                            settledAt'[u] > after[c] /\ owner'[u] = syncUser[c]
                                => settledAt'[p] <= settledAt'[u]
      BY <1>1 DEF PageInv
    <2>1. /\ p \in Tasks /\ after[c] \in Nat
          /\ settledAt \in [Tasks -> Nat] /\ owner \in [Tasks -> Users \union {Local}]
      BY SettlementAssumption DEF SettlementInv, SettlementTypeOK
    <2>2. settledAt[p] > after[c] /\ p # t /\ settledAt'[p] = settledAt[p]
      BY <1>1, <2>1 DEF SettlementInv, PageInv
    <2>3. settledAt[p] <= clock
      BY <2>1 DEF SettlementInv, DateInv
    <2>4. settledAt'[t] = clock
      BY <1>1, <2>1
    <2>5. \A u \in Tasks \ {t} : settledAt'[u] = settledAt[u] /\ owner'[u] = owner[u]
      BY <1>1, <2>1
    <2> QED
      BY <2>1, <2>2, <2>3, <2>4, <2>5 DEF SettlementInv, PageInv
  <1>5. MissedInv'
    BY <1>1 DEF SettlementInv, SettlementTypeOK, MissedInv
  <1> QED
    BY <1>2, <1>3, <1>4, <1>5 DEF SettlementInv

\* Credits given, by a receipt or a sync, leave missed what stays without and was missed.
LEMMA Crediting ==
    ASSUME SettlementTypeOK, NEW ts \in SUBSET Tasks, NEW passed \in SUBSET Tasks, Credit(ts, passed)
    PROVE  /\ row' \in [Tasks -> {"none", "uncredited", "credited"}] /\ missed' \in SUBSET Tasks
           /\ \A t \in Tasks : row'[t] = "uncredited" =>
                /\ row[t] = "uncredited" /\ t \notin ts
                /\ t \in missed \union passed => t \in missed'
  BY DEF SettlementTypeOK, Credit

\* A receipt that comes over the WebSocket goes to the wallet "local", which is no user's.
LEMMA HandleReceiptKeepsInv ==
    ASSUME SettlementInv, NEW t \in Tasks, HandleReceipt(t) PROVE SettlementInv'
  <1>1. /\ Credit({t}, {})
        /\ wallet' = [wallet EXCEPT ![Local] = Foreign]
        /\ UNCHANGED <<clock, settledAt, owner, signedIn, mark, adjusted, asOf,
                       sync, syncUser, began, balance, after, page, cut>>
    BY DEF HandleReceipt, UpdateWallet, ReceiptWallet, cloudSettles, syncVars
  <1>2. /\ row' \in [Tasks -> {"none", "uncredited", "credited"}] /\ missed' \in SUBSET Tasks
        /\ \A u \in Tasks : row'[u] = "uncredited" =>
                row[u] = "uncredited" /\ (u \in missed => u \in missed')
    BY <1>1, Crediting DEF SettlementInv
  <1>3. wallet' \in [Users \union {Local} -> Nat \union {Foreign}]
    BY <1>1 DEF SettlementInv, SettlementTypeOK
  <1>4. SettlementTypeOK'
    BY <1>1, <1>2, <1>3 DEF SettlementInv, SettlementTypeOK
  <1>5. DateInv' /\ PageInv'
    BY <1>1 DEF SettlementInv, DateInv, PageInv
  <1>6. MissedInv'
    BY <1>1, <1>2 DEF SettlementInv, MissedInv
  <1> QED
    BY <1>4, <1>5, <1>6 DEF SettlementInv

LEMMA PanelKeepsInv ==
    ASSUME SettlementInv, ClockTicks \/ SwitchUser \/ \E u \in Users : AdjustWallet(u)
    PROVE  SettlementInv'
  <1>1. /\ clock' \in {clock, clock + 1} /\ clock' <= MaxTime /\ signedIn' \in Users
        /\ wallet' \in [Users \union {Local} -> Nat \union {Foreign}]
        /\ adjusted' \in SUBSET Users /\ asOf' \in [Users -> Nat]
        /\ UNCHANGED <<settledAt, owner, row, mark, sync, syncUser, began, balance, after, page, cut, missed>>
    <2>1. /\ clock \in Nat /\ clock <= MaxTime /\ MaxTime \in Nat /\ signedIn \in Users
          /\ wallet \in [Users \union {Local} -> Nat \union {Foreign}]
          /\ adjusted \in SUBSET Users /\ asOf \in [Users -> Nat]
      BY SettlementAssumption DEF SettlementInv, SettlementTypeOK
    <2>2. CASE ClockTicks
      BY <2>1, <2>2 DEF ClockTicks, walletVars, syncVars
    <2>3. CASE SwitchUser
      BY <2>1, <2>3 DEF SwitchUser, cloudSettles, walletVars, syncVars
    <2>4. CASE \E u \in Users : AdjustWallet(u)
      BY <2>1, <2>4 DEF AdjustWallet, UpdateWallet, cloudSettles, syncVars
    <2> QED
      BY <2>2, <2>3, <2>4
  <1>2. SettlementTypeOK' /\ DateInv'
    BY <1>1, SettlementAssumption DEF SettlementInv, SettlementTypeOK, DateInv
  <1>3. PageInv' /\ MissedInv'
    BY <1>1 DEF SettlementInv, PageInv, MissedInv
  <1> QED
    BY <1>2, <1>3 DEF SettlementInv

\* One of the syncs that are about to write the wallet of the user.
LEMMA SomeMirror ==
    ASSUME NEW u, \E d \in Callers : Mirrors(d, u)
    PROVE  LET d == CHOOSE d \in Callers : Mirrors(d, u) IN d \in Callers /\ Mirrors(d, u)
  <1> HIDE DEF Mirrors
  <1> QED
    BY Zenon

LEMMA SyncWalletKeepsInv ==
    ASSUME SettlementInv, NEW c \in Callers, SyncWallet(c) PROVE SettlementInv'
  <1>1. /\ sync[c] = "idle" /\ sync' = [sync EXCEPT ![c] = "profile"]
        /\ syncUser' = [syncUser EXCEPT ![c] = signedIn]
        /\ UNCHANGED <<clock, settledAt, owner, signedIn, row, mark, wallet, adjusted, asOf,
                       balance, after, page, cut, missed>>
    BY DEF SyncWallet, cloudSettles, walletVars
  <1>2. began' \in [Callers -> Nat]
    <2>1. CASE \E d \in Callers : Mirrors(d, signedIn)
      <3> DEFINE d == CHOOSE d \in Callers : Mirrors(d, signedIn)
      <3>1. d \in Callers /\ began' = [began EXCEPT ![c] = began[d]]
        BY <2>1, SomeMirror DEF SyncWallet
      <3> HIDE DEF d
      <3> QED
        BY <3>1 DEF SettlementInv, SettlementTypeOK
    <2>2. CASE ~\E d \in Callers : Mirrors(d, signedIn)
      <3>1. began' = [began EXCEPT ![c] = Cardinality(SettledFor(signedIn))]
        BY <2>2 DEF SyncWallet
      <3> QED
        BY <3>1, Counted DEF SettlementInv, SettlementTypeOK
    <2> QED
      BY <2>1, <2>2
  <1>3. SettlementTypeOK'
    BY <1>1, <1>2 DEF SettlementInv, SettlementTypeOK
  <1>4. PageInv'
    BY <1>1 DEF SettlementInv, SettlementTypeOK, PageInv
  <1>5. DateInv' /\ MissedInv'
    BY <1>1 DEF SettlementInv, DateInv, MissedInv
  <1> QED
    BY <1>3, <1>4, <1>5 DEF SettlementInv

LEMMA ProfileAnsweredKeepsInv ==
    ASSUME SettlementInv, NEW c \in Callers, ProfileAnswered(c) PROVE SettlementInv'
  <1>1. /\ sync[c] = "profile" /\ sync' = [sync EXCEPT ![c] = "balance"]
        /\ balance' = [balance EXCEPT ![c] = Cardinality(SettledFor(syncUser[c]))]
        /\ UNCHANGED <<clock, settledAt, owner, signedIn, row, mark, wallet, adjusted, asOf,
                       syncUser, began, after, page, cut, missed>>
    BY DEF ProfileAnswered, cloudSettles, walletVars
  <1>2. balance' \in [Callers -> Nat]
    BY <1>1, Counted DEF SettlementInv, SettlementTypeOK
  <1>3. SettlementTypeOK'
    BY <1>1, <1>2 DEF SettlementInv, SettlementTypeOK
  <1>4. PageInv'
    BY <1>1 DEF SettlementInv, SettlementTypeOK, PageInv
  <1>5. DateInv' /\ MissedInv'
    BY <1>1 DEF SettlementInv, DateInv, MissedInv
  <1> QED
    BY <1>3, <1>4, <1>5 DEF SettlementInv

LEMMA ProfileReturnsKeepsInv ==
    ASSUME SettlementInv, NEW c \in Callers, ProfileReturns(c) PROVE SettlementInv'
  <1>1. /\ sync[c] = "balance" /\ sync' = [sync EXCEPT ![c] = "receipts"]
        /\ wallet' = [wallet EXCEPT ![syncUser[c]] = balance[c]]
        /\ adjusted' = adjusted \ {syncUser[c]}
        /\ asOf' = [asOf EXCEPT ![syncUser[c]] = began[c]]
        /\ after' = [after EXCEPT ![c] = mark]
        /\ began' = [began EXCEPT ![c] = 0] /\ balance' = [balance EXCEPT ![c] = 0]
        /\ UNCHANGED <<clock, settledAt, owner, signedIn, row, mark, syncUser, page, cut, missed>>
    BY DEF ProfileReturns, SetWalletFromCloud, cloudSettles
  <1>2. began[c] \in Nat /\ balance[c] \in Nat /\ mark \in 0 .. MaxTime
    BY SettlementAssumption DEF SettlementInv, SettlementTypeOK
  <1>3. /\ wallet' \in [Users \union {Local} -> Nat \union {Foreign}]
        /\ adjusted' \in SUBSET Users /\ asOf' \in [Users -> Nat]
    BY <1>1, <1>2 DEF SettlementInv, SettlementTypeOK
  <1>4. began' \in [Callers -> Nat] /\ balance' \in [Callers -> Nat]
    BY <1>1, <1>2 DEF SettlementInv, SettlementTypeOK
  <1>5. SettlementTypeOK'
    BY <1>1, <1>2, <1>3, <1>4 DEF SettlementInv, SettlementTypeOK
  <1>6. DateInv'
    BY <1>1 DEF SettlementInv, DateInv
  <1>7. PageInv'
    BY <1>1 DEF SettlementInv, SettlementTypeOK, PageInv
  <1>8. MissedInv'
    BY <1>1 DEF SettlementInv, SettlementTypeOK, MissedInv
  <1> QED
    BY <1>5, <1>6, <1>7, <1>8 DEF SettlementInv

\* What an answer leaves out is cut off.
LEMMA ReceiptsAnsweredKeepsInv ==
    ASSUME SettlementInv, NEW c \in Callers, ReceiptsAnswered(c) PROVE SettlementInv'
  <1>1. PICK answer \in SUBSET {t \in Tasks : owner[t] = syncUser[c] /\ settledAt[t] > after[c]} :
            /\ page' = [page EXCEPT ![c] = answer]
            /\ cut' = [cut EXCEPT ![c] =
                   {t \in Tasks : owner[t] = syncUser[c] /\ settledAt[t] > after[c]} \ answer]
    <2>1. {t \in SettledFor(syncUser[c]) : settledAt[t] > after[c]}
            = {t \in Tasks : owner[t] = syncUser[c] /\ settledAt[t] > after[c]}
      BY DEF SettledFor
    <2> QED
      BY <2>1 DEF ReceiptsAnswered
  <1>2. /\ sync[c] = "receipts" /\ sync' = [sync EXCEPT ![c] = "page"]
        /\ UNCHANGED <<clock, settledAt, owner, signedIn, row, mark, wallet, adjusted, asOf,
                       syncUser, began, balance, after, missed>>
    BY DEF ReceiptsAnswered, cloudSettles, walletVars
  <1>3. SettlementTypeOK'
    BY <1>1, <1>2 DEF SettlementInv, SettlementTypeOK
  <1>4. PageInv'
    <2> SUFFICES ASSUME NEW d \in Callers, sync'[d] = "page", NEW p \in page'[d]
                 PROVE  /\ settledAt[p] > after[d]
                        /\ \A t \in Tasks \ (page'[d] \union cut'[d]) :
                            settledAt[t] > after[d] /\ owner[t] = syncUser[d]
                                => settledAt[p] <= settledAt[t]
      BY <1>2 DEF PageInv
    <2>1. CASE d = c
      BY <1>1, <1>2, <2>1 DEF SettlementInv, SettlementTypeOK
    <2>2. CASE d # c
      BY <1>1, <1>2, <2>2 DEF SettlementInv, SettlementTypeOK, PageInv
    <2> QED
      BY <2>1, <2>2
  <1>5. DateInv' /\ MissedInv'
    BY <1>2 DEF SettlementInv, DateInv, MissedInv
  <1> QED
    BY <1>3, <1>4, <1>5 DEF SettlementInv

\* What is known when a sync has returned.
LEMMA Ending ==
    ASSUME SettlementInv, NEW c \in Callers, EndSync(c)
    PROVE  /\ sync' \in [Callers -> {"idle", "profile", "balance", "receipts", "page"}]
           /\ syncUser' \in [Callers -> Users \union {Local}]
           /\ began' \in [Callers -> Nat] /\ balance' \in [Callers -> Nat]
           /\ after' \in [Callers -> 0 .. MaxTime]
           /\ page' \in [Callers -> SUBSET Tasks] /\ cut' \in [Callers -> SUBSET Tasks]
           /\ \A d \in Callers : after'[d] <= after[d]
           /\ UNCHANGED <<settledAt, owner>> => PageInv'
  <1>1. /\ sync' = [sync EXCEPT ![c] = "idle"] /\ syncUser' = [syncUser EXCEPT ![c] = Local]
        /\ began' = [began EXCEPT ![c] = 0] /\ balance' = [balance EXCEPT ![c] = 0]
        /\ after' = [after EXCEPT ![c] = 0]
        /\ page' = [page EXCEPT ![c] = {}] /\ cut' = [cut EXCEPT ![c] = {}]
    BY DEF EndSync
  <1>2. /\ sync' \in [Callers -> {"idle", "profile", "balance", "receipts", "page"}]
        /\ syncUser' \in [Callers -> Users \union {Local}]
        /\ began' \in [Callers -> Nat] /\ balance' \in [Callers -> Nat]
    BY <1>1 DEF SettlementInv, SettlementTypeOK
  <1>3. /\ after' \in [Callers -> 0 .. MaxTime]
        /\ page' \in [Callers -> SUBSET Tasks] /\ cut' \in [Callers -> SUBSET Tasks]
        /\ \A d \in Callers : after'[d] <= after[d]
    BY <1>1, SettlementAssumption DEF SettlementInv, SettlementTypeOK
  <1>4. UNCHANGED <<settledAt, owner>> => PageInv'
    BY <1>1 DEF SettlementInv, SettlementTypeOK, PageInv
  <1> QED
    BY <1>2, <1>3, <1>4

LEMMA SyncFailsKeepsInv ==
    ASSUME SettlementInv, NEW c \in Callers, SyncFails(c) PROVE SettlementInv'
  <1>1. /\ EndSync(c)
        /\ UNCHANGED <<clock, settledAt, owner, signedIn, row, mark, wallet, adjusted, asOf, missed>>
    BY DEF SyncFails, cloudSettles, walletVars
  <1>2. SettlementTypeOK' /\ PageInv'
    BY <1>1, Ending DEF SettlementInv, SettlementTypeOK
  <1>3. \A t \in Tasks, d \in Callers : settledAt[t] <= after'[d] => settledAt[t] <= after[d]
    BY <1>1, <1>2, Ending, SettlementAssumption DEF SettlementInv, SettlementTypeOK
  <1>4. DateInv' /\ MissedInv'
    BY <1>1, <1>3 DEF SettlementInv, DateInv, MissedInv
  <1> QED
    BY <1>2, <1>4 DEF SettlementInv

\* The mark moves, if at all, to the latest receipt of the page. What it passes is on the
\* page and credited, or its update has failed; or it is not on the page and of another
\* user, of the second of the mark, or cut off.
LEMMA ReceiptsReturnKeepsInv ==
    ASSUME SettlementInv, NEW c \in Callers, ReceiptsReturn(c) PROVE SettlementInv'
  <1>1. PICK failed \in SUBSET page[c] : Credit(page[c] \ failed, failed \union PassedBy(c))
    BY DEF ReceiptsReturn
  <1>2. /\ sync[c] = "page" /\ mark' \in {mark, NewMark(c)} /\ EndSync(c)
        /\ UNCHANGED <<clock, settledAt, owner, signedIn, wallet, adjusted, asOf>>
    BY DEF ReceiptsReturn, cloudSettles, walletVars
  <1>3. /\ page[c] \subseteq Tasks /\ failed \subseteq Tasks /\ PassedBy(c) \subseteq Tasks
        /\ settledAt \in [Tasks -> Nat] /\ mark \in Nat /\ clock \in Nat
    BY <1>1, SettlementAssumption DEF SettlementInv, SettlementTypeOK, PassedBy
  <1>4. /\ row' \in [Tasks -> {"none", "uncredited", "credited"}] /\ missed' \in SUBSET Tasks
        /\ \A t \in Tasks : row'[t] = "uncredited" =>
                /\ row[t] = "uncredited" /\ t \notin page[c] \ failed
                /\ t \in missed \union (failed \union PassedBy(c)) => t \in missed'
    BY <1>1, <1>3, Crediting DEF SettlementInv
  <1>5. page[c] # {} => \E p \in page[c] :
            NewMark(c) = settledAt[p] /\ \A q \in page[c] : settledAt[q] <= settledAt[p]
    <2> SUFFICES ASSUME page[c] # {} PROVE \E p \in page[c] :
            NewMark(c) = settledAt[p] /\ \A q \in page[c] : settledAt[q] <= settledAt[p]
      OBVIOUS
    <2> DEFINE S == {settledAt[t] : t \in page[c]}
    <2>1. S \in SUBSET (0 .. clock) /\ S # {}
      BY <1>3 DEF SettlementInv, DateInv
    <2>2. Max(S) \in S /\ \A y \in S : y <= Max(S)
      BY <1>3, <2>1, MaxOf
    <2>3. NewMark(c) = Max(S)
      BY DEF NewMark
    <2> QED
      BY <2>2, <2>3
  <1>6. NewMark(c) \in 0 .. clock
    BY <1>3, <1>5 DEF NewMark, SettlementInv, SettlementTypeOK, DateInv
  <1>7. SettlementTypeOK' /\ PageInv'
    BY <1>2, <1>4, <1>6, Ending DEF SettlementInv, SettlementTypeOK
  <1>8. DateInv'
    BY <1>2 DEF SettlementInv, DateInv
  <1>9. MissedInv'
    <2> SUFFICES ASSUME NEW t \in Tasks, settledAt[t] # 0, row'[t] = "uncredited",
                        settledAt[t] <= mark' \/ \E d \in Callers : settledAt[t] <= after'[d]
                 PROVE  t \in missed'
      BY <1>2 DEF MissedInv
    <2>1. row[t] = "uncredited" /\ t \notin page[c] \ failed
      BY <1>4
    <2>2. CASE settledAt[t] <= mark \/ \E d \in Callers : settledAt[t] <= after[d]
      BY <1>4, <2>1, <2>2 DEF SettlementInv, MissedInv
    <2>3. CASE ~(settledAt[t] <= mark) /\ ~\E d \in Callers : settledAt[t] <= after[d]
      <3>1. \A d \in Callers : after'[d] <= after[d] /\ after[d] \in Nat /\ after'[d] \in Nat
        BY <1>2, <1>7, Ending, SettlementAssumption DEF SettlementInv, SettlementTypeOK
      <3>2. mark' = NewMark(c) /\ mark' # mark /\ settledAt[t] <= NewMark(c)
        BY <1>2, <1>3, <2>3, <3>1
      <3>3. PICK p \in page[c] : NewMark(c) = settledAt[p]
        BY <1>5, <3>2 DEF NewMark
      <3>4. settledAt[t] > after[c]
        BY <1>3, <2>3, <3>1
      <3>5. CASE t \in page[c]
        BY <1>4, <2>1, <3>5
      <3>6. CASE t \notin page[c] /\ (owner[t] # syncUser[c] \/ t \in cut[c])
        BY <1>4, <3>6 DEF PassedBy
      <3>7. CASE t \notin page[c] \union cut[c] /\ owner[t] = syncUser[c]
        <4>1. settledAt[p] <= settledAt[t]
          BY <1>2, <3>3, <3>4, <3>7 DEF SettlementInv, PageInv
        <4>2. settledAt[t] = NewMark(c)
          BY <1>3, <3>2, <3>3, <4>1
        <4> QED
          BY <1>4, <3>7, <4>2 DEF PassedBy
      <3> QED
        BY <3>5, <3>6, <3>7
    <2> QED
      BY <2>2, <2>3
  <1> QED
    BY <1>7, <1>8, <1>9 DEF SettlementInv

LEMMA SettlementStepKeepsInv == ASSUME SettlementInv, [SettlementNext]_settlementVars PROVE SettlementInv'
  <1>1. CASE \E t \in Tasks : LogTask(t) \/ Settle(t) \/ HandleReceipt(t)
    BY <1>1, LogTaskKeepsInv, SettleKeepsInv, HandleReceiptKeepsInv
  <1>2. CASE ClockTicks \/ SwitchUser \/ \E u \in Users : AdjustWallet(u)
    BY <1>2, PanelKeepsInv
  <1>3. CASE \E c \in Callers : \/ SyncWallet(c) \/ ProfileAnswered(c) \/ ProfileReturns(c)
                               \/ ReceiptsAnswered(c) \/ ReceiptsReturn(c) \/ SyncFails(c)
    BY <1>3, SyncWalletKeepsInv, ProfileAnsweredKeepsInv, ProfileReturnsKeepsInv,
       ReceiptsAnsweredKeepsInv, ReceiptsReturnKeepsInv, SyncFailsKeepsInv
  <1>4. CASE UNCHANGED settlementVars
    <2>1. UNCHANGED <<clock, settledAt, owner, signedIn, row, mark, wallet, adjusted, asOf,
                      sync, syncUser, began, balance, after, page, cut, missed>>
      BY <1>4 DEF settlementVars, cloudSettles, walletVars, syncVars
    <2>2. SettlementTypeOK'
      BY <2>1 DEF SettlementInv, SettlementTypeOK
    <2>3. DateInv' /\ PageInv' /\ MissedInv'
      BY <2>1 DEF SettlementInv, DateInv, PageInv, MissedInv
    <2> QED
      BY <2>2, <2>3 DEF SettlementInv
  <1> QED
    BY <1>1, <1>2, <1>3, <1>4 DEF SettlementNext

LEMMA SettlementInitInv == SettlementInit => SettlementInv
  <1> SUFFICES ASSUME SettlementInit PROVE SettlementInv
    OBVIOUS
  <1>1. SettlementTypeOK
    <2>1. /\ clock \in 1 .. MaxTime /\ mark \in 0 .. clock
          /\ settledAt \in [Tasks -> 0 .. MaxTime] /\ after \in [Callers -> 0 .. MaxTime]
      BY SettlementAssumption DEF SettlementInit
    <2>2. /\ owner \in [Tasks -> Users \union {Local}] /\ signedIn \in Users
          /\ row \in [Tasks -> {"none", "uncredited", "credited"}]
          /\ missed \in SUBSET Tasks
      BY DEF SettlementInit
    <2>3. /\ wallet \in [Users \union {Local} -> Nat \union {Foreign}]
          /\ adjusted \in SUBSET Users /\ asOf \in [Users -> Nat]
      BY DEF SettlementInit
    <2>4. /\ sync \in [Callers -> {"idle", "profile", "balance", "receipts", "page"}]
          /\ syncUser \in [Callers -> Users \union {Local}]
          /\ began \in [Callers -> Nat] /\ balance \in [Callers -> Nat]
          /\ page \in [Callers -> SUBSET Tasks] /\ cut \in [Callers -> SUBSET Tasks]
      BY DEF SettlementInit
    <2> QED
      BY <2>1, <2>2, <2>3, <2>4 DEF SettlementTypeOK
  <1>2. DateInv /\ PageInv /\ MissedInv
    BY SettlementAssumption DEF SettlementInit, DateInv, PageInv, MissedInv
  <1> QED
    BY <1>1, <1>2 DEF SettlementInv

\* The steps of the other services leave the settlement alone.
LEMMA OnlySettlement == [Next]_serviceVars => [SettlementNext]_settlementVars
  BY DEF serviceVars, Next, SettlementStep, LocalServerStep, WebBridgeStep, LogStep, RegistryStep

LEMMA SettlementHolds == Spec => []SettlementInv
  <1>1. Init => SettlementInv
    BY SettlementInitInv DEF Init
  <1>2. SettlementInv /\ [Next]_serviceVars => SettlementInv'
    BY OnlySettlement, SettlementStepKeepsInv
  <1> QED
    BY <1>1, <1>2, PTL DEF Spec

----------------------------------------------------------------------------
\* A sync that is about to write the wallet of a user began when no more was settled than
\* is now, and what it has been told is in between.
BalanceInv ==
    \A c \in Callers :
        /\ sync[c] \in {"profile", "balance"} => syncUser[c] \in Users
        /\ \A u \in Users : Mirrors(c, u) =>
            /\ began[c] <= Cardinality(SettledFor(u))
            /\ sync[c] = "balance" => began[c] <= balance[c] /\ balance[c] <= Cardinality(SettledFor(u))

MirrorInv == BalanceInv /\ WalletIsMirror

\* The cloud takes no receipt back and gives none to another user.
LEMMA CountsGrow ==
    ASSUME SettlementInv, [SettlementNext]_settlementVars, NEW u \in Users
    PROVE  /\ Cardinality(SettledFor(u)) \in Nat /\ Cardinality(SettledFor(u)') \in Nat
           /\ Cardinality(SettledFor(u)) <= Cardinality(SettledFor(u)')
  <1>1. IsFiniteSet(SettledFor(u)') /\ Cardinality(SettledFor(u)') \in Nat
    <2>1. SettledFor(u)' \subseteq Tasks
      BY DEF SettledFor
    <2> QED
      BY <2>1, SettlementAssumption, FS_Subset, FS_CardinalityType
  <1>2. Cardinality(SettledFor(u)) \in Nat
    BY Counted DEF SettlementInv
  <1>3. \A t \in Tasks : owner[t] = u => owner'[t] = u
    <2>1. CASE \E t \in Tasks : Settle(t)
      <3>1. PICK t \in Tasks : settledAt[t] = 0 /\ owner' = [owner EXCEPT ![t] = signedIn]
        BY <2>1 DEF Settle
      <3>2. owner[t] # u
        BY <3>1, SettlementAssumption DEF SettlementInv, DateInv
      <3> QED
        BY <3>1, <3>2 DEF SettlementInv, SettlementTypeOK
    <2>2. CASE ~\E t \in Tasks : Settle(t)
      <3>1. owner' = owner
        BY <2>2 DEF SettlementNext, LogTask, HandleReceipt, ClockTicks, SwitchUser, AdjustWallet,
           SyncWallet, ProfileAnswered, ProfileReturns, ReceiptsAnswered, ReceiptsReturn, SyncFails,
           cloudSettles, settlementVars
      <3> QED
        BY <3>1
    <2> QED
      BY <2>1, <2>2
  <1>4. SettledFor(u) \subseteq SettledFor(u)'
    BY <1>3 DEF SettledFor
  <1> QED
    BY <1>1, <1>2, <1>4, FS_Subset

\* A step that writes no wallet of a user, and neither begins nor answers a profile.
LEMMA OthersKeepMirror ==
    ASSUME SettlementInv, MirrorInv, [SettlementNext]_settlementVars,
           adjusted' = adjusted, asOf' = asOf, \A u \in Users : wallet'[u] = wallet[u],
           \A c \in Callers :
               \/ sync'[c] \notin {"profile", "balance"}
               \/ /\ sync'[c] = sync[c] /\ syncUser'[c] = syncUser[c]
                  /\ began'[c] = began[c] /\ balance'[c] = balance[c]
    PROVE  MirrorInv'
  <1>1. BalanceInv'
    <2>1. ASSUME NEW c \in Callers, NEW u \in Users, Mirrors(c, u)'
          PROVE  /\ began'[c] <= Cardinality(SettledFor(u)')
                 /\ sync'[c] = "balance" =>
                        began'[c] <= balance'[c] /\ balance'[c] <= Cardinality(SettledFor(u)')
      <3>1. /\ sync'[c] = sync[c] /\ syncUser'[c] = syncUser[c]
            /\ began'[c] = began[c] /\ balance'[c] = balance[c] /\ Mirrors(c, u)
        BY <2>1 DEF Mirrors
      <3>2. /\ began[c] <= Cardinality(SettledFor(u))
            /\ sync[c] = "balance" => began[c] <= balance[c] /\ balance[c] <= Cardinality(SettledFor(u))
        BY <3>1 DEF MirrorInv, BalanceInv
      <3>3. began[c] \in Nat /\ balance[c] \in Nat
        BY DEF SettlementInv, SettlementTypeOK
      <3> QED
        BY <3>1, <3>2, <3>3, CountsGrow
    <2>2. \A c \in Callers : sync'[c] \in {"profile", "balance"} => syncUser'[c] \in Users
      BY DEF MirrorInv, BalanceInv
    <2> QED
      BY <2>1, <2>2 DEF BalanceInv
  <1>2. WalletIsMirror'
    <2>1. ASSUME NEW u \in Users \ adjusted
          PROVE  wallet'[u] # Foreign /\ asOf'[u] <= wallet'[u] /\ wallet'[u] <= Cardinality(SettledFor(u)')
      <3>1. wallet[u] # Foreign /\ asOf[u] <= wallet[u] /\ wallet[u] <= Cardinality(SettledFor(u))
        BY DEF MirrorInv, WalletIsMirror
      <3>2. wallet[u] \in Nat
        BY <3>1 DEF SettlementInv, SettlementTypeOK
      <3> QED
        BY <3>1, <3>2, CountsGrow
    <2> QED
      BY <2>1 DEF WalletIsMirror
  <1> QED
    BY <1>1, <1>2 DEF MirrorInv

LEMMA AdjustWalletKeepsMirror ==
    ASSUME SettlementInv, MirrorInv, NEW v \in Users, AdjustWallet(v) PROVE MirrorInv'
  <1>1. /\ wallet' = [wallet EXCEPT ![v] = Foreign] /\ adjusted' = adjusted \union {v}
        /\ asOf' = [asOf EXCEPT ![v] = 0]
        /\ UNCHANGED <<owner, sync, syncUser, began, balance>>
    BY DEF AdjustWallet, UpdateWallet, cloudSettles, syncVars
  <1>2. BalanceInv'
    BY <1>1 DEF MirrorInv, BalanceInv, Mirrors, SettledFor
  <1>3. WalletIsMirror'
    <2>1. ASSUME NEW u \in Users \ adjusted'
          PROVE  wallet'[u] # Foreign /\ asOf'[u] <= wallet'[u] /\ wallet'[u] <= Cardinality(SettledFor(u)')
      <3>1. u # v /\ u \in Users \ adjusted
        BY <1>1
      <3>2. wallet'[u] = wallet[u] /\ asOf'[u] = asOf[u]
        BY <1>1, <3>1 DEF SettlementInv, SettlementTypeOK
      <3>3. SettledFor(u)' = SettledFor(u)
        BY <1>1 DEF SettledFor
      <3> QED
        BY <3>1, <3>2, <3>3 DEF MirrorInv, WalletIsMirror
    <2> QED
      BY <2>1 DEF WalletIsMirror
  <1> QED
    BY <1>2, <1>3 DEF MirrorInv

\* A sync that joins others began with them, and so not after what is settled.
LEMMA SyncWalletKeepsMirror ==
    ASSUME SettlementInv, MirrorInv, NEW c \in Callers, SyncWallet(c) PROVE MirrorInv'
  <1>1. /\ sync[c] = "idle" /\ sync' = [sync EXCEPT ![c] = "profile"]
        /\ syncUser' = [syncUser EXCEPT ![c] = signedIn]
        /\ UNCHANGED <<owner, wallet, adjusted, asOf, balance>>
    BY DEF SyncWallet, cloudSettles, walletVars
  <1>2. signedIn \in Users
    BY DEF SettlementInv, SettlementTypeOK
  <1>3. PICK n \in Nat : began' = [began EXCEPT ![c] = n] /\ n <= Cardinality(SettledFor(signedIn))
    <2>1. CASE \E d \in Callers : Mirrors(d, signedIn)
      <3> DEFINE d == CHOOSE d \in Callers : Mirrors(d, signedIn)
      <3>1. d \in Callers /\ Mirrors(d, signedIn) /\ began' = [began EXCEPT ![c] = began[d]]
        BY <2>1, SomeMirror DEF SyncWallet
      <3> HIDE DEF d
      <3>2. began[d] \in Nat
        BY <3>1 DEF SettlementInv, SettlementTypeOK
      <3>3. began[d] <= Cardinality(SettledFor(signedIn))
        BY <1>2, <3>1 DEF MirrorInv, BalanceInv
      <3> QED
        BY <3>1, <3>2, <3>3
    <2>2. CASE ~\E d \in Callers : Mirrors(d, signedIn)
      <3>1. began' = [began EXCEPT ![c] = Cardinality(SettledFor(signedIn))]
        BY <2>2 DEF SyncWallet
      <3>2. PICK n \in Nat : n = Cardinality(SettledFor(signedIn))
        BY Counted DEF SettlementInv
      <3>3. began' = [began EXCEPT ![c] = n] /\ n <= Cardinality(SettledFor(signedIn))
        BY <3>1, <3>2
      <3> QED
        BY <3>3
    <2> QED
      BY <2>1, <2>2
  <1>4. BalanceInv'
    <2>1. ASSUME NEW d \in Callers, NEW u \in Users, Mirrors(d, u)'
          PROVE  /\ began'[d] <= Cardinality(SettledFor(u)')
                 /\ sync'[d] = "balance" =>
                        began'[d] <= balance'[d] /\ balance'[d] <= Cardinality(SettledFor(u)')
      <3>1. SettledFor(u)' = SettledFor(u)
        BY <1>1 DEF SettledFor
      <3>2. CASE d = c
        <4>1. sync'[c] = "profile" /\ u = signedIn /\ began'[c] = n
          BY <1>1, <1>3, <2>1, <3>2 DEF SettlementInv, SettlementTypeOK, Mirrors
        <4> QED
          BY <1>3, <3>1, <3>2, <4>1
      <3>3. CASE d # c
        <4>1. Mirrors(d, u) /\ sync'[d] = sync[d] /\ began'[d] = began[d] /\ balance'[d] = balance[d]
          BY <1>1, <1>3, <2>1, <3>3 DEF SettlementInv, SettlementTypeOK, Mirrors
        <4> QED
          BY <3>1, <4>1 DEF MirrorInv, BalanceInv
      <3> QED
        BY <3>2, <3>3
    <2>2. \A d \in Callers : sync'[d] \in {"profile", "balance"} => syncUser'[d] \in Users
      BY <1>1, <1>2 DEF SettlementInv, SettlementTypeOK, MirrorInv, BalanceInv
    <2> QED
      BY <2>1, <2>2 DEF BalanceInv
  <1>5. WalletIsMirror'
    BY <1>1 DEF MirrorInv, WalletIsMirror, SettledFor
  <1> QED
    BY <1>4, <1>5 DEF MirrorInv

\* What the cloud tells is what is settled.
LEMMA ProfileAnsweredKeepsMirror ==
    ASSUME SettlementInv, MirrorInv, NEW c \in Callers, ProfileAnswered(c) PROVE MirrorInv'
  <1>1. /\ sync[c] = "profile" /\ sync' = [sync EXCEPT ![c] = "balance"]
        /\ balance' = [balance EXCEPT ![c] = Cardinality(SettledFor(syncUser[c]))]
        /\ UNCHANGED <<owner, wallet, adjusted, asOf, syncUser, began>>
    BY DEF ProfileAnswered, cloudSettles, walletVars
  <1>2. BalanceInv'
    <2>1. ASSUME NEW d \in Callers, NEW u \in Users, Mirrors(d, u)'
          PROVE  /\ began'[d] <= Cardinality(SettledFor(u)')
                 /\ sync'[d] = "balance" =>
                        began'[d] <= balance'[d] /\ balance'[d] <= Cardinality(SettledFor(u)')
      <3>1. SettledFor(u)' = SettledFor(u) /\ Cardinality(SettledFor(u)) \in Nat
        BY <1>1, Counted DEF SettledFor, SettlementInv
      <3>2. Mirrors(d, u)
        BY <1>1, <2>1 DEF SettlementInv, SettlementTypeOK, Mirrors
      <3>3. began[d] <= Cardinality(SettledFor(u))
        BY <3>2 DEF MirrorInv, BalanceInv
      <3>4. CASE d = c
        <4>1. balance'[c] = Cardinality(SettledFor(u))
          BY <1>1, <3>2, <3>4 DEF SettlementInv, SettlementTypeOK, Mirrors
        <4> QED
          BY <1>1, <3>1, <3>3, <3>4, <4>1
      <3>5. CASE d # c
        <4>1. sync'[d] = sync[d] /\ balance'[d] = balance[d]
          BY <1>1, <3>5 DEF SettlementInv, SettlementTypeOK
        <4> QED
          BY <1>1, <3>1, <3>2, <4>1 DEF MirrorInv, BalanceInv
      <3> QED
        BY <3>4, <3>5
    <2>2. \A d \in Callers : sync'[d] \in {"profile", "balance"} => syncUser'[d] \in Users
      BY <1>1 DEF SettlementInv, SettlementTypeOK, MirrorInv, BalanceInv
    <2> QED
      BY <2>1, <2>2 DEF BalanceInv
  <1>3. WalletIsMirror'
    BY <1>1 DEF MirrorInv, WalletIsMirror, SettledFor
  <1> QED
    BY <1>2, <1>3 DEF MirrorInv

\* The wallet becomes what the sync has been told.
LEMMA ProfileReturnsKeepsMirror ==
    ASSUME SettlementInv, MirrorInv, NEW c \in Callers, ProfileReturns(c) PROVE MirrorInv'
  <1>1. /\ sync[c] = "balance" /\ sync' = [sync EXCEPT ![c] = "receipts"]
        /\ wallet' = [wallet EXCEPT ![syncUser[c]] = balance[c]]
        /\ adjusted' = adjusted \ {syncUser[c]}
        /\ asOf' = [asOf EXCEPT ![syncUser[c]] = began[c]]
        /\ began' = [began EXCEPT ![c] = 0] /\ balance' = [balance EXCEPT ![c] = 0]
        /\ UNCHANGED <<owner, syncUser>>
    BY DEF ProfileReturns, SetWalletFromCloud, cloudSettles
  <1>2. \A u : SettledFor(u)' = SettledFor(u)
    BY <1>1 DEF SettledFor
  <1>3. BalanceInv'
    <2>1. ASSUME NEW d \in Callers, sync'[d] \in {"profile", "balance"}
          PROVE  /\ d # c /\ sync'[d] = sync[d] /\ began'[d] = began[d] /\ balance'[d] = balance[d]
      BY <1>1, <2>1 DEF SettlementInv, SettlementTypeOK
    <2>2. ASSUME NEW d \in Callers, NEW u \in Users, Mirrors(d, u)'
          PROVE  /\ began'[d] <= Cardinality(SettledFor(u)')
                 /\ sync'[d] = "balance" =>
                        began'[d] <= balance'[d] /\ balance'[d] <= Cardinality(SettledFor(u)')
      <3>1. sync'[d] \in {"profile", "balance"} /\ syncUser'[d] = u
        BY <2>2 DEF Mirrors
      <3>2. sync'[d] = sync[d] /\ began'[d] = began[d] /\ balance'[d] = balance[d]
        BY <2>1, <3>1
      <3>3. Mirrors(d, u)
        BY <1>1, <3>1, <3>2 DEF Mirrors
      <3> QED
        BY <1>2, <3>2, <3>3 DEF MirrorInv, BalanceInv
    <2>3. \A d \in Callers : sync'[d] \in {"profile", "balance"} => syncUser'[d] \in Users
      BY <1>1, <2>1 DEF MirrorInv, BalanceInv
    <2> QED
      BY <2>2, <2>3 DEF BalanceInv
  <1>4. WalletIsMirror'
    <2>1. ASSUME NEW u \in Users \ adjusted'
          PROVE  wallet'[u] # Foreign /\ asOf'[u] <= wallet'[u] /\ wallet'[u] <= Cardinality(SettledFor(u)')
      <3>1. CASE u = syncUser[c]
        <4>1. wallet'[u] = balance[c] /\ asOf'[u] = began[c] /\ balance[c] \in Nat
          BY <1>1, <3>1 DEF SettlementInv, SettlementTypeOK
        <4>2. Mirrors(c, u)
          BY <1>1, <3>1 DEF Mirrors
        <4>3. began[c] <= balance[c] /\ balance[c] <= Cardinality(SettledFor(u))
          BY <1>1, <4>2 DEF MirrorInv, BalanceInv
        <4> QED
          BY <1>2, <4>1, <4>3, SettlementAssumption
      <3>2. CASE u # syncUser[c]
        <4>1. wallet'[u] = wallet[u] /\ asOf'[u] = asOf[u] /\ u \notin adjusted
          BY <1>1, <3>2 DEF SettlementInv, SettlementTypeOK
        <4> QED
          BY <1>2, <4>1 DEF MirrorInv, WalletIsMirror
      <3> QED
        BY <3>1, <3>2
    <2> QED
      BY <2>1 DEF WalletIsMirror
  <1> QED
    BY <1>3, <1>4 DEF MirrorInv

LEMMA MirrorStep ==
    ASSUME SettlementInv, MirrorInv, [SettlementNext]_settlementVars PROVE MirrorInv'
  <1>1. CASE \E t \in Tasks : LogTask(t) \/ Settle(t)
    <2>1. UNCHANGED <<wallet, adjusted, asOf, sync, syncUser, began, balance>>
      BY <1>1 DEF LogTask, Settle, walletVars, syncVars
    <2> QED
      BY <2>1, OthersKeepMirror
  <1>2. CASE \E t \in Tasks : HandleReceipt(t)
    <2>1. /\ wallet' = [wallet EXCEPT ![Local] = Foreign]
          /\ UNCHANGED <<adjusted, asOf, sync, syncUser, began, balance>>
      BY <1>2 DEF HandleReceipt, UpdateWallet, ReceiptWallet, syncVars
    <2>2. \A u \in Users : wallet'[u] = wallet[u]
      BY <2>1, SettlementAssumption DEF SettlementInv, SettlementTypeOK
    <2> QED
      BY <2>1, <2>2, OthersKeepMirror
  <1>3. CASE ClockTicks \/ SwitchUser \/ UNCHANGED settlementVars
    <2>1. UNCHANGED <<wallet, adjusted, asOf, sync, syncUser, began, balance>>
      BY <1>3 DEF ClockTicks, SwitchUser, settlementVars, walletVars, syncVars
    <2> QED
      BY <2>1, OthersKeepMirror
  <1>4. CASE \E u \in Users : AdjustWallet(u)
    BY <1>4, AdjustWalletKeepsMirror
  <1>5. CASE \E c \in Callers : SyncWallet(c) \/ ProfileAnswered(c) \/ ProfileReturns(c)
    BY <1>5, SyncWalletKeepsMirror, ProfileAnsweredKeepsMirror, ProfileReturnsKeepsMirror
  <1>6. CASE \E c \in Callers : ReceiptsAnswered(c) \/ ReceiptsReturn(c) \/ SyncFails(c)
    <2>1. PICK c \in Callers : ReceiptsAnswered(c) \/ ReceiptsReturn(c) \/ SyncFails(c)
      BY <1>6
    <2>2. UNCHANGED <<wallet, adjusted, asOf>>
      BY <2>1 DEF ReceiptsAnswered, ReceiptsReturn, SyncFails, walletVars
    <2>3. \A d \in Callers : \/ sync'[d] \notin {"profile", "balance"}
                             \/ /\ sync'[d] = sync[d] /\ syncUser'[d] = syncUser[d]
                                /\ began'[d] = began[d] /\ balance'[d] = balance[d]
      <3>1. CASE ReceiptsAnswered(c)
        <4>1. sync' = [sync EXCEPT ![c] = "page"] /\ UNCHANGED <<syncUser, began, balance>>
          BY <3>1 DEF ReceiptsAnswered
        <4> QED
          BY <4>1 DEF SettlementInv, SettlementTypeOK
      <3>2. CASE EndSync(c)
        BY <3>2 DEF EndSync, SettlementInv, SettlementTypeOK
      <3> QED
        BY <2>1, <3>1, <3>2 DEF ReceiptsReturn, SyncFails
    <2> QED
      BY <2>2, <2>3, OthersKeepMirror
  <1> QED
    BY <1>1, <1>2, <1>3, <1>4, <1>5, <1>6 DEF SettlementNext

LEMMA MirrorInitInv == SettlementInit => MirrorInv
  <1> SUFFICES ASSUME SettlementInit PROVE MirrorInv
    OBVIOUS
  <1>1. BalanceInv
    BY DEF SettlementInit, BalanceInv, Mirrors
  <1>2. WalletIsMirror
    <2>1. ASSUME NEW u \in Users
          PROVE  wallet[u] # Foreign /\ asOf[u] <= wallet[u] /\ wallet[u] <= Cardinality(SettledFor(u))
      <3>1. wallet[u] = 0 /\ asOf[u] = 0 /\ Foreign # 0
        BY SettlementAssumption DEF SettlementInit
      <3>2. SettledFor(u) = {}
        BY SettlementAssumption DEF SettlementInit, SettledFor
      <3> QED
        BY <3>1, <3>2, FS_EmptySet
    <2> QED
      BY <2>1 DEF WalletIsMirror
  <1> QED
    BY <1>1, <1>2 DEF MirrorInv

----------------------------------------------------------------------------
\* However the syncs of however many users overlap, and however small the part of the
\* receipts an answer has room for, a receipt the mark has passed is credited to its row
\* unless one of the stated reasons holds.
THEOREM CreditsAreMissedOnlyIf == Spec => []CreditsMissedOnlyIf
  <1>1. SettlementInv => CreditsMissedOnlyIf
    BY DEF SettlementInv, MissedInv, CreditsMissedOnlyIf
  <1> QED
    BY <1>1, SettlementHolds, PTL

\* However the syncs of however many users overlap and users change between them, a wallet
\* the panel has not changed has a balance of its user, not older than the overlapping
\* syncs that wrote it last; the receipts of the WebSocket do not reach it.
THEOREM WalletsMirrorTheCloud == Spec => []WalletIsMirror
  <1>1. Init => SettlementInv /\ MirrorInv
    BY SettlementInitInv, MirrorInitInv DEF Init
  <1>2. SettlementInv /\ MirrorInv /\ [Next]_serviceVars => (SettlementInv /\ MirrorInv)'
    BY OnlySettlement, SettlementStepKeepsInv, MirrorStep
  <1>3. MirrorInv => WalletIsMirror
    BY DEF MirrorInv
  <1> QED
    BY <1>1, <1>2, <1>3, PTL DEF Spec

\* The variables of the settlement keep their types.
THEOREM SettlementTypes == Spec => []SettlementTypeOK
  <1>1. SettlementInv => SettlementTypeOK
    BY DEF SettlementInv
  <1> QED
    BY <1>1, SettlementHolds, PTL

----------------------------------------------------------------------------
(* The local server.                                                       *)

Runs(k) == task[k] \in {"spawned", "serving"}

\* A start knows its address, and so does a task that runs.
TargetInv ==
    /\ \A c \in Commands : step[c] \in {"configure", "setAddr", "setShutdown"} => target[c] \in Addrs
    /\ \A k \in Starts : Runs(k) => taskAddr[k] \in Addrs

\* Without overlap a start is alone; it spawns its task, and a stop clears the address,
\* only while no task runs; and a task that runs is the one whose handle is kept, or is
\* about to be.
HandleInv ==
    ~overlapped =>
        /\ \A c, d \in Commands :
            c # d /\ step[c] \in {"configure", "setAddr", "setShutdown"} => step[d] = "idle"
        /\ \A c \in Commands : step[c] \in {"configure", "clearAddr"} => \A k \in Starts : ~Runs(k)
        /\ \A k \in Starts : Runs(k) =>
            \/ shutdown = k /\ addr = taskAddr[k] /\ \A c \in Commands : step[c] \notin {"setAddr", "setShutdown"}
            \/ \E c \in Commands :
                /\ step[c] \in {"setAddr", "setShutdown"} /\ own[c] = k /\ target[c] = taskAddr[k]
                /\ step[c] = "setShutdown" => addr = target[c]

LocalInv == LocalServerTypeOK /\ TargetInv /\ HandleInv

LEMMA LocalInitInv == LocalInit => LocalInv
  BY LocalAssumption DEF LocalInit, LocalInv, LocalServerTypeOK, TargetInv, HandleInv, Runs

LEMMA StartServerKeepsInv == ASSUME LocalInv, NEW c \in Commands, StartServer(c) PROVE LocalInv'
  <1>1. PICK a \in Addrs : target' = [target EXCEPT ![c] = a]
    BY DEF StartServer
  <1>2. /\ step[c] = "idle" /\ addr = NoAddr /\ step' = [step EXCEPT ![c] = "configure"]
        /\ overlapped' = (overlapped \/ ~Alone(c))
        /\ UNCHANGED <<addr, shutdown, task, taskAddr, own>>
    BY DEF StartServer, Go
  <1>3. LocalServerTypeOK' /\ TargetInv'
    BY <1>1, <1>2 DEF LocalInv, LocalServerTypeOK, TargetInv, Runs, Alone
  <1>4. HandleInv'
    <2> SUFFICES ASSUME ~overlapped' PROVE HandleInv'
      BY DEF HandleInv
    <2>1. ~overlapped /\ \A d \in Commands \ {c} : step[d] = "idle" /\ step'[d] = "idle"
      BY <1>2 DEF LocalInv, LocalServerTypeOK, Alone
    <2>2. \A k \in Starts : ~Runs(k)
      BY <1>2, <2>1, LocalAssumption DEF LocalInv, TargetInv, HandleInv
    <2> QED
      BY <1>2, <2>1, <2>2 DEF HandleInv, Runs
  <1> QED
    BY <1>3, <1>4 DEF LocalInv

LEMMA ConfigureKeepsInv == ASSUME LocalInv, NEW c \in Commands, Configure(c) PROVE LocalInv'
  <1>1. step[c] = "configure" /\ UNCHANGED <<addr, shutdown, overlapped>>
    BY DEF Configure
  <1>2. CASE \E k \in Starts :
            /\ task' = [task EXCEPT ![k] = "spawned"]
            /\ taskAddr' = [taskAddr EXCEPT ![k] = target[c]]
            /\ own' = [own EXCEPT ![c] = k]
            /\ step' = [step EXCEPT ![c] = "setAddr"]
            /\ UNCHANGED target
    <2>1. PICK k \in Starts :
            /\ task' = [task EXCEPT ![k] = "spawned"]
            /\ taskAddr' = [taskAddr EXCEPT ![k] = target[c]]
            /\ own' = [own EXCEPT ![c] = k]
            /\ step' = [step EXCEPT ![c] = "setAddr"]
            /\ UNCHANGED target
      BY <1>2
    <2>2. LocalServerTypeOK' /\ TargetInv'
      BY <1>1, <2>1 DEF LocalInv, LocalServerTypeOK, TargetInv, Runs
    <2>3. HandleInv'
      <3> SUFFICES ASSUME ~overlapped PROVE HandleInv'
        BY <1>1 DEF HandleInv
      <3>1. \A d \in Commands \ {c} : step[d] = "idle" /\ step'[d] = "idle"
        BY <1>1, <2>1 DEF LocalInv, LocalServerTypeOK, HandleInv
      <3>2. \A j \in Starts \ {k} : task'[j] \notin {"spawned", "serving"}
        BY <1>1, <2>1 DEF LocalInv, LocalServerTypeOK, HandleInv, Runs
      <3>3. own'[c] = k /\ target'[c] = taskAddr'[k] /\ step'[c] = "setAddr"
        BY <2>1 DEF LocalInv, LocalServerTypeOK
      <3> QED
        BY <1>1, <3>1, <3>2, <3>3 DEF HandleInv, Runs
    <2> QED
      BY <2>2, <2>3 DEF LocalInv
  <1>3. CASE /\ step' = [step EXCEPT ![c] = "idle"]
             /\ target' = [target EXCEPT ![c] = NoAddr]
             /\ UNCHANGED <<task, taskAddr, own>>
    <2>1. LocalServerTypeOK' /\ TargetInv'
      BY <1>1, <1>3 DEF LocalInv, LocalServerTypeOK, TargetInv, Runs
    <2>2. HandleInv'
      BY <1>1, <1>3 DEF LocalInv, LocalServerTypeOK, HandleInv, Runs
    <2> QED
      BY <2>1, <2>2 DEF LocalInv
  <1> QED
    BY <1>2, <1>3 DEF Configure, Go

\* A task that binds or ends does not run if it did not run before.
LEMMA TaskKeepsInv ==
    ASSUME LocalInv, NEW k \in Starts, Bind(k) \/ ServerFails(k) PROVE LocalInv'
  <1>1. /\ Runs(k) /\ \E s \in {"serving", "over"} : task' = [task EXCEPT ![k] = s]
        /\ UNCHANGED <<addr, shutdown, taskAddr, step, own, target, overlapped>>
    BY DEF Bind, ServerFails, Runs
  <1>2. LocalServerTypeOK'
    BY <1>1 DEF LocalInv, LocalServerTypeOK
  <1>3. \A j \in Starts : Runs(j)' => Runs(j)
    BY <1>1 DEF LocalInv, LocalServerTypeOK, Runs
  <1>4. TargetInv' /\ HandleInv'
    BY <1>1, <1>3 DEF LocalInv, TargetInv, HandleInv
  <1> QED
    BY <1>2, <1>4 DEF LocalInv

LEMMA SetAddrKeepsInv == ASSUME LocalInv, NEW c \in Commands, SetAddr(c) PROVE LocalInv'
  <1>1. /\ step[c] = "setAddr" /\ addr' = target[c] /\ step' = [step EXCEPT ![c] = "setShutdown"]
        /\ UNCHANGED <<shutdown, task, taskAddr, own, target, overlapped>>
    BY DEF SetAddr, Go
  <1>2. LocalServerTypeOK' /\ TargetInv'
    BY <1>1 DEF LocalInv, LocalServerTypeOK, TargetInv, Runs
  <1>3. HandleInv'
    BY <1>1 DEF LocalInv, LocalServerTypeOK, HandleInv, Runs
  <1> QED
    BY <1>2, <1>3 DEF LocalInv

LEMMA SetShutdownKeepsInv == ASSUME LocalInv, NEW c \in Commands, SetShutdown(c) PROVE LocalInv'
  <1>1. /\ step[c] = "setShutdown" /\ shutdown' = own[c] /\ own' = [own EXCEPT ![c] = 0]
        /\ target' = [target EXCEPT ![c] = NoAddr] /\ step' = [step EXCEPT ![c] = "idle"]
        /\ UNCHANGED <<addr, task, taskAddr, overlapped>>
    BY DEF SetShutdown, Go
  <1>2. LocalServerTypeOK' /\ TargetInv'
    BY <1>1 DEF LocalInv, LocalServerTypeOK, TargetInv, Runs
  <1>3. HandleInv'
    <2> SUFFICES ASSUME ~overlapped PROVE HandleInv'
      BY <1>1 DEF HandleInv
    <2>1. \A d \in Commands : step'[d] = "idle"
      BY <1>1 DEF LocalInv, LocalServerTypeOK, HandleInv
    <2>2. \A d \in Commands \ {c} : step[d] = "idle"
      BY <1>1 DEF LocalInv, HandleInv
    <2>3. \A k \in Starts : Runs(k) => own[c] = k /\ target[c] = taskAddr[k] /\ addr = target[c]
      BY <1>1, <2>2 DEF LocalInv, HandleInv
    <2> QED
      BY <1>1, <2>1, <2>3 DEF HandleInv, Runs
  <1> QED
    BY <1>2, <1>3 DEF LocalInv

LEMMA TakeShutdownKeepsInv == ASSUME LocalInv, NEW c \in Commands, TakeShutdown(c) PROVE LocalInv'
  <1>1. /\ step[c] = "idle" /\ step' = [step EXCEPT ![c] = "clearAddr"] /\ shutdown' = 0
        /\ task' = [k \in Starts |-> IF k = shutdown THEN "over" ELSE task[k]]
        /\ overlapped' = (overlapped \/ Starting)
        /\ UNCHANGED <<addr, taskAddr, own, target>>
    BY DEF TakeShutdown, Aborted, Go
  <1>2. LocalServerTypeOK' /\ TargetInv'
    BY <1>1 DEF LocalInv, LocalServerTypeOK, TargetInv, Runs, Starting
  <1>3. HandleInv'
    <2> SUFFICES ASSUME ~overlapped' PROVE HandleInv'
      BY DEF HandleInv
    <2>1. ~overlapped /\ \A d \in Commands : step[d] \notin {"configure", "setAddr", "setShutdown"}
      BY <1>1 DEF Starting
    <2>2. \A d \in Commands : step'[d] \notin {"configure", "setAddr", "setShutdown"}
      BY <1>1, <2>1 DEF LocalInv, LocalServerTypeOK
    <2>3. \A k \in Starts : Runs(k) => shutdown = k
      BY <2>1 DEF LocalInv, HandleInv
    <2>4. \A k \in Starts : ~Runs(k)'
      BY <1>1, <2>3 DEF Runs
    <2> QED
      BY <2>2, <2>4 DEF HandleInv
  <1> QED
    BY <1>2, <1>3 DEF LocalInv

LEMMA ClearAddrKeepsInv == ASSUME LocalInv, NEW c \in Commands, ClearAddr(c) PROVE LocalInv'
  <1>1. /\ step[c] = "clearAddr" /\ step' = [step EXCEPT ![c] = "idle"] /\ addr' = NoAddr
        /\ UNCHANGED <<shutdown, task, taskAddr, own, target, overlapped>>
    BY DEF ClearAddr, Go
  <1>2. LocalServerTypeOK' /\ TargetInv'
    BY <1>1 DEF LocalInv, LocalServerTypeOK, TargetInv, Runs
  <1>3. HandleInv'
    BY <1>1 DEF LocalInv, LocalServerTypeOK, HandleInv, Runs
  <1> QED
    BY <1>2, <1>3 DEF LocalInv

LEMMA LocalStepKeepsInv == ASSUME LocalInv, [LocalNext]_localVars PROVE LocalInv'
  <1>1. CASE LocalNext
    BY <1>1, StartServerKeepsInv, ConfigureKeepsInv, TaskKeepsInv, SetAddrKeepsInv,
       SetShutdownKeepsInv, TakeShutdownKeepsInv, ClearAddrKeepsInv DEF LocalNext
  <1>2. CASE UNCHANGED localVars
    BY <1>2 DEF localVars, LocalInv, LocalServerTypeOK, TargetInv, HandleInv, Runs
  <1> QED
    BY <1>1, <1>2

\* While start_local_server and stop_local_server do not overlap, a server that runs has
\* the handle and the address the next stop uses, for any number of commands and starts.
THEOREM ServerCanBeStopped == Spec => []ServerIsStoppable
  <1>1. Init => LocalInv
    BY LocalInitInv DEF Init
  <1>2. LocalInv /\ [Next]_serviceVars => LocalInv'
    <2>1. [Next]_serviceVars => [LocalNext]_localVars
      BY DEF serviceVars, Next, SettlementStep, LocalServerStep, WebBridgeStep, LogStep, RegistryStep
    <2> QED
      BY <2>1, LocalStepKeepsInv
  <1>3. LocalInv => ServerIsStoppable
    BY DEF LocalInv, HandleInv, ServerIsStoppable, Runs
  <1> QED
    BY <1>1, <1>2, <1>3, PTL DEF Spec

----------------------------------------------------------------------------
(* The extension bridge.                                                   *)

\* A result is held only for a dispatch that waits for it or has had it.
BridgeInv ==
    /\ WebBridgeTypeOK
    /\ BridgeTablesHold
    /\ \A t \in answered : dispatch[t] \in {"waiting", "done"}

LEMMA BridgeInitInv == BridgeInit => BridgeInv
  <1> SUFFICES ASSUME BridgeInit PROVE BridgeInv
    OBVIOUS
  <1>1. WebBridgeTypeOK
    <2>1. outbox \in [Sessions -> Seq(Dispatches)]
      <3>1. <<>> \in Seq(Dispatches)
        OBVIOUS
      <3> QED
        BY <3>1 DEF BridgeInit
    <2>2. /\ session \in [Sessions -> {"unused", "accepted", "pairing", "open", "over"}]
          /\ received \in [Sessions -> SUBSET Dispatches]
      BY DEF BridgeInit
    <2>3. /\ dispatch \in [Dispatches -> {"new", "checked", "sending", "waiting", "done", "error",
                                          "busy", "offline", "timeout"}]
          /\ sender \in [Dispatches -> Sessions \union {0}]
      BY DEF BridgeInit
    <2> QED
      BY <2>1, <2>2, <2>3 DEF BridgeInit, WebBridgeTypeOK
  <1>2. BridgeTablesHold
    BY DEF BridgeInit, BridgeTablesHold, PairedIsNewest, PendingIsWaiting
  <1> QED
    BY <1>1, <1>2 DEF BridgeInit, BridgeInv

\* The listener: a stop clears the tables, and no dispatch is under way.
LEMMA ListenerKeepsInv ==
    ASSUME BridgeInv, StartBridge \/ StopBridge \/ \E k \in Sessions : Accept(k) PROVE BridgeInv'
  <1>1. CASE StartBridge
    BY <1>1 DEF StartBridge, sessionVars, dispatchVars, BridgeInv, WebBridgeTypeOK, BridgeTablesHold,
                PairedIsNewest, PendingIsWaiting
  <1>2. CASE StopBridge
    BY <1>2 DEF StopBridge, NoDispatch, BridgeInv, WebBridgeTypeOK, BridgeTablesHold, PairedIsNewest,
                PendingIsWaiting, Sessions
  <1>3. ASSUME NEW k \in Sessions, Accept(k) PROVE BridgeInv'
    BY <1>3, BridgeAssumption DEF Accept, dispatchVars, BridgeInv, WebBridgeTypeOK, BridgeTablesHold,
                PairedIsNewest, PendingIsWaiting, Sessions
  <1> QED
    BY <1>1, <1>2, <1>3

\* The steps of a session that pairs or ends: only the newest is taken away.
LEMMA SessionKeepsInv ==
    ASSUME BridgeInv, NEW k \in Sessions, Pair(k) \/ PairFails(k) \/ PairedSent(k) \/ SessionEnds(k)
    PROVE  BridgeInv'
  <1>1. UNCHANGED <<listening, received, provider, pending, dispatch, sender, answered>>
    BY DEF Pair, PairFails, PairedSent, SessionEnds, Over, dispatchVars
  <1>2. /\ session' \in [Sessions -> {"unused", "accepted", "pairing", "open", "over"}]
        /\ outbox' \in [Sessions -> Seq(Dispatches)]
    <2>1. CASE Over(k)
      BY <2>1 DEF Over, BridgeInv, WebBridgeTypeOK
    <2>2. CASE Pair(k) \/ PairedSent(k)
      BY <2>2 DEF Pair, PairedSent, BridgeInv, WebBridgeTypeOK
    <2> QED
      BY <2>1, <2>2 DEF PairFails, SessionEnds
  <1>3. k # 0
    BY BridgeAssumption DEF Sessions
  <1>4. /\ paired' \in Sessions \union {0} /\ newest' \in Sessions \union {0}
        /\ PairedIsNewest'
    <2>1. CASE Pair(k)
      BY <1>3, <2>1 DEF Pair, PairedIsNewest, BridgeInv, WebBridgeTypeOK
    <2>2. CASE PairFails(k)
      BY <1>3, <2>2 DEF PairFails, Over, PairedIsNewest, BridgeInv, BridgeTablesHold, WebBridgeTypeOK
    <2>3. CASE PairedSent(k)
      BY <1>3, <2>3 DEF PairedSent, PairedIsNewest, BridgeInv, BridgeTablesHold, WebBridgeTypeOK
    <2>4. CASE SessionEnds(k)
      BY <1>3, <2>4 DEF SessionEnds, Over, PairedAfter, PairedIsNewest, BridgeInv, BridgeTablesHold,
                        WebBridgeTypeOK
    <2> QED
      BY <2>1, <2>2, <2>3, <2>4
  <1>5. PendingIsWaiting' /\ \A t \in answered' : dispatch'[t] \in {"waiting", "done"}
    BY <1>1 DEF BridgeInv, BridgeTablesHold, PendingIsWaiting
  <1>6. WebBridgeTypeOK'
    BY <1>1, <1>2, <1>4 DEF BridgeInv, WebBridgeTypeOK
  <1> QED
    BY <1>4, <1>5, <1>6 DEF BridgeInv, BridgeTablesHold

\* The steps of an open session: a result is taken from the map and given to its waiter
\* in one.
LEMMA MessageKeepsInv ==
    ASSUME BridgeInv, NEW k \in Sessions,
           WriteTaskFrame(k) \/ WebStatus(k) \/ \E t \in Dispatches : ExtensionResult(k, t)
    PROVE  BridgeInv'
  <1>1. UNCHANGED <<listening, session, paired, newest, dispatch, sender>>
    BY DEF WriteTaskFrame, WebStatus, ExtensionResult, dispatchVars
  <1>2. /\ outbox' \in [Sessions -> Seq(Dispatches)] /\ received' \in [Sessions -> SUBSET Dispatches]
        /\ provider' \in {"idle", "busy", "offline"}
    <2>1. CASE WriteTaskFrame(k)
      <3>1. outbox[k] \in Seq(Dispatches) /\ outbox[k] # <<>>
        BY <2>1 DEF WriteTaskFrame, BridgeInv, WebBridgeTypeOK
      <3>2. Head(outbox[k]) \in Dispatches /\ Tail(outbox[k]) \in Seq(Dispatches)
        BY <3>1
      <3> QED
        BY <2>1, <3>2 DEF WriteTaskFrame, BridgeInv, WebBridgeTypeOK
    <2>2. CASE WebStatus(k)
      BY <2>2 DEF WebStatus, BridgeInv, WebBridgeTypeOK
    <2>3. CASE \E t \in Dispatches : ExtensionResult(k, t)
      BY <2>3 DEF ExtensionResult, BridgeInv, WebBridgeTypeOK
    <2> QED
      BY <2>1, <2>2, <2>3
  <1>3. /\ pending' \in SUBSET Dispatches /\ answered' \in SUBSET Dispatches
        /\ PendingIsWaiting' /\ \A t \in answered' : dispatch'[t] \in {"waiting", "done"}
    <2>1. CASE UNCHANGED <<pending, answered>>
      BY <1>1, <2>1 DEF BridgeInv, WebBridgeTypeOK, BridgeTablesHold, PendingIsWaiting
    <2>2. CASE \E t \in Dispatches : ExtensionResult(k, t)
      BY <1>1, <2>2 DEF ExtensionResult, BridgeInv, WebBridgeTypeOK, BridgeTablesHold, PendingIsWaiting
    <2> QED
      BY <2>1, <2>2 DEF WriteTaskFrame, WebStatus, dispatchVars
  <1>4. WebBridgeTypeOK'
    BY <1>1, <1>2, <1>3 DEF BridgeInv, WebBridgeTypeOK
  <1>5. PairedIsNewest'
    BY <1>1 DEF BridgeInv, BridgeTablesHold, PairedIsNewest
  <1> QED
    BY <1>3, <1>4, <1>5 DEF BridgeInv, BridgeTablesHold

\* The steps of a dispatch.
LEMMA DispatchKeepsInv ==
    ASSUME BridgeInv, NEW t \in Dispatches,
           CheckProvider(t) \/ CloneSender(t) \/ SendTask(t) \/ DispatchReturns(t) \/ DispatchTimesOut(t)
    PROVE  BridgeInv'
  <1>1. UNCHANGED <<listening, session, received, paired, newest, provider, answered>>
    BY DEF CheckProvider, CloneSender, SendTask, DispatchReturns, DispatchTimesOut, sessionVars
  <1>2. outbox' \in [Sessions -> Seq(Dispatches)]
    <2>1. outbox \in [Sessions -> Seq(Dispatches)]
      BY DEF BridgeInv, WebBridgeTypeOK
    <2>2. outbox' = outbox \/ outbox' = [outbox EXCEPT ![sender[t]] = Append(@, t)]
      BY DEF CheckProvider, CloneSender, SendTask, DispatchReturns, DispatchTimesOut, sessionVars
    <2>3. \A k \in Sessions : Append(outbox[k], t) \in Seq(Dispatches)
      BY <2>1
    <2> QED
      BY <2>1, <2>2, <2>3
  <1>3. /\ dispatch' \in [Dispatches -> {"new", "checked", "sending", "waiting", "done", "error",
                                         "busy", "offline", "timeout"}]
        /\ sender' \in [Dispatches -> Sessions \union {0}] /\ pending' \in SUBSET Dispatches
    <2> USE DEF BridgeInv, WebBridgeTypeOK
    <2>1. CASE CheckProvider(t)
      BY <2>1 DEF CheckProvider
    <2>2. CASE CloneSender(t)
      BY <2>2 DEF CloneSender
    <2>3. CASE SendTask(t)
      BY <2>3 DEF SendTask
    <2>4. CASE DispatchReturns(t) \/ DispatchTimesOut(t)
      BY <2>4 DEF DispatchReturns, DispatchTimesOut
    <2> QED
      BY <2>1, <2>2, <2>3, <2>4
  <1>4. PendingIsWaiting' /\ \A u \in answered' : dispatch'[u] \in {"waiting", "done"}
    <2>1. CASE CheckProvider(t) \/ CloneSender(t)
      BY <2>1 DEF CheckProvider, CloneSender, BridgeInv, WebBridgeTypeOK, BridgeTablesHold,
                  PendingIsWaiting
    <2>2. CASE SendTask(t)
      <3>1. /\ dispatch[t] = "sending" /\ t \notin pending /\ t \notin answered
            /\ \/ dispatch' = [dispatch EXCEPT ![t] = "error"] /\ pending' = pending
               \/ dispatch' = [dispatch EXCEPT ![t] = "waiting"] /\ pending' = pending \union {t}
        BY <2>2 DEF SendTask, BridgeInv, BridgeTablesHold, PendingIsWaiting
      <3>2. /\ dispatch'[t] \in {"error", "waiting"} /\ (t \in pending' <=> dispatch'[t] = "waiting")
            /\ \A u \in Dispatches \ {t} :
                dispatch'[u] = dispatch[u] /\ (u \in pending' <=> u \in pending)
        BY <3>1 DEF BridgeInv, WebBridgeTypeOK
      <3> QED
        BY <1>1, <3>1, <3>2 DEF BridgeInv, WebBridgeTypeOK, BridgeTablesHold, PendingIsWaiting
    <2>3. CASE DispatchReturns(t) \/ DispatchTimesOut(t)
      BY <2>3 DEF DispatchReturns, DispatchTimesOut, BridgeInv, WebBridgeTypeOK, BridgeTablesHold,
                  PendingIsWaiting
    <2> QED
      BY <2>1, <2>2, <2>3
  <1>5. WebBridgeTypeOK'
    BY <1>1, <1>2, <1>3 DEF BridgeInv, WebBridgeTypeOK
  <1>6. PairedIsNewest'
    BY <1>1 DEF BridgeInv, BridgeTablesHold, PairedIsNewest
  <1> QED
    BY <1>4, <1>5, <1>6 DEF BridgeInv, BridgeTablesHold

LEMMA BridgeStepKeepsInv == ASSUME BridgeInv, [BridgeNext]_bridgeVars PROVE BridgeInv'
  <1>1. CASE BridgeNext
    BY <1>1, ListenerKeepsInv, SessionKeepsInv, MessageKeepsInv, DispatchKeepsInv DEF BridgeNext
  <1>2. CASE UNCHANGED bridgeVars
    BY <1>2 DEF bridgeVars, sessionVars, dispatchVars, BridgeInv, WebBridgeTypeOK, BridgeTablesHold,
                PairedIsNewest, PendingIsWaiting
  <1> QED
    BY <1>1, <1>2

\* The bridge's paired_tx is the newest session that is there, and its pending map has the
\* dispatches that wait, for any number of connections and dispatches.
THEOREM BridgeTablesAreTrue == Spec => []BridgeTablesHold
  <1>1. Init => BridgeInv
    BY BridgeInitInv DEF Init
  <1>2. BridgeInv /\ [Next]_serviceVars => BridgeInv'
    <2>1. [Next]_serviceVars => [BridgeNext]_bridgeVars
      BY DEF serviceVars, Next, SettlementStep, LocalServerStep, WebBridgeStep, LogStep, RegistryStep
    <2> QED
      BY <2>1, BridgeStepKeepsInv
  <1>3. BridgeInv => BridgeTablesHold
    BY DEF BridgeInv
  <1> QED
    BY <1>1, <1>2, <1>3, PTL DEF Spec

----------------------------------------------------------------------------
(* The registry of providers.                                              *)

\* What cc-switch has offered since the refreshes under way began, or nothing.
Seen(v) == {SnapshotOf(offer[w]) : w \in v .. revision} \union {Nothing}

\* A refresh that has asked holds, writes and reads back an answer that is not older than
\* the refreshes under way.
FoundInv ==
    \A r \in Refreshes :
        /\ refresh[r] \in {"built", "panel", "loop"} => found[r] \in Seen(since)
        /\ refresh[r] = "written" => snapshot \in Seen(since)

ToldInv ==
    /\ told.models \subseteq UNION {s.models : s \in Seen(told.since)}
    /\ told.warning \in {"unsaid"} \union {Diagnosis(s) : s \in Seen(told.since)}

RegistryInv == RegistryTypeOK /\ FoundInv /\ ToldInv

LEMMA SnapshotType ==
    /\ \A o \in Offers : SnapshotOf(o).models \subseteq Models
    /\ Nothing.models = {} /\ Diagnosis(Nothing) = "unreachable"
    /\ \A o \in Offers : Diagnosis(SnapshotOf(o)) \in {"unreachable", "stopped", "noProviders", "none"}
  BY OffersAssumption DEF SnapshotOf, Nothing, Diagnosis

LEMMA RegistryInitInv == RegistryInit => RegistryInv
  <1> SUFFICES ASSUME RegistryInit PROVE RegistryInv
    OBVIOUS
  <1>1. RegistryTypeOK
    BY OffersAssumption DEF RegistryInit, RegistryTypeOK, Revisions
  <1>2. FoundInv /\ ToldInv
    BY DEF RegistryInit, FoundInv, ToldInv
  <1> QED
    BY <1>1, <1>2 DEF RegistryInv

\* A new revision only adds to what has been seen since an earlier one.
LEMMA ChangeKeepsInv == ASSUME RegistryInv, CcSwitchChanges PROVE RegistryInv'
  <1>1. /\ revision < MaxRevision /\ revision' = revision + 1
        /\ UNCHANGED <<offer, snapshot, refresh, found, told, since>>
    BY DEF CcSwitchChanges
  <1>2. RegistryTypeOK'
    BY <1>1, OffersAssumption DEF RegistryInv, RegistryTypeOK, Revisions
  <1>3. ASSUME NEW v \in Nat PROVE Seen(v) \subseteq Seen(v)'
    BY <1>1, <1>3 DEF Seen, RegistryInv, RegistryTypeOK, Revisions
  <1>4. since \in Nat /\ told.since \in Nat
    BY DEF RegistryInv, RegistryTypeOK
  <1>5. Seen(since) \subseteq Seen(since)' /\ Seen(told.since) \subseteq Seen(told.since)'
    BY <1>1, <1>4 DEF Seen, RegistryInv, RegistryTypeOK, Revisions
  <1>6. FoundInv'
    BY <1>1, <1>5 DEF RegistryInv, FoundInv
  <1>7. ToldInv'
    BY <1>1, <1>5 DEF RegistryInv, ToldInv
  <1> QED
    BY <1>2, <1>6, <1>7 DEF RegistryInv

LEMMA BeginKeepsInv == ASSUME RegistryInv, NEW r \in Refreshes, RefreshBegins(r) PROVE RegistryInv'
  <1>1. /\ refresh[r] = "idle" /\ refresh' = [refresh EXCEPT ![r] = "asked"]
        /\ since' = IF \A s \in Refreshes : refresh[s] = "idle" THEN revision ELSE since
        /\ UNCHANGED <<offer, revision, snapshot, found, told>>
    BY DEF RefreshBegins
  <1>2. RegistryTypeOK'
    BY <1>1 DEF RegistryInv, RegistryTypeOK, Revisions
  <1>3. FoundInv'
    BY <1>1 DEF RegistryInv, RegistryTypeOK, FoundInv, Seen
  <1>4. ToldInv'
    BY <1>1 DEF RegistryInv, ToldInv, Seen
  <1> QED
    BY <1>2, <1>3, <1>4 DEF RegistryInv

\* The answer is that of the revision now, or nothing; it is written and read back.
LEMMA RefreshKeepsInv ==
    ASSUME RegistryInv, NEW r \in Refreshes, StatusReturns(r) \/ WriteSnapshot(r) \/ ReadSnapshot(r)
    PROVE  RegistryInv'
  <1>1. UNCHANGED <<offer, revision, told, since>>
    BY DEF StatusReturns, WriteSnapshot, ReadSnapshot
  <1>2. SnapshotOf(offer[revision]) \in {SnapshotOf(o) : o \in Offers}
    BY DEF RegistryInv, RegistryTypeOK
  <1>3. Nothing \in Seen(since) /\ SnapshotOf(offer[revision]) \in Seen(since)
    BY DEF RegistryInv, RegistryTypeOK, Revisions, Seen
  <1>4. RegistryTypeOK'
    BY <1>1, <1>2 DEF StatusReturns, WriteSnapshot, Written, ReadSnapshot, RegistryInv, RegistryTypeOK
  <1>5. Seen(since)' = Seen(since) /\ Seen(told.since)' = Seen(told.since)
    BY <1>1 DEF Seen
  <1>6. FoundInv'
    <2>1. CASE StatusReturns(r)
      BY <1>3, <1>5, <2>1 DEF StatusReturns, RegistryInv, RegistryTypeOK, FoundInv
    <2>2. CASE WriteSnapshot(r)
      BY <1>5, <2>2 DEF WriteSnapshot, Written, RegistryInv, RegistryTypeOK, FoundInv
    <2>3. CASE ReadSnapshot(r)
      BY <1>5, <2>3 DEF ReadSnapshot, RegistryInv, RegistryTypeOK, FoundInv
    <2> QED
      BY <2>1, <2>2, <2>3
  <1>7. ToldInv'
    BY <1>1, <1>5 DEF RegistryInv, ToldInv
  <1> QED
    BY <1>4, <1>6, <1>7 DEF RegistryInv

\* What comes out is about what the refresh has read.
LEMMA TellKeepsInv ==
    ASSUME RegistryInv, NEW r \in Refreshes,
           ReplaceDiagnostics(r) \/ Announce(r) \/ NothingToAnnounce(r)
    PROVE  RegistryInv'
  <1>1. /\ refresh[r] \in {"panel", "loop"} /\ RefreshEnds(r)
    BY DEF ReplaceDiagnostics, Announce, NothingToAnnounce
  <1>2. /\ UNCHANGED <<offer, revision, snapshot, since>>
        /\ refresh' = [refresh EXCEPT ![r] = "idle"] /\ found' = [found EXCEPT ![r] = Nothing]
    BY <1>1 DEF RefreshEnds
  <1>3. found[r] \in Seen(since) /\ found[r] \in {SnapshotOf(o) : o \in Offers} \union {Nothing}
    BY <1>1 DEF RegistryInv, RegistryTypeOK, FoundInv
  <1>4. /\ found[r].models \subseteq Models
        /\ Diagnosis(found[r]) \in {"unreachable", "stopped", "noProviders", "none"}
    BY <1>3, SnapshotType
  <1>5. since \in Revisions /\ since \in 0 .. since
    BY OffersAssumption DEF RegistryInv, RegistryTypeOK, Revisions
  <1>6. \A v : Seen(v)' = Seen(v)
    BY <1>2 DEF Seen
  <1>7. told' \in [warning : {"unsaid", "unreachable", "stopped", "noProviders", "none"},
                   models : SUBSET Models, since : Revisions]
        /\ told'.since \in 0 .. since'
        /\ ToldInv'
    <2>1. CASE ReplaceDiagnostics(r)
      <3>1. told' = [warning |-> Diagnosis(found[r]), models |-> {}, since |-> since]
        BY <2>1 DEF ReplaceDiagnostics
      <3>2. told'.warning = Diagnosis(found[r]) /\ told'.models = {} /\ told'.since = since
        BY <3>1
      <3>3. Seen(told.since)' = Seen(since)
        BY <1>2, <3>2 DEF Seen
      <3> QED
        BY <1>2, <1>3, <1>4, <1>5, <3>1, <3>2, <3>3 DEF ToldInv
    <2>2. CASE Announce(r)
      <3>1. PICK whitelist \in SUBSET Models :
              told' = [warning |-> "unsaid", since |-> since,
                       models |-> FilterModels(found[r].models, whitelist)]
        BY <2>2 DEF Announce
      <3>2. /\ told'.warning = "unsaid" /\ told'.since = since
            /\ told'.models \subseteq found[r].models
        BY <3>1 DEF FilterModels
      <3>3. Seen(told.since)' = Seen(since)
        BY <1>2, <3>2 DEF Seen
      <3> QED
        BY <1>2, <1>3, <1>4, <1>5, <3>1, <3>2, <3>3 DEF ToldInv
    <2>3. CASE NothingToAnnounce(r)
      BY <1>2, <2>3 DEF NothingToAnnounce, RegistryInv, RegistryTypeOK, ToldInv, Seen
    <2> QED
      BY <2>1, <2>2, <2>3
  <1>8. RegistryTypeOK'
    BY <1>2, <1>7 DEF RegistryInv, RegistryTypeOK
  <1>9. FoundInv'
    BY <1>2, <1>1 DEF RegistryInv, RegistryTypeOK, FoundInv, Seen
  <1> QED
    BY <1>7, <1>8, <1>9 DEF RegistryInv

LEMMA RegistryStepKeepsInv == ASSUME RegistryInv, [RegistryNext]_registryVars PROVE RegistryInv'
  <1>1. CASE RegistryNext
    BY <1>1, ChangeKeepsInv, BeginKeepsInv, RefreshKeepsInv, TellKeepsInv DEF RegistryNext
  <1>2. CASE UNCHANGED registryVars
    BY <1>2 DEF registryVars, RegistryInv, RegistryTypeOK, FoundInv, ToldInv, Seen
  <1> QED
    BY <1>1, <1>2

\* However refreshes of the panel and of the refresh loop overlap, the warnings shown and the
\* models announced are of a revision that is not older than the refreshes under way, for
\* any number of refreshes and whatever cc-switch offers.
THEOREM RegistryStaysFresh == Spec => []RegistryIsFresh
  <1>1. Init => RegistryInv
    BY RegistryInitInv DEF Init
  <1>2. RegistryInv /\ [Next]_serviceVars => RegistryInv'
    <2>1. [Next]_serviceVars => [RegistryNext]_registryVars
      BY DEF serviceVars, Next, SettlementStep, LocalServerStep, WebBridgeStep, LogStep, RegistryStep
    <2> QED
      BY <2>1, RegistryStepKeepsInv
  <1>3. RegistryInv => RegistryIsFresh
    <2> SUFFICES ASSUME RegistryInv PROVE RegistryIsFresh
      OBVIOUS
    <2>1. told.models \subseteq UNION {s.models : s \in {SnapshotOf(offer[v]) : v \in told.since .. revision}}
      BY SnapshotType DEF RegistryInv, ToldInv, Seen
    <2>2. told.warning \in {"unsaid", "unreachable"}
            \union {Diagnosis(s) : s \in {SnapshotOf(offer[v]) : v \in told.since .. revision}}
      BY SnapshotType DEF RegistryInv, ToldInv, Seen
    <2> QED
      BY <2>1, <2>2 DEF RegistryIsFresh
  <1> QED
    BY <1>1, <1>2, <1>3, PTL DEF Spec

----------------------------------------------------------------------------
(* The system log.                                                         *)

Sorted(s) == \A i, j \in 1 .. Len(s) : i < j => s[i] < s[j]

\* A sequence of the entries 1 to n but for those of g, in their order.
Whole(s, n, g) == ToSet(s) = (1 .. n) \ g /\ Sorted(s)

LogInv ==
    /\ sent \in Nat /\ gone \subseteq 1 .. sent
    /\ table \in Seq(Nat) /\ buffer \in Seq(Nat) /\ logQueue \in Seq(Nat)
    /\ Whole(table \o buffer \o logQueue, sent, gone)

\* Concatenations of entries.
LEMMA Associative == \A s, t, u \in Seq(Nat) : (s \o t) \o u = s \o (t \o u)
  BY ConcatAssociative, SMTT(60)

LEMMA Concat ==
    ASSUME NEW s \in Seq(Nat), NEW t \in Seq(Nat), NEW u \in Seq(Nat)
    PROVE  s \o t \in Seq(Nat) /\ t \o u \in Seq(Nat) /\ s \o t \o u \in Seq(Nat)
  <1>1. s \o t \in Seq(Nat) /\ t \o u \in Seq(Nat)
    BY ConcatProperties
  <1> QED
    BY <1>1, ConcatProperties

LEMMA AppendInConcat ==
    ASSUME NEW s \in Seq(Nat), NEW t \in Seq(Nat), NEW x \in Nat
    PROVE  Append(t, x) \in Seq(Nat) /\ s \o Append(t, x) = Append(s \o t, x)
  <1>1. <<x>> \in Seq(Nat)
    OBVIOUS
  <1>2. s \o t \in Seq(Nat)
    BY ConcatProperties
  <1>3. Append(t, x) \in Seq(Nat) /\ Append(t, x) = t \o <<x>>
    BY AppendProperties, AppendIsConcat
  <1>4. Append(s \o t, x) = (s \o t) \o <<x>>
    BY <1>2, AppendIsConcat
  <1>5. (s \o t) \o <<x>> = s \o (t \o <<x>>)
    BY <1>1, Associative, Zenon
  <1> QED
    BY <1>3, <1>4, <1>5

LEMMA ToSetOf == ASSUME NEW s \in Seq(Nat) PROVE ToSet(s) = {s[i] : i \in 1 .. Len(s)}
  BY DEF ToSet

LEMMA ToSetOfConcat ==
    ASSUME NEW s \in Seq(Nat), NEW t \in Seq(Nat)
    PROVE  ToSet(s \o t) = ToSet(s) \union ToSet(t)
  <1> DEFINE st == s \o t
  <1>1. /\ st \in Seq(Nat) /\ Len(st) = Len(s) + Len(t) /\ Len(s) \in Nat /\ Len(t) \in Nat
        /\ \A i \in 1 .. Len(s) + Len(t) : st[i] = IF i <= Len(s) THEN s[i] ELSE t[i - Len(s)]
    BY ConcatProperties
  <1> HIDE DEF st
  <1>2. /\ ToSet(st) = {st[i] : i \in 1 .. Len(s) + Len(t)}
        /\ ToSet(s) = {s[i] : i \in 1 .. Len(s)} /\ ToSet(t) = {t[i] : i \in 1 .. Len(t)}
    <2>1. ToSet(st) = {st[i] : i \in 1 .. Len(st)}
      BY <1>1, ToSetOf
    <2> QED
      BY <1>1, <2>1, ToSetOf
  <1>3. ASSUME NEW i \in 1 .. Len(s) + Len(t) PROVE st[i] \in ToSet(s) \union ToSet(t)
    <2>1. CASE i <= Len(s)
      BY <1>1, <1>2, <2>1
    <2>2. CASE i > Len(s)
      <3>1. i - Len(s) \in 1 .. Len(t) /\ ~(i <= Len(s))
        <4>1. Len(s) \in Nat /\ Len(t) \in Nat
          BY <1>1
        <4> QED
          BY <2>2, <4>1
      <3>2. st[i] = t[i - Len(s)]
        BY <1>1, <3>1
      <3> QED
        BY <1>2, <3>1, <3>2
    <2> QED
      BY <1>1, <2>1, <2>2
  <1>4. ASSUME NEW i \in 1 .. Len(s) PROVE s[i] \in ToSet(st)
    <2>1. i \in 1 .. Len(s) + Len(t) /\ i <= Len(s)
      <3>1. Len(s) \in Nat /\ Len(t) \in Nat
        BY <1>1
      <3> QED
        BY <3>1
    <2>2. s[i] = st[i]
      BY <1>1, <2>1
    <2> QED
      BY <1>2, <2>1, <2>2
  <1>5. ASSUME NEW i \in 1 .. Len(t) PROVE t[i] \in ToSet(st)
    <2>1. /\ Len(s) + i \in 1 .. Len(s) + Len(t) /\ ~(Len(s) + i <= Len(s))
          /\ (Len(s) + i) - Len(s) = i
      BY <1>1
    <2>2. t[i] = st[Len(s) + i]
      BY <1>1, <2>1
    <2> QED
      BY <1>2, <2>1, <2>2
  <1>6. ToSet(st) = ToSet(s) \union ToSet(t)
    BY <1>2, <1>3, <1>4, <1>5
  <1> QED
    BY <1>6 DEF st

LEMMA SortedConcat ==
    ASSUME NEW s \in Seq(Nat), NEW t \in Seq(Nat)
    PROVE  Sorted(s \o t) <=>
             Sorted(s) /\ Sorted(t) /\ \A x \in ToSet(s), y \in ToSet(t) : x < y
  <1>1. /\ Len(s \o t) = Len(s) + Len(t) /\ Len(s) \in Nat /\ Len(t) \in Nat
        /\ \A i \in 1 .. Len(s) + Len(t) :
            (s \o t)[i] = IF i <= Len(s) THEN s[i] ELSE t[i - Len(s)]
    BY ConcatProperties
  <1>2. /\ \A i \in 1 .. Len(s) : i \in 1 .. Len(s \o t) /\ (s \o t)[i] = s[i]
        /\ \A j \in 1 .. Len(t) : Len(s) + j \in 1 .. Len(s \o t) /\ (s \o t)[Len(s) + j] = t[j]
    BY <1>1
  <1>3. ASSUME Sorted(s \o t)
        PROVE  Sorted(s) /\ Sorted(t) /\ \A x \in ToSet(s), y \in ToSet(t) : x < y
    <2>1. Sorted(s)
      BY <1>2, <1>3 DEF Sorted
    <2>2. Sorted(t)
      <3> SUFFICES ASSUME NEW i \in 1 .. Len(t), NEW j \in 1 .. Len(t), i < j PROVE t[i] < t[j]
        BY DEF Sorted
      <3>1. Len(s) + i < Len(s) + j
        BY <1>1
      <3> QED
        BY <1>2, <1>3, <3>1 DEF Sorted
    <2>3. ASSUME NEW x \in ToSet(s), NEW y \in ToSet(t) PROVE x < y
      <3>1. PICK i \in 1 .. Len(s) : x = s[i]
        BY ToSetOf
      <3>2. PICK j \in 1 .. Len(t) : y = t[j]
        BY ToSetOf
      <3>3. i < Len(s) + j
        BY <1>1
      <3> QED
        BY <1>2, <1>3, <3>1, <3>2, <3>3 DEF Sorted
    <2> QED
      BY <2>1, <2>2, <2>3
  <1>4. ASSUME Sorted(s), Sorted(t), \A x \in ToSet(s), y \in ToSet(t) : x < y
        PROVE  Sorted(s \o t)
    <2> SUFFICES ASSUME NEW i \in 1 .. Len(s \o t), NEW j \in 1 .. Len(s \o t), i < j
                 PROVE  (s \o t)[i] < (s \o t)[j]
      BY DEF Sorted
    <2>1. CASE j <= Len(s)
      <3>1. i \in 1 .. Len(s) /\ j \in 1 .. Len(s)
        BY <1>1, <2>1
      <3> QED
        BY <1>2, <1>4, <3>1 DEF Sorted
    <2>2. CASE i <= Len(s) /\ j > Len(s)
      <3>1. i \in 1 .. Len(s) /\ j - Len(s) \in 1 .. Len(t)
        BY <1>1, <2>2
      <3>2. (s \o t)[i] = s[i] /\ (s \o t)[j] = t[j - Len(s)]
        BY <1>1, <2>2
      <3>3. s[i] \in ToSet(s) /\ t[j - Len(s)] \in ToSet(t)
        BY <3>1, ToSetOf
      <3> QED
        BY <1>4, <3>2, <3>3
    <2>3. CASE i > Len(s)
      <3>1. /\ i - Len(s) \in 1 .. Len(t) /\ j - Len(s) \in 1 .. Len(t)
            /\ i - Len(s) < j - Len(s)
        BY <1>1, <2>3
      <3>2. (s \o t)[i] = t[i - Len(s)] /\ (s \o t)[j] = t[j - Len(s)]
        BY <1>1, <2>3
      <3> QED
        BY <1>4, <3>1, <3>2 DEF Sorted
    <2>4. i \in Nat /\ j \in Nat /\ Len(s) \in Nat
      BY <1>1
    <2>5. j <= Len(s) \/ (i <= Len(s) /\ j > Len(s)) \/ i > Len(s)
      BY <2>4
    <2> QED
      BY <2>1, <2>2, <2>3, <2>5
  <1> QED
    BY <1>3, <1>4

\* A new entry is put at the end.
LEMMA WholeAppend ==
    ASSUME NEW s \in Seq(Nat), NEW n \in Nat, NEW g \in SUBSET (1 .. n), Whole(s, n, g)
    PROVE  Whole(Append(s, n + 1), n + 1, g)
  <1> DEFINE t == <<n + 1>>
  <1>1. t \in Seq(Nat) /\ Append(s, n + 1) = s \o t
    BY AppendIsConcat
  <1>2. Len(t) = 1 /\ t[1] = n + 1
    OBVIOUS
  <1> HIDE DEF t
  <1>3. ToSet(t) = {n + 1} /\ Sorted(t)
    <2>1. ToSet(t) = {t[i] : i \in 1 .. 1}
      BY <1>1, <1>2, ToSetOf
    <2>2. Sorted(t)
      BY <1>2 DEF Sorted
    <2> QED
      BY <1>2, <2>1, <2>2
  <1>4. ToSet(s \o t) = 1 .. (n + 1) \ g
    BY <1>1, <1>3, ToSetOfConcat DEF Whole
  <1>5. \A x \in ToSet(s), y \in ToSet(t) : x < y
    BY <1>3 DEF Whole
  <1>6. Sorted(s \o t)
    BY <1>1, <1>3, <1>5, SortedConcat DEF Whole
  <1> QED
    BY <1>1, <1>4, <1>6 DEF Whole

\* What is cut out is gone.
LEMMA WholeCut ==
    ASSUME NEW a \in Seq(Nat), NEW b \in Seq(Nat), NEW c \in Seq(Nat), NEW n \in Nat,
           NEW g \in SUBSET (1 .. n), Whole(a \o b \o c, n, g)
    PROVE  Whole(a \o c, n, g \union ToSet(b)) /\ ToSet(b) \subseteq 1 .. n
  <1>1. a \o b \in Seq(Nat)
    OBVIOUS
  <1>2. /\ ToSet(a \o b \o c) = ToSet(a) \union ToSet(b) \union ToSet(c)
        /\ ToSet(a \o c) = ToSet(a) \union ToSet(c) /\ ToSet(a \o b) = ToSet(a) \union ToSet(b)
    BY <1>1, ToSetOfConcat
  <1>3. /\ Sorted(a) /\ Sorted(c)
        /\ \A x \in ToSet(a), y \in ToSet(b) : x < y
        /\ \A x \in ToSet(a) \union ToSet(b), y \in ToSet(c) : x < y
    <2>1. Sorted(a \o b) /\ Sorted(c) /\ \A x \in ToSet(a \o b), y \in ToSet(c) : x < y
      BY <1>1, SortedConcat DEF Whole
    <2>2. Sorted(a) /\ \A x \in ToSet(a), y \in ToSet(b) : x < y
      BY <2>1, SortedConcat
    <2> QED
      BY <1>2, <2>1, <2>2
  <1>4. Sorted(a \o c)
    BY <1>3, SortedConcat
  <1>5. ToSet(a) \subseteq Nat /\ ToSet(b) \subseteq Nat /\ ToSet(c) \subseteq Nat
    BY <1>2 DEF Whole
  <1>6. ToSet(a) \intersect ToSet(b) = {} /\ ToSet(b) \intersect ToSet(c) = {}
    BY <1>3, <1>5
  <1>7. ToSet(a \o c) = (1 .. n) \ (g \union ToSet(b))
    BY <1>2, <1>6 DEF Whole
  <1> QED
    BY <1>2, <1>4, <1>7 DEF Whole

LEMMA LogInitInv == LogInit => LogInv
  <1> SUFFICES ASSUME LogInit PROVE LogInv
    OBVIOUS
  <1>1. /\ sent = 0 /\ gone = {} /\ table = <<>> /\ buffer = <<>> /\ logQueue = <<>>
        /\ <<>> \in Seq(Nat) /\ <<>> \o <<>> \o <<>> = <<>> /\ Len(<<>>) = 0
    BY DEF LogInit
  <1>2. ToSet(<<>>) = {}
    BY DEF ToSet
  <1>3. Whole(<<>>, 0, {})
    BY <1>1, <1>2 DEF Whole, Sorted
  <1> QED
    BY <1>1, <1>3 DEF LogInv

LEMMA DispatchRecordKeepsInv == ASSUME LogInv, DispatchRecord PROVE LogInv'
  <1>1. /\ sent' = sent + 1 /\ logQueue' = Append(logQueue, sent + 1)
        /\ table' = table /\ buffer' = buffer /\ gone' = gone
    BY DEF DispatchRecord
  <1>2. /\ sent \in Nat /\ gone \subseteq 1 .. sent
        /\ table \in Seq(Nat) /\ buffer \in Seq(Nat) /\ logQueue \in Seq(Nat)
        /\ Whole(table \o buffer \o logQueue, sent, gone)
    BY DEF LogInv
  <1>3. table \o buffer \in Seq(Nat) /\ table \o buffer \o logQueue \in Seq(Nat) /\ sent + 1 \in Nat
    <2>1. table \o buffer \in Seq(Nat) /\ table \o buffer \o logQueue \in Seq(Nat)
      BY <1>2, Concat
    <2> QED
      BY <1>2, <2>1
  <1>4. /\ Append(logQueue, sent + 1) \in Seq(Nat)
        /\ table \o buffer \o Append(logQueue, sent + 1) = Append(table \o buffer \o logQueue, sent + 1)
    BY <1>2, <1>3, AppendInConcat
  <1>5. Whole(table' \o buffer' \o logQueue', sent', gone')
    BY <1>1, <1>2, <1>3, <1>4, WholeAppend
  <1> QED
    BY <1>1, <1>2, <1>4, <1>5 DEF LogInv

\* A batch is moved to the table or is gone; either way nothing else is.
LEMMA FlushKeepsInv ==
    ASSUME LogInv, NEW batch \in Seq(Nat), NEW rest \in Seq(Nat),
           Flush(batch, rest), table \o batch \o rest = table \o buffer \o logQueue
    PROVE  LogInv'
  <1>1. /\ sent \in Nat /\ gone \in SUBSET (1 .. sent) /\ table \in Seq(Nat)
        /\ Whole(table \o batch \o rest, sent, gone)
    BY DEF LogInv
  <1>2. buffer' = <<>> /\ <<>> \in Seq(Nat)
    BY DEF Flush, Taken
  <1>3. \A q \in Seq(Nat) : q \o <<>> = q
    BY ConcatEmptySeq
  <1>4. CASE table' = table \o batch /\ logQueue' = rest /\ UNCHANGED <<sent, gone>>
    <2>1. table' \in Seq(Nat)
      BY <1>1, <1>4
    <2>2. table' \o buffer' \o logQueue' = table \o batch \o rest
      BY <1>2, <1>3, <1>4, <2>1
    <2> QED
      BY <1>1, <1>2, <1>4, <2>1, <2>2 DEF LogInv
  <1>5. CASE DropBatch(batch, rest)
    <2> DEFINE lost == gone \union ToSet(batch)
    <2>1. /\ gone' = lost /\ table' = table
          /\ \/ sent' = sent + 1 /\ logQueue' = Append(rest, sent + 1)
             \/ sent' = sent /\ logQueue' = rest
      BY <1>5 DEF DropBatch
    <2>2. Whole(table \o rest, sent, lost) /\ lost \in SUBSET (1 .. sent)
      BY <1>1, WholeCut
    <2> HIDE DEF lost
    <2>3. table \o rest \in Seq(Nat)
      BY <1>1
    <2>4. Whole(Append(table \o rest, sent + 1), sent + 1, lost)
      BY <1>1, <2>2, <2>3, WholeAppend
    <2>5. sent + 1 \in Nat
      BY <1>1
    <2>6. Append(rest, sent + 1) \in Seq(Nat) /\ table \o Append(rest, sent + 1) = Append(table \o rest, sent + 1)
      BY <1>1, <2>5, AppendInConcat
    <2>7. table' \o buffer' \o logQueue' = table \o logQueue'
      BY <1>1, <1>2, <1>3, <2>1
    <2>8. sent' \in Nat /\ lost \subseteq 1 .. sent' /\ logQueue' \in Seq(Nat)
      <3>1. sent' \in {sent, sent + 1} /\ logQueue' \in {rest, Append(rest, sent + 1)}
        BY <2>1
      <3>2. lost \subseteq 1 .. sent'
        <4>1. 1 .. sent \subseteq 1 .. sent'
          BY <1>1, <3>1
        <4> QED
          BY <2>2, <4>1
      <3> QED
        <4>1. sent' \in Nat
          BY <1>1, <3>1
        <4>2. logQueue' \in Seq(Nat)
          BY <2>6, <3>1
        <4> QED
          BY <3>2, <4>1, <4>2
    <2>9. Whole(table \o logQueue', sent', lost)
      <3>1. CASE sent' = sent + 1 /\ logQueue' = Append(rest, sent + 1)
        BY <2>4, <2>6, <3>1
      <3>2. CASE sent' = sent /\ logQueue' = rest
        BY <2>2, <3>2
      <3> QED
        BY <2>1, <3>1, <3>2
    <2> QED
      BY <1>1, <1>2, <2>1, <2>7, <2>8, <2>9 DEF LogInv
  <1> QED
    BY <1>4, <1>5 DEF Flush

LEMMA ReceiveEntryKeepsInv == ASSUME LogInv, ReceiveEntry PROVE LogInv'
  <1> DEFINE batch == Append(buffer, Head(logQueue))
             rest == Tail(logQueue)
  <1>1. /\ table \in Seq(Nat) /\ buffer \in Seq(Nat) /\ logQueue \in Seq(Nat) /\ logQueue # <<>>
    BY DEF LogInv, ReceiveEntry
  <1>2. Head(logQueue) \in Nat /\ rest \in Seq(Nat)
    BY <1>1, HeadTailProperties
  <1>3. batch \in Seq(Nat)
    BY <1>1, <1>2
  <1>4. batch \o rest = buffer \o logQueue
    <2>1. <<Head(logQueue)>> \in Seq(Nat)
      BY <1>2
    <2>2. <<Head(logQueue)>> \o rest = logQueue
      BY <1>1, <1>2
    <2>3. batch = buffer \o <<Head(logQueue)>>
      BY <1>1, <1>2, AppendIsConcat
    <2> QED
      <3>1. (buffer \o <<Head(logQueue)>>) \o rest = buffer \o (<<Head(logQueue)>> \o rest)
        <4>1. buffer \in Seq(Nat) /\ rest \in Seq(Nat)
          BY <1>1, <1>2
        <4> HIDE DEF rest
        <4> QED
          BY <2>1, <4>1, Associative, Zenon
      <3> QED
        BY <2>2, <2>3, <3>1
  <1> HIDE DEF batch, rest
  <1>5. table \o batch \o rest = table \o buffer \o logQueue
    <2>1. (table \o batch) \o rest = table \o (batch \o rest)
      <3>1. table \in Seq(Nat) /\ batch \in Seq(Nat) /\ rest \in Seq(Nat)
        BY <1>1, <1>2, <1>3
      <3> QED
        BY <3>1, Associative, Zenon
    <2>2. (table \o buffer) \o logQueue = table \o (buffer \o logQueue)
      BY <1>1, Associative, Zenon
    <2> QED
      BY <1>4, <2>1, <2>2
  <1>6. CASE Flush(batch, rest)
    BY <1>2, <1>3, <1>5, <1>6, FlushKeepsInv
  <1>7. CASE buffer' = batch /\ logQueue' = rest /\ UNCHANGED <<table, sent, gone>>
    BY <1>2, <1>3, <1>5, <1>7 DEF LogInv
  <1> QED
    BY <1>6, <1>7 DEF ReceiveEntry, batch, rest

LEMMA FlushTickKeepsInv == ASSUME LogInv, FlushTick PROVE LogInv'
  BY FlushKeepsInv DEF LogInv, FlushTick

LEMMA DeleteRowsKeepsInv ==
    ASSUME LogInv, NEW n \in 0 .. Len(table), DeleteRows(n), UNCHANGED <<logQueue, buffer, sent>>
    PROVE  LogInv'
  <1> DEFINE head == SubSeq(table, 1, n)
             kept == SubSeq(table, n + 1, Len(table))
  <1>1. /\ table \in Seq(Nat) /\ buffer \in Seq(Nat) /\ logQueue \in Seq(Nat)
        /\ sent \in Nat /\ gone \in SUBSET (1 .. sent)
        /\ Whole(table \o buffer \o logQueue, sent, gone)
    BY DEF LogInv
  <1>2. head \in Seq(Nat) /\ kept \in Seq(Nat) /\ table = head \o kept
    <2>1. Len(table) \in Nat /\ n \in Nat /\ \A i \in 1 .. Len(table) : table[i] \in Nat
      BY <1>1
    <2>2. head \in Seq(Nat) /\ kept \in Seq(Nat)
      BY <2>1, SubSeqProperties
    <2>3. head \o kept = SubSeq(table, 1, Len(table))
      <3>1. 1 \in 1 .. Len(table) + 1 /\ n \in 1 - 1 .. Len(table) /\ Len(table) \in n .. Len(table)
        BY <2>1
      <3> QED
        BY <1>1, <3>1, ConcatAdjacentSubSeq
    <2>4. SubSeq(table, 1, Len(table)) = table
      BY <1>1, SubSeqFull
    <2> QED
      BY <2>2, <2>3, <2>4
  <1>3. gone' = gone \union ToSet(head) /\ table' = kept
    BY DEF DeleteRows
  <1> HIDE DEF head, kept
  <1> DEFINE tail == kept \o (buffer \o logQueue)
  <1>4. buffer \o logQueue \in Seq(Nat) /\ tail \in Seq(Nat) /\ tail = kept \o buffer \o logQueue
    <2>1. buffer \o logQueue \in Seq(Nat) /\ kept \o buffer \o logQueue \in Seq(Nat)
      BY <1>1, <1>2, Concat
    <2>2. (kept \o buffer) \o logQueue = kept \o (buffer \o logQueue)
      <3>1. kept \in Seq(Nat) /\ buffer \in Seq(Nat) /\ logQueue \in Seq(Nat)
        BY <1>1, <1>2
      <3> QED
        BY <3>1, Associative, Zenon
    <2> QED
      BY <2>1, <2>2
  <1>5. table \o buffer \o logQueue = <<>> \o head \o tail
    <2>1. table \o buffer \o logQueue = table \o (buffer \o logQueue)
      <3>1. table \in Seq(Nat) /\ buffer \in Seq(Nat) /\ logQueue \in Seq(Nat)
        BY <1>1
      <3> QED
        BY <3>1, Associative, Zenon
    <2>2. table \o (buffer \o logQueue) = head \o tail
      <3>1. (head \o kept) \o (buffer \o logQueue) = head \o (kept \o (buffer \o logQueue))
        <4>1. head \in Seq(Nat) /\ kept \in Seq(Nat) /\ buffer \o logQueue \in Seq(Nat)
          BY <1>2, <1>4
        <4> QED
          BY <4>1, Associative, Zenon
      <3> QED
        BY <1>2, <3>1
    <2>3. <<>> \o head = head
      BY <1>2, ConcatEmptySeq
    <2> QED
      BY <2>1, <2>2, <2>3
  <1>6. <<>> \o tail = tail /\ <<>> \in Seq(Nat)
    BY <1>4, ConcatEmptySeq
  <1> HIDE DEF tail
  <1>7. Whole(<<>> \o tail, sent, gone \union ToSet(head)) /\ ToSet(head) \subseteq 1 .. sent
    <2>1. Whole(<<>> \o head \o tail, sent, gone)
      BY <1>1, <1>5
    <2> QED
      BY <1>1, <1>2, <1>4, <1>6, <2>1, WholeCut
  <1>8. Whole(table' \o buffer' \o logQueue', sent', gone')
    BY <1>3, <1>4, <1>6, <1>7
  <1> QED
    BY <1>1, <1>2, <1>3, <1>7, <1>8 DEF LogInv

LEMMA RelaunchKeepsInv == ASSUME LogInv, Relaunch PROVE LogInv'
  <1> DEFINE held == buffer \o logQueue
  <1>1. /\ table \in Seq(Nat) /\ buffer \in Seq(Nat) /\ logQueue \in Seq(Nat)
        /\ sent \in Nat /\ gone \in SUBSET (1 .. sent)
        /\ Whole(table \o buffer \o logQueue, sent, gone)
    BY DEF LogInv
  <1>2. /\ gone' = gone \union ToSet(logQueue \o buffer) /\ logQueue' = <<>> /\ buffer' = <<>>
        /\ table' = table /\ sent' = sent
    BY DEF Relaunch
  <1>3. ToSet(logQueue \o buffer) = ToSet(held) /\ held \in Seq(Nat)
    <2>1. ToSet(logQueue \o buffer) = ToSet(logQueue) \union ToSet(buffer)
      BY <1>1, ToSetOfConcat
    <2>2. ToSet(buffer \o logQueue) = ToSet(buffer) \union ToSet(logQueue)
      BY <1>1, ToSetOfConcat
    <2>3. buffer \o logQueue \in Seq(Nat)
      BY <1>1, Concat
    <2> QED
      BY <2>1, <2>2, <2>3
  <1>4. /\ table \o buffer \o logQueue = table \o held
        /\ table \o held = table \o held \o <<>> /\ table \o <<>> = table /\ <<>> \in Seq(Nat)
    <2>1. table \o buffer \o logQueue = table \o held
      <3>1. table \in Seq(Nat) /\ buffer \in Seq(Nat) /\ logQueue \in Seq(Nat)
        BY <1>1
      <3> QED
        BY <3>1, Associative, Zenon DEF held
    <2>2. table \o held \in Seq(Nat)
      BY <1>1, <1>3
    <2> QED
      BY <1>1, <2>1, <2>2, ConcatEmptySeq
  <1> HIDE DEF held
  <1>5. Whole(table \o <<>>, sent, gone \union ToSet(held)) /\ ToSet(held) \subseteq 1 .. sent
    <2>1. Whole(table \o held \o <<>>, sent, gone)
      BY <1>1, <1>4
    <2> QED
      BY <1>1, <1>3, <1>4, <2>1, WholeCut
  <1>6. Whole(table' \o buffer' \o logQueue', sent', gone')
    BY <1>2, <1>3, <1>4, <1>5
  <1> QED
    BY <1>1, <1>2, <1>3, <1>4, <1>5, <1>6 DEF LogInv

LEMMA LogStepKeepsInv == ASSUME LogInv, [LogNext]_logVars PROVE LogInv'
  <1>1. CASE PruneLogs \/ StartWriter
    <2>1. PICK n \in 0 .. Len(table) : DeleteRows(n)
      BY <1>1 DEF PruneLogs, StartWriter, LogInv
    <2>2. UNCHANGED <<logQueue, buffer, sent>>
      BY <1>1 DEF PruneLogs, StartWriter
    <2> QED
      BY <2>1, <2>2, DeleteRowsKeepsInv
  <1>2. CASE DispatchRecord \/ ReceiveEntry \/ FlushTick \/ Relaunch
    BY <1>2, DispatchRecordKeepsInv, ReceiveEntryKeepsInv, FlushTickKeepsInv, RelaunchKeepsInv
  <1>3. CASE UNCHANGED logVars
    BY <1>3 DEF logVars, LogInv
  <1> QED
    BY <1>1, <1>2, <1>3 DEF LogNext

\* Table, buffer and channel hold every entry that is not gone, once and in order, for any
\* number of entries and any batch size.
THEOREM LogStaysWhole == Spec => []LogIsWhole
  <1>1. Init => LogInv
    BY LogInitInv DEF Init
  <1>2. LogInv /\ [Next]_serviceVars => LogInv'
    <2>1. [Next]_serviceVars => [LogNext]_logVars
      BY DEF serviceVars, Next, SettlementStep, LocalServerStep, WebBridgeStep, LogStep, RegistryStep
    <2> QED
      BY <2>1, LogStepKeepsInv
  <1>3. LogInv => LogIsWhole
    BY DEF LogInv, Whole, Sorted, LogIsWhole
  <1> QED
    BY <1>1, <1>2, <1>3, PTL DEF Spec

----------------------------------------------------------------------------
(* The types of all five.                                                  *)

LEMMA PartsOfWhole ==
    ASSUME NEW a \in Seq(Nat), NEW b \in Seq(Nat), NEW c \in Seq(Nat), NEW n \in Nat, NEW g,
           Whole(a \o b \o c, n, g)
    PROVE  a \in Seq(1 .. n) /\ b \in Seq(1 .. n) /\ c \in Seq(1 .. n)
  <1>1. a \o b \in Seq(Nat)
    BY Concat
  <1>2. ToSet(a \o b \o c) = ToSet(a) \union ToSet(b) \union ToSet(c)
    BY <1>1, ToSetOfConcat
  <1>3. ASSUME NEW s \in Seq(Nat), ToSet(s) \subseteq 1 .. n PROVE s \in Seq(1 .. n)
    <2>1. Len(s) \in Nat /\ \A i \in 1 .. Len(s) : s[i] \in 1 .. n
      BY <1>3, ToSetOf
    <2>2. s = [i \in 1 .. Len(s) |-> s[i]]
      OBVIOUS
    <2>3. [i \in 1 .. Len(s) |-> s[i]] \in Seq(1 .. n)
      BY <2>1, IsASeq
    <2> QED
      BY <2>2, <2>3
  <1>4. ToSet(a \o b \o c) \subseteq 1 .. n
    BY DEF Whole
  <1> QED
    BY <1>2, <1>3, <1>4

\* A flush leaves the buffer empty, and an entry that fills it is flushed.
LEMMA BufferIsShort ==
    ASSUME LogInv, LogTypeOK, [LogNext]_logVars
    PROVE  writing' \in BOOLEAN /\ Len(buffer') < BatchMax /\ sent' \in 0 .. MaxEntries
  <1>1. writing' \in BOOLEAN
    BY DEF LogNext, DispatchRecord, ReceiveEntry, FlushTick, PruneLogs, StartWriter, Relaunch, logVars,
           LogTypeOK
  <1>2. buffer' \in {buffer, <<>>} \/ Len(buffer') < BatchMax
    <2>1. CASE ReceiveEntry
      <3>1. buffer \in Seq(Nat) /\ Head(logQueue) \in Nat
        BY <2>1, HeadTailProperties DEF LogInv, ReceiveEntry
      <3>2. Len(Append(buffer, Head(logQueue))) \in Nat
        BY <3>1
      <3> QED
        BY <2>1, <3>2, LogAssumption DEF ReceiveEntry, BatchFull, Flush, Taken
    <2>2. CASE ~ReceiveEntry
      BY <2>2 DEF LogNext, DispatchRecord, FlushTick, Flush, Taken, PruneLogs, StartWriter, Relaunch,
                  logVars
    <2> QED
      BY <2>1, <2>2
  <1>3. Len(<<>>) = 0 /\ 0 < BatchMax
    BY LogAssumption
  <1>4. sent' \in 0 .. MaxEntries
    <2>1. sent' = sent \/ (sent < MaxEntries /\ sent' = sent + 1)
      <3>1. ASSUME NEW batch, NEW rest, Flush(batch, rest)
            PROVE  sent' = sent \/ (sent < MaxEntries /\ sent' = sent + 1)
        BY <3>1 DEF Flush, DropBatch
      <3>2. CASE ReceiveEntry
        BY <3>1, <3>2 DEF ReceiveEntry
      <3>3. CASE FlushTick
        BY <3>1, <3>3 DEF FlushTick
      <3>4. CASE DispatchRecord \/ PruneLogs \/ StartWriter \/ Relaunch \/ UNCHANGED logVars
        BY <3>4 DEF DispatchRecord, PruneLogs, StartWriter, Relaunch, logVars
      <3> QED
        BY <3>2, <3>3, <3>4 DEF LogNext
    <2> QED
      BY <2>1, LogAssumption DEF LogTypeOK
  <1> QED
    BY <1>1, <1>2, <1>3, <1>4 DEF LogTypeOK

TypeInv == SettlementInv /\ LocalInv /\ BridgeInv /\ LogInv /\ LogTypeOK /\ RegistryInv

\* Every variable of the five services has its type, for all values of the constants.
THEOREM ServicesTypes == Spec => []TypeOK
  <1>1. Init => TypeInv
    <2> SUFFICES ASSUME Init PROVE TypeInv
      OBVIOUS
    <2>1. LogInv
      BY LogInitInv DEF Init
    <2>2. LogTypeOK
      <3>1. {logQueue, buffer, table} \subseteq Seq(1 .. sent)
        BY <2>1, PartsOfWhole DEF LogInv
      <3>2. Len(buffer) = 0 /\ sent = 0 /\ gone \in SUBSET (1 .. sent) /\ writing \in BOOLEAN
        BY DEF Init, LogInit
      <3>3. Len(buffer) < BatchMax /\ sent \in 0 .. MaxEntries
        BY <3>2, LogAssumption
      <3> QED
        BY <3>1, <3>2, <3>3 DEF LogTypeOK
    <2> QED
      BY <2>1, <2>2, SettlementInitInv, LocalInitInv, BridgeInitInv, RegistryInitInv DEF Init, TypeInv
  <1>2. TypeInv /\ [Next]_serviceVars => TypeInv'
    <2> SUFFICES ASSUME TypeInv, [Next]_serviceVars PROVE TypeInv'
      OBVIOUS
    <2>1. /\ [SettlementNext]_settlementVars /\ [LocalNext]_localVars /\ [BridgeNext]_bridgeVars
          /\ [LogNext]_logVars /\ [RegistryNext]_registryVars
      BY DEF serviceVars, Next, SettlementStep, LocalServerStep, WebBridgeStep, LogStep, RegistryStep
    <2>2. SettlementInv' /\ LocalInv' /\ BridgeInv' /\ RegistryInv'
      BY <2>1, SettlementStepKeepsInv, LocalStepKeepsInv, BridgeStepKeepsInv, RegistryStepKeepsInv
         DEF TypeInv
    <2>3. LogInv'
      BY <2>1, LogStepKeepsInv DEF TypeInv
    <2>4. LogTypeOK'
      <3>1. {logQueue', buffer', table'} \subseteq Seq(1 .. sent')
        <4>1. /\ table' \in Seq(Nat) /\ buffer' \in Seq(Nat) /\ logQueue' \in Seq(Nat) /\ sent' \in Nat
              /\ Whole(table' \o buffer' \o logQueue', sent', gone')
          BY <2>3 DEF LogInv
        <4> QED
          BY <4>1, PartsOfWhole
      <3>2. writing' \in BOOLEAN /\ Len(buffer') < BatchMax /\ sent' \in 0 .. MaxEntries
        BY <2>1, BufferIsShort DEF TypeInv
      <3> QED
        BY <2>3, <3>1, <3>2 DEF LogInv, LogTypeOK
    <2> QED
      BY <2>2, <2>3, <2>4 DEF TypeInv
  <1>3. TypeInv => TypeOK
    BY DEF TypeInv, TypeOK, SettlementInv, LocalInv, BridgeInv, RegistryInv
  <1> QED
    BY <1>1, <1>2, <1>3, PTL DEF Spec
=============================================================================
