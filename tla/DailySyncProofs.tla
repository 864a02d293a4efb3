-------------------------- MODULE DailySyncProofs --------------------------
(***************************************************************************)
(* Proofs about the daily statistics, for any tasks, any number of         *)
(* overlapping commands, and any clock that runs forward.                  *)
(***************************************************************************)
EXTENDS DailySyncProps, TLAPS

\* Times: nothing is dated after now, and a row of the task log has a date.
TimeInv ==
    /\ now \in Nat /\ now >= 1
    /\ lastSync <= now
    /\ \A t \in Tasks : stamp[t] <= now
    /\ \A t \in logged : stamp[t] # 0

\* One command at a time stands between the statements of the aggregation, and
\* only then is there an aggregation under way.
LockInv ==
    /\ \A c, d \in Callers : pc[c] = "dating" /\ pc[d] = "dating" => c = d
    /\ ConnFree => fresh = {}
    /\ ~ConnFree => \A t \in logged \ Failed : t \in Summed \/ t \in late

\* What CountedOnce rests on: a summed task is older than last_daily_sync, or
\* its aggregation is under way or was cut off; numbers tell aggregations apart.
SummedInv ==
    /\ \A r \in rows : r.batch <= batch
    /\ \A r \in rows : \A t \in r.tasks :
        stamp[t] <= lastSync \/ t \in cut \/ t \in fresh

\* What SyncedWasReceived rests on: a command that marks has been answered.
MarkInv == \A c \in Callers : pc[c] = "marking" => unsynced[c] \subseteq accepted

SyncInv ==
    /\ TypeOK
    /\ TimeInv
    /\ LockInv
    /\ SummedInv
    /\ MarkInv
    /\ CountedOnce
    /\ MissedOnlyIfLate
    /\ SyncedWasReceived

LEMMA InitGivesInv == Init => SyncInv
  <1> SUFFICES ASSUME Init PROVE SyncInv
    OBVIOUS
  <1>1. TypeOK
    BY ConstAssumption DEF Init, TypeOK, Stages
  <1>2. TimeInv /\ MarkInv /\ SummedInv
    BY DEF Init, TimeInv, MarkInv, SummedInv
  <1>3. LockInv
    BY DEF Init, LockInv, ConnFree
  <1>4. CountedOnce /\ MissedOnlyIfLate /\ SyncedWasReceived
    BY DEF Init, CountedOnce, MissedOnlyIfLate, SyncedWasReceived
  <1> QED
    BY <1>1, <1>2, <1>3, <1>4 DEF SyncInv


LEMMA TickKeepsInv == ASSUME SyncInv, Tick PROVE SyncInv'
  <1>1. now' = now + 1 /\ now < MaxTime
        /\ UNCHANGED <<stamp, logged, lastSync, rows, synced, batch, pc, unsynced,
                       accepted, fresh, cut, late, faults>>
    BY DEF Tick
  <1>2. TypeOK' /\ TimeInv'
    BY <1>1, ConstAssumption DEF SyncInv, TypeOK, TimeInv, RowType, Kinds
  <1>3. LockInv' /\ SummedInv' /\ MarkInv'
    BY <1>1 DEF SyncInv, LockInv, SummedInv, MarkInv, ConnFree, Summed
  <1>4. CountedOnce' /\ MissedOnlyIfLate' /\ SyncedWasReceived'
    BY <1>1 DEF SyncInv, CountedOnce, MissedOnlyIfLate, SyncedWasReceived, Summed
  <1> QED
    BY <1>2, <1>3, <1>4 DEF SyncInv

LEMMA FinishKeepsInv == ASSUME SyncInv, NEW t \in Tasks, Finish(t) PROVE SyncInv'
  <1>1. stamp[t] = 0 /\ stamp' = [stamp EXCEPT ![t] = now]
        /\ UNCHANGED <<now, logged, lastSync, rows, synced, batch, pc, unsynced,
                       accepted, fresh, cut, late, faults>>
    BY DEF Finish
  <1>2. t \notin logged
    BY <1>1 DEF SyncInv, TimeInv
  <1>3. \A u \in logged : stamp'[u] = stamp[u]
    BY <1>1, <1>2 DEF SyncInv, TypeOK
  <1>4. TypeOK'
    BY <1>1 DEF SyncInv, TypeOK, TimeInv, RowType, Kinds
  <1>5. TimeInv'
    BY <1>1, <1>3 DEF SyncInv, TypeOK, TimeInv
  <1>6. LockInv' /\ MarkInv'
    BY <1>1 DEF SyncInv, LockInv, MarkInv, ConnFree, Summed
  <1>7. SummedInv'
    <2>1. \A r \in rows : r.tasks \subseteq logged
      BY DEF SyncInv, TypeOK
    <2> QED
      BY <1>1, <1>3, <2>1 DEF SyncInv, SummedInv
  <1>8. CountedOnce' /\ MissedOnlyIfLate' /\ SyncedWasReceived'
    BY <1>1, <1>3 DEF SyncInv, CountedOnce, MissedOnlyIfLate, SyncedWasReceived, Summed
  <1> QED
    BY <1>4, <1>5, <1>6, <1>7, <1>8 DEF SyncInv

LEMMA LogTaskKeepsInv == ASSUME SyncInv, NEW t \in Tasks, LogTask(t) PROVE SyncInv'
  <1>1. /\ stamp[t] # 0 /\ t \notin logged /\ ConnFree
        /\ logged' = logged \union {t}
        /\ late' = IF stamp[t] <= lastSync THEN late \union {t} ELSE late
        /\ UNCHANGED <<now, stamp, lastSync, rows, synced, batch, pc, unsynced,
                       accepted, fresh, cut, faults>>
    BY DEF LogTask
  <1>2. TypeOK'
    <2>1. \A r \in rows' : r.tasks \subseteq logged' \ Failed
      BY <1>1 DEF SyncInv, TypeOK
    <2> QED
      BY <1>1, <2>1 DEF SyncInv, TypeOK, RowType, Kinds
  <1>3. TimeInv'
    BY <1>1 DEF SyncInv, TimeInv
  <1>4. LockInv' /\ SummedInv' /\ MarkInv'
    BY <1>1 DEF SyncInv, LockInv, SummedInv, MarkInv, ConnFree
  <1>5. MissedOnlyIfLate'
    <2> SUFFICES ASSUME NEW u \in logged' \ Failed
                 PROVE  u \in Summed' \/ stamp'[u] > lastSync' \/ u \in late'
      BY DEF MissedOnlyIfLate
    <2>1. CASE u = t
      <3>1. stamp[t] \in Nat /\ lastSync \in Nat
        BY DEF SyncInv, TypeOK
      <3> QED
        BY <1>1, <2>1, <3>1
    <2>2. CASE u \in logged
      BY <1>1, <2>2 DEF SyncInv, MissedOnlyIfLate, Summed
    <2> QED
      BY <1>1, <2>1, <2>2
  <1>6. CountedOnce' /\ SyncedWasReceived'
    BY <1>1 DEF SyncInv, CountedOnce, SyncedWasReceived
  <1> QED
    BY <1>2, <1>3, <1>4, <1>5, <1>6 DEF SyncInv

\* The rows of an aggregation: numbered after all others, they sum the pending
\* tasks, each once.
LEMMA NewRowsFacts ==
    ASSUME SyncInv
    PROVE  /\ NewRows \subseteq RowType
           /\ \A r \in NewRows : r.batch = batch + 1 /\ r.tasks \subseteq Pending
           /\ \A r, s \in NewRows : r # s => r.tasks \intersect s.tasks = {}
           /\ \A t \in Pending : \E r \in NewRows : t \in r.tasks
           /\ Pending = {} => NewRows = {}
  <1> DEFINE Row(k) == [batch |-> batch + 1, kind |-> k,
                        tasks |-> {t \in Pending : KindOf[t] = k}]
  <1>1. NewRows = {Row(k) : k \in {KindOf[t] : t \in Pending}}
    BY DEF NewRows
  <1>2. Pending \subseteq Tasks /\ batch \in Nat
    BY DEF SyncInv, TypeOK, Pending
  <1>3. \A k : Row(k).batch = batch + 1 /\ Row(k).kind = k
               /\ Row(k).tasks = {t \in Pending : KindOf[t] = k}
    OBVIOUS
  <1> HIDE DEF Row
  <1>4. NewRows \subseteq RowType
    <2> SUFFICES ASSUME NEW t \in Pending PROVE Row(KindOf[t]) \in RowType
      BY <1>1
    <2> QED
      BY <1>2 DEF Row, RowType, Kinds
  <1>5. \A r \in NewRows : r.batch = batch + 1 /\ r.tasks \subseteq Pending
    BY <1>1, <1>3
  <1>6. \A r, s \in NewRows : r # s => r.tasks \intersect s.tasks = {}
    <2> SUFFICES ASSUME NEW j, NEW k, j # k
                 PROVE  Row(j).tasks \intersect Row(k).tasks = {}
      BY <1>1
    <2> QED
      BY <1>3
  <1>7. \A t \in Pending : \E r \in NewRows : t \in r.tasks
    <2> TAKE t \in Pending
    <2>1. Row(KindOf[t]) \in NewRows
      BY <1>1
    <2>2. t \in Row(KindOf[t]).tasks
      BY <1>3
    <2> QED
      BY <2>1, <2>2
  <1>8. Pending = {} => NewRows = {}
    BY <1>1
  <1> QED
    BY <1>4, <1>5, <1>6, <1>7, <1>8

LEMMA InsertRowsKeepsInv ==
    ASSUME SyncInv, NEW c \in Callers, InsertRows(c) PROVE SyncInv'
  <1>1. /\ pc[c] = "idle" /\ ConnFree
        /\ rows' = rows \union NewRows
        /\ batch' = IF Pending = {} THEN batch ELSE batch + 1
        /\ fresh' = Pending
        /\ pc' = [pc EXCEPT ![c] = "dating"]
        /\ UNCHANGED <<now, stamp, logged, late, lastSync, synced, unsynced,
                       accepted, cut, faults>>
    BY DEF InsertRows, logVars
  <1>2. /\ fresh = {} /\ \A d \in Callers : pc[d] # "dating"
        /\ pc'[c] = "dating" /\ \A d \in Callers \ {c} : pc'[d] = pc[d]
        /\ Pending \subseteq logged \ Failed
    BY <1>1 DEF SyncInv, LockInv, ConnFree, TypeOK, Pending
  <1>3. TypeOK'
    <2>1. rows' \in SUBSET RowType
      BY <1>1, NewRowsFacts DEF SyncInv, TypeOK
    <2>2. \A r \in rows' : r.tasks \subseteq logged' \ Failed
      BY <1>1, <1>2, NewRowsFacts DEF SyncInv, TypeOK
    <2>3. /\ unsynced' \in [Callers -> SUBSET rows']
          /\ synced' \in SUBSET rows' /\ accepted' \in SUBSET rows'
      BY <1>1 DEF SyncInv, TypeOK
    <2>4. /\ batch' \in Nat /\ pc' \in [Callers -> Stages] /\ fresh' \in SUBSET Tasks
      BY <1>1, <1>2 DEF SyncInv, TypeOK, Stages
    <2>5. RowType' = RowType
      BY DEF RowType, Kinds
    <2> QED
      BY <1>1, <2>1, <2>2, <2>3, <2>4, <2>5 DEF SyncInv, TypeOK
  <1>4. TimeInv' /\ MarkInv'
    BY <1>1, <1>2 DEF SyncInv, TimeInv, MarkInv
  <1>5. \A t \in logged \ Failed : t \in Summed' \/ t \in late
    <2> TAKE t \in logged \ Failed
    <2>1. CASE t \in Pending
      BY <1>1, <2>1, NewRowsFacts DEF Summed
    <2>2. CASE t \notin Pending
      <3>1. stamp[t] \in Nat /\ lastSync \in Nat /\ t \in Tasks
        BY DEF SyncInv, TypeOK
      <3>2. stamp[t] <= lastSync
        BY <2>2, <3>1 DEF Pending
      <3>3. t \in Summed \/ t \in late
        BY <3>1, <3>2 DEF SyncInv, MissedOnlyIfLate
      <3> QED
        BY <1>1, <3>3 DEF Summed
    <2> QED
      BY <2>1, <2>2
  <1>6. LockInv'
    <2>1. ~ConnFree'
      BY <1>2 DEF ConnFree
    <2>2. \A d, e \in Callers : pc'[d] = "dating" /\ pc'[e] = "dating" => d = e
      BY <1>2
    <2>3. \A t \in logged' \ Failed : t \in Summed' \/ t \in late'
      BY <1>1, <1>5
    <2> QED
      BY <2>1, <2>2, <2>3 DEF LockInv
  <1>7. SummedInv'
    <2>1. \A r \in rows' : r.batch <= batch'
      <3>1. \A r \in rows : r.batch \in Nat /\ r.batch <= batch /\ batch \in Nat
        BY DEF SyncInv, SummedInv, TypeOK, RowType
      <3>2. \A r \in NewRows : r.batch = batch' /\ batch' = batch + 1
        BY <1>1, NewRowsFacts
      <3>3. batch' \in Nat /\ batch' >= batch
        BY <1>1 DEF SyncInv, TypeOK
      <3> QED
        BY <1>1, <3>1, <3>2, <3>3
    <2>2. \A r \in rows' : \A t \in r.tasks :
            stamp'[t] <= lastSync' \/ t \in cut' \/ t \in fresh'
      BY <1>1, <1>2, NewRowsFacts DEF SyncInv, SummedInv
    <2> QED
      BY <2>1, <2>2 DEF SummedInv
  <1>8. CountedOnce'
    <2>1. \A r \in rows : r.tasks \intersect Pending \subseteq cut
      <3> SUFFICES ASSUME NEW r \in rows, NEW t \in r.tasks, t \in Pending
                   PROVE  t \in cut
        OBVIOUS
      <3>1. stamp[t] \in Nat /\ lastSync \in Nat /\ stamp[t] > lastSync
        BY DEF SyncInv, TypeOK, Pending
      <3> QED
        BY <1>2, <3>1 DEF SyncInv, SummedInv
    <2>2. \A r \in rows : \A s \in NewRows : r.tasks \intersect s.tasks \subseteq cut
      BY <2>1, NewRowsFacts
    <2>3. \A r, s \in NewRows : r # s => r.tasks \intersect s.tasks \subseteq cut
      BY NewRowsFacts
    <2>4. \A r, s \in rows : r # s => r.tasks \intersect s.tasks \subseteq cut
      BY DEF SyncInv, CountedOnce
    <2> QED
      BY <1>1, <2>2, <2>3, <2>4 DEF CountedOnce
  <1>9. MissedOnlyIfLate' /\ SyncedWasReceived'
    BY <1>1, <1>5 DEF SyncInv, MissedOnlyIfLate, SyncedWasReceived
  <1> QED
    BY <1>3, <1>4, <1>6, <1>7, <1>8, <1>9 DEF SyncInv

LEMMA SetLastSyncKeepsInv ==
    ASSUME SyncInv, NEW c \in Callers, SetLastSync(c) PROVE SyncInv'
  <1>1. /\ pc[c] = "dating" /\ lastSync' = now /\ fresh' = {}
        /\ pc' = [pc EXCEPT ![c] = "reading"]
        /\ UNCHANGED <<now, stamp, logged, late, rows, synced, batch, unsynced,
                       accepted, cut, faults>>
    BY DEF SetLastSync, logVars
  <1>2. /\ ~ConnFree /\ ConnFree'
        /\ pc'[c] = "reading" /\ \A d \in Callers \ {c} : pc'[d] = pc[d]
    BY <1>1 DEF SyncInv, LockInv, ConnFree, TypeOK
  <1>3. TypeOK'
    BY <1>1 DEF SyncInv, TypeOK, TimeInv, Stages, RowType, Kinds
  <1>4. TimeInv' /\ MarkInv'
    BY <1>1, <1>2 DEF SyncInv, TimeInv, MarkInv
  <1>5. LockInv'
    BY <1>1, <1>2 DEF LockInv, ConnFree
  <1>6. SummedInv'
    <2>1. \A r \in rows : \A t \in r.tasks : stamp[t] <= now
      BY DEF SyncInv, TypeOK, TimeInv
    <2> QED
      BY <1>1, <2>1 DEF SyncInv, SummedInv
  <1>7. MissedOnlyIfLate'
    BY <1>1, <1>2 DEF SyncInv, LockInv, MissedOnlyIfLate, Summed
  <1>8. CountedOnce' /\ SyncedWasReceived'
    BY <1>1 DEF SyncInv, CountedOnce, SyncedWasReceived
  <1> QED
    BY <1>3, <1>4, <1>5, <1>6, <1>7, <1>8 DEF SyncInv

LEMMA SetLastSyncFailsKeepsInv ==
    ASSUME SyncInv, NEW c \in Callers, SetLastSyncFails(c) PROVE SyncInv'
  <1>1. /\ pc[c] = "dating" /\ faults < MaxFaults /\ faults' = faults + 1
        /\ cut' = cut \union fresh /\ fresh' = {}
        /\ pc' = [pc EXCEPT ![c] = "idle"]
        /\ UNCHANGED <<now, stamp, logged, late, lastSync, rows, synced, batch,
                       unsynced, accepted>>
    BY DEF SetLastSyncFails, logVars
  <1>2. /\ ConnFree'
        /\ pc'[c] = "idle" /\ \A d \in Callers \ {c} : pc'[d] = pc[d]
    BY <1>1 DEF SyncInv, LockInv, ConnFree, TypeOK
  <1>3. TypeOK'
    BY <1>1, ConstAssumption DEF SyncInv, TypeOK, Stages, RowType, Kinds
  <1>4. TimeInv' /\ MarkInv'
    BY <1>1, <1>2 DEF SyncInv, TimeInv, MarkInv
  <1>5. LockInv'
    BY <1>1, <1>2 DEF LockInv, ConnFree
  <1>6. SummedInv'
    BY <1>1 DEF SyncInv, SummedInv
  <1>7. CountedOnce' /\ MissedOnlyIfLate' /\ SyncedWasReceived'
    BY <1>1 DEF SyncInv, CountedOnce, MissedOnlyIfLate, SyncedWasReceived, Summed
  <1> QED
    BY <1>3, <1>4, <1>5, <1>6, <1>7 DEF SyncInv

LEMMA ReadUnsyncedKeepsInv ==
    ASSUME SyncInv, NEW c \in Callers, ReadUnsynced(c) PROVE SyncInv'
  <1>1. /\ pc[c] = "reading" /\ ConnFree
        /\ unsynced' = [unsynced EXCEPT ![c] = rows \ synced]
        /\ pc' = [pc EXCEPT ![c] = IF rows \subseteq synced THEN "idle" ELSE "pushing"]
        /\ UNCHANGED <<now, stamp, logged, late, lastSync, rows, synced, batch,
                       accepted, fresh, cut, faults>>
    BY DEF ReadUnsynced, logVars
  <1>2. /\ ConnFree'
        /\ pc'[c] \in {"idle", "pushing"}
        /\ \A d \in Callers \ {c} : pc'[d] = pc[d] /\ unsynced'[d] = unsynced[d]
    BY <1>1 DEF SyncInv, ConnFree, TypeOK
  <1>3. TypeOK'
    BY <1>1 DEF SyncInv, TypeOK, Stages, RowType, Kinds
  <1>4. TimeInv' /\ MarkInv'
    BY <1>1, <1>2 DEF SyncInv, TimeInv, MarkInv
  <1>5. LockInv'
    BY <1>1, <1>2 DEF SyncInv, LockInv, ConnFree
  <1>6. SummedInv' /\ CountedOnce' /\ MissedOnlyIfLate' /\ SyncedWasReceived'
    BY <1>1 DEF SyncInv, SummedInv, CountedOnce, MissedOnlyIfLate, SyncedWasReceived, Summed
  <1> QED
    BY <1>3, <1>4, <1>5, <1>6 DEF SyncInv

LEMMA PushKeepsInv == ASSUME SyncInv, NEW c \in Callers, Push(c) PROVE SyncInv'
  <1>1. /\ pc[c] = "pushing"
        /\ accepted' = accepted \union unsynced[c]
        /\ pc' = [pc EXCEPT ![c] = "marking"]
        /\ UNCHANGED <<now, stamp, logged, late, lastSync, rows, synced, batch,
                       unsynced, fresh, cut, faults>>
    BY DEF Push, logVars
  <1>2. /\ pc'[c] = "marking" /\ \A d \in Callers \ {c} : pc'[d] = pc[d]
        /\ ConnFree' <=> ConnFree
    BY <1>1 DEF SyncInv, ConnFree, TypeOK
  <1>3. TypeOK'
    BY <1>1 DEF SyncInv, TypeOK, Stages, RowType, Kinds
  <1>4. TimeInv' /\ MarkInv'
    BY <1>1, <1>2 DEF SyncInv, TimeInv, MarkInv
  <1>5. LockInv'
    BY <1>1, <1>2 DEF SyncInv, LockInv, Summed
  <1>6. SummedInv' /\ CountedOnce' /\ MissedOnlyIfLate' /\ SyncedWasReceived'
    BY <1>1 DEF SyncInv, SummedInv, CountedOnce, MissedOnlyIfLate, SyncedWasReceived, Summed
  <1> QED
    BY <1>3, <1>4, <1>5, <1>6 DEF SyncInv

LEMMA PushFailsKeepsInv == ASSUME SyncInv, NEW c \in Callers, PushFails(c) PROVE SyncInv'
  <1>1. /\ pc[c] \in {"pushing", "marking"}
        /\ pc' = [pc EXCEPT ![c] = "idle"]
        /\ unsynced' = [unsynced EXCEPT ![c] = {}]
        /\ UNCHANGED <<now, stamp, logged, late, lastSync, rows, synced, batch,
                       accepted, fresh, cut, faults>>
    BY DEF PushFails, logVars
  <1>2. /\ pc'[c] = "idle"
        /\ ConnFree' <=> ConnFree
        /\ \A d \in Callers \ {c} : pc'[d] = pc[d] /\ unsynced'[d] = unsynced[d]
    BY <1>1 DEF SyncInv, ConnFree, TypeOK
  <1>3. TypeOK'
    BY <1>1 DEF SyncInv, TypeOK, Stages, RowType, Kinds
  <1>4. TimeInv' /\ MarkInv'
    BY <1>1, <1>2 DEF SyncInv, TimeInv, MarkInv
  <1>5. LockInv'
    BY <1>1, <1>2 DEF SyncInv, LockInv, Summed
  <1>6. SummedInv' /\ CountedOnce' /\ MissedOnlyIfLate' /\ SyncedWasReceived'
    BY <1>1 DEF SyncInv, SummedInv, CountedOnce, MissedOnlyIfLate, SyncedWasReceived, Summed
  <1> QED
    BY <1>3, <1>4, <1>5, <1>6 DEF SyncInv

LEMMA MarkSyncedKeepsInv ==
    ASSUME SyncInv, NEW c \in Callers, MarkSynced(c) PROVE SyncInv'
  <1>1. /\ pc[c] = "marking" /\ ConnFree
        /\ synced' = synced \union unsynced[c]
        /\ pc' = [pc EXCEPT ![c] = "idle"]
        /\ unsynced' = [unsynced EXCEPT ![c] = {}]
        /\ UNCHANGED <<now, stamp, logged, late, lastSync, rows, batch, accepted,
                       fresh, cut, faults>>
    BY DEF MarkSynced, Marked, logVars
  <1>2. /\ pc'[c] = "idle" /\ ConnFree'
        /\ \A d \in Callers \ {c} : pc'[d] = pc[d] /\ unsynced'[d] = unsynced[d]
    BY <1>1 DEF SyncInv, ConnFree, TypeOK
  <1>3. TypeOK'
    BY <1>1 DEF SyncInv, TypeOK, Stages, RowType, Kinds
  <1>4. TimeInv' /\ MarkInv'
    BY <1>1, <1>2 DEF SyncInv, TimeInv, MarkInv
  <1>5. LockInv'
    BY <1>1, <1>2 DEF SyncInv, LockInv, ConnFree
  <1>6. SyncedWasReceived'
    BY <1>1 DEF SyncInv, MarkInv, SyncedWasReceived
  <1>7. SummedInv' /\ CountedOnce' /\ MissedOnlyIfLate'
    BY <1>1 DEF SyncInv, SummedInv, CountedOnce, MissedOnlyIfLate, Summed
  <1> QED
    BY <1>3, <1>4, <1>5, <1>6, <1>7 DEF SyncInv

LEMMA CrashKeepsInv == ASSUME SyncInv, Crash PROVE SyncInv'
  <1>1. /\ faults < MaxFaults /\ faults' = faults + 1
        /\ stamp' = [t \in Tasks |-> IF t \in logged THEN stamp[t] ELSE 0]
        /\ cut' = cut \union fresh /\ fresh' = {}
        /\ pc' = [c \in Callers |-> "idle"]
        /\ unsynced' = [c \in Callers |-> {}]
        /\ UNCHANGED <<now, logged, lastSync, rows, synced, batch, accepted, late>>
    BY DEF Crash
  <1>2. /\ ConnFree' /\ \A c \in Callers : pc'[c] = "idle"
        /\ \A t \in logged : stamp'[t] = stamp[t]
        /\ \A t \in Tasks : stamp'[t] \in {stamp[t], 0}
    BY <1>1 DEF SyncInv, ConnFree, TypeOK
  <1>3. TypeOK'
    BY <1>1, ConstAssumption DEF SyncInv, TypeOK, Stages, RowType, Kinds
  <1>4. TimeInv' /\ MarkInv'
    BY <1>1, <1>2 DEF SyncInv, TimeInv, MarkInv
  <1>5. LockInv'
    BY <1>1, <1>2 DEF LockInv
  <1>6. SummedInv'
    <2>1. \A r \in rows : r.tasks \subseteq logged
      BY DEF SyncInv, TypeOK
    <2> QED
      BY <1>1, <1>2, <2>1 DEF SyncInv, SummedInv
  <1>7. CountedOnce' /\ MissedOnlyIfLate' /\ SyncedWasReceived'
    BY <1>1, <1>2 DEF SyncInv, CountedOnce, MissedOnlyIfLate, SyncedWasReceived, Summed
  <1> QED
    BY <1>3, <1>4, <1>5, <1>6, <1>7 DEF SyncInv

LEMMA StepKeepsInv == SyncInv /\ [Next]_vars => SyncInv'
  <1> SUFFICES ASSUME SyncInv, [Next]_vars PROVE SyncInv'
    OBVIOUS
  <1>1. CASE Tick
    BY <1>1, TickKeepsInv
  <1>2. CASE \E t \in Tasks : Finish(t) \/ LogTask(t)
    BY <1>2, FinishKeepsInv, LogTaskKeepsInv
  <1>3. CASE \E c \in Callers : InsertRows(c) \/ SetLastSync(c) \/ SetLastSyncFails(c)
    BY <1>3, InsertRowsKeepsInv, SetLastSyncKeepsInv, SetLastSyncFailsKeepsInv
  <1>4. CASE \E c \in Callers : ReadUnsynced(c) \/ Push(c) \/ PushFails(c) \/ MarkSynced(c)
    BY <1>4, ReadUnsyncedKeepsInv, PushKeepsInv, PushFailsKeepsInv, MarkSyncedKeepsInv
  <1>5. CASE Crash
    BY <1>5, CrashKeepsInv
  <1>6. CASE UNCHANGED vars
    BY <1>6 DEF vars, SyncInv, TypeOK, TimeInv, LockInv, SummedInv, MarkInv, CountedOnce,
                MissedOnlyIfLate, SyncedWasReceived, ConnFree, Summed, RowType, Kinds
  <1> QED
    BY <1>1, <1>2, <1>3, <1>4, <1>5, <1>6 DEF Next

LEMMA InvHolds == Spec => []SyncInv
  BY InitGivesInv, StepKeepsInv, PTL DEF Spec

----------------------------------------------------------------------------
\* The variables keep their types, and only completed, logged tasks are summed.
THEOREM TypeCorrect == Spec => []TypeOK
  <1>1. SyncInv => TypeOK
    BY DEF SyncInv
  <1> QED
    BY <1>1, InvHolds, PTL

\* However many commands overlap, no task is in the rows of two aggregations
\* that came to their end.
THEOREM CountsOnce == Spec => []CountedOnce
  <1>1. SyncInv => CountedOnce
    BY DEF SyncInv
  <1> QED
    BY <1>1, InvHolds, PTL

\* A completed task is only ever left out because it was logged too late for
\* the date it carries.
THEOREM MissesOnlyLate == Spec => []MissedOnlyIfLate
  <1>1. SyncInv => MissedOnlyIfLate
    BY DEF SyncInv
  <1> QED
    BY <1>1, InvHolds, PTL

\* What is marked synced has reached the cloud.
THEOREM MarksAreEarned == Spec => []SyncedWasReceived
  <1>1. SyncInv => SyncedWasReceived
    BY DEF SyncInv
  <1> QED
    BY <1>1, InvHolds, PTL
=============================================================================
