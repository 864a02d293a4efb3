----------------------------- MODULE DailySync -----------------------------
(***************************************************************************)
(* The daily statistics of share.db.  Finished tasks are logged in         *)
(* p2p_task_log; sync_daily_stats sums those newer than last_daily_sync    *)
(* into rows of daily_sync_log, pushes the rows without the synced mark to *)
(* the cloud and marks what it pushed.  The connection of the database is  *)
(* one mutex, taken for each call of a DAO and free during the request.    *)
(* The clock is taken to run forward.                                      *)
(***************************************************************************)
EXTENDS Naturals, FiniteSets

CONSTANTS
    Tasks,      \* tasks served or consumed
    Failed,     \* those that do not end completed
    KindOf,     \* the date, direction and model of each task
    Callers,    \* invocations of sync_daily_stats that may overlap
    MaxTime,    \* bound: seconds of the clock
    MaxFaults   \* bound: ends of the program and failed second statements

ASSUME ConstAssumption ==
    /\ Failed \subseteq Tasks
    /\ DOMAIN KindOf = Tasks
    /\ MaxTime \in Nat /\ MaxFaults \in Nat

VARIABLES
    now,        \* seconds, from 1
    stamp,      \* created_at of each task, 0 before it has one
    logged,     \* tasks with a row in p2p_task_log
    lastSync,   \* last_daily_sync of client_config, 0 if absent
    rows,       \* rows of daily_sync_log, each with the tasks it sums
    synced,     \* those marked synced = 1
    batch,      \* history: aggregations that wrote rows
    pc,         \* where each sync_daily_stats stands
    unsynced,   \* the rows each has read to push
    accepted,   \* history: rows the cloud has received
    fresh,      \* history: tasks summed by the aggregation under way
    cut,        \* history: tasks of aggregations that did not get to the date
    late,       \* history: tasks logged when their second was already summed
    faults      \* faults so far

logVars == <<now, stamp, logged, late>>
vars == <<now, stamp, logged, lastSync, rows, synced, batch, pc, unsynced,
          accepted, fresh, cut, late, faults>>

Stages == {"idle", "dating", "reading", "pushing", "marking"}
Kinds == {KindOf[t] : t \in Tasks}

\* Only between the two statements of the aggregation is the mutex held across
\* a step; every other call takes and releases it within one.
ConnFree == \A c \in Callers : pc[c] # "dating"

----------------------------------------------------------------------------
Tick ==
    /\ now < MaxTime
    /\ now' = now + 1
    /\ UNCHANGED <<stamp, logged, lastSync, rows, synced, batch, pc, unsynced,
                   accepted, fresh, cut, late, faults>>

\* The row of a task gets its time before insert_p2p_task_log asks for the mutex.
Finish(t) ==
    /\ stamp[t] = 0
    /\ stamp' = [stamp EXCEPT ![t] = now]
    /\ UNCHANGED <<now, logged, lastSync, rows, synced, batch, pc, unsynced,
                   accepted, fresh, cut, late, faults>>

LogTask(t) ==
    /\ stamp[t] # 0
    /\ t \notin logged
    /\ ConnFree
    /\ logged' = logged \union {t}
    /\ late' = IF stamp[t] <= lastSync THEN late \union {t} ELSE late
    /\ UNCHANGED <<now, stamp, lastSync, rows, synced, batch, pc, unsynced,
                   accepted, fresh, cut, faults>>

\* The tasks the aggregation sums; faulty variants repeat the last second and
\* skip one more.
PendingFrom == {t \in logged \ Failed : stamp[t] >= lastSync}
PendingPast == {t \in logged \ Failed : stamp[t] > lastSync + 1}
Pending == {t \in logged \ Failed : stamp[t] > lastSync}

\* INSERT OR REPLACE ... SELECT ... GROUP BY: one new row for each kind.  No
\* unique index makes it replace a row of an earlier aggregation.
NewRows ==
    {[batch |-> batch + 1, kind |-> k, tasks |-> {t \in Pending : KindOf[t] = k}] :
        k \in {KindOf[t] : t \in Pending}}

InsertRows(c) ==
    /\ pc[c] = "idle"
    /\ ConnFree
    /\ rows' = rows \union NewRows
    /\ batch' = IF Pending = {} THEN batch ELSE batch + 1
    /\ fresh' = Pending
    /\ pc' = [pc EXCEPT ![c] = "dating"]
    /\ UNCHANGED <<logVars, lastSync, synced, unsynced, accepted, cut, faults>>

SetLastSync(c) ==
    /\ pc[c] = "dating"
    /\ lastSync' = now
    /\ fresh' = {}
    /\ pc' = [pc EXCEPT ![c] = "reading"]
    /\ UNCHANGED <<logVars, rows, synced, batch, unsynced, accepted, cut, faults>>

\* The statement that stores the date fails: the command returns the error.
SetLastSyncFails(c) ==
    /\ pc[c] = "dating"
    /\ faults < MaxFaults
    /\ faults' = faults + 1
    /\ cut' = cut \union fresh
    /\ fresh' = {}
    /\ pc' = [pc EXCEPT ![c] = "idle"]
    /\ UNCHANGED <<logVars, lastSync, rows, synced, batch, unsynced, accepted>>

\* get_unsynced_daily_stats; nothing to push ends the command.
ReadUnsynced(c) ==
    /\ pc[c] = "reading"
    /\ ConnFree
    /\ unsynced' = [unsynced EXCEPT ![c] = rows \ synced]
    /\ pc' = [pc EXCEPT ![c] = IF rows \subseteq synced THEN "idle" ELSE "pushing"]
    /\ UNCHANGED <<logVars, lastSync, rows, synced, batch, accepted, fresh, cut,
                   faults>>

\* The request reaches the cloud.
Push(c) ==
    /\ pc[c] = "pushing"
    /\ accepted' = accepted \union unsynced[c]
    /\ pc' = [pc EXCEPT ![c] = "marking"]
    /\ UNCHANGED <<logVars, lastSync, rows, synced, batch, unsynced, fresh, cut,
                   faults>>

\* It does not, is refused, or its answer is lost or late: the rows stay unsynced.
PushFails(c) ==
    /\ pc[c] \in {"pushing", "marking"}
    /\ pc' = [pc EXCEPT ![c] = "idle"]
    /\ unsynced' = [unsynced EXCEPT ![c] = {}]
    /\ UNCHANGED <<logVars, lastSync, rows, synced, batch, accepted, fresh, cut,
                   faults>>

\* The rows that get the mark once the cloud has answered: those whose ids were
\* read.  A faulty variant marks every row without it.
MarkedAll(c) == rows
Marked(c) == unsynced[c]

MarkSynced(c) ==
    /\ pc[c] = "marking"
    /\ ConnFree
    /\ synced' = synced \union Marked(c)
    /\ pc' = [pc EXCEPT ![c] = "idle"]
    /\ unsynced' = [unsynced EXCEPT ![c] = {}]
    /\ UNCHANGED <<logVars, lastSync, rows, batch, accepted, fresh, cut, faults>>

\* The program ends.  Statements commit one by one; tasks without a row are
\* gone, their names free for others.
Crash ==
    /\ faults < MaxFaults
    /\ faults' = faults + 1
    /\ stamp' = [t \in Tasks |-> IF t \in logged THEN stamp[t] ELSE 0]
    /\ cut' = cut \union fresh
    /\ fresh' = {}
    /\ pc' = [c \in Callers |-> "idle"]
    /\ unsynced' = [c \in Callers |-> {}]
    /\ UNCHANGED <<now, logged, lastSync, rows, synced, batch, accepted, late>>

----------------------------------------------------------------------------
Init ==
    /\ now = 1
    /\ stamp = [t \in Tasks |-> 0]
    /\ logged = {} /\ late = {}
    /\ lastSync = 0
    /\ rows = {} /\ synced = {} /\ accepted = {}
    /\ batch = 0
    /\ pc = [c \in Callers |-> "idle"]
    /\ unsynced = [c \in Callers |-> {}]
    /\ fresh = {} /\ cut = {}
    /\ faults = 0

Next ==
    \/ Tick
    \/ \E t \in Tasks : Finish(t) \/ LogTask(t)
    \/ \E c \in Callers :
        \/ InsertRows(c) \/ SetLastSync(c) \/ SetLastSyncFails(c)
        \/ ReadUnsynced(c) \/ Push(c) \/ PushFails(c) \/ MarkSynced(c)
    \/ Crash

Spec == Init /\ [][Next]_vars
=============================================================================
