-------------------------- MODULE DailySyncProps --------------------------
(***************************************************************************)
(* What the daily statistics promise: every completed task counted, once,  *)
(* and no row taken for pushed that was not.                               *)
(***************************************************************************)
EXTENDS DailySync

RowType == [batch : Nat, kind : Kinds, tasks : SUBSET Tasks]

\* Every variable has its type; rows sum logged tasks that completed.
TypeOK ==
    /\ now \in 1 .. MaxTime + 1
    /\ stamp \in [Tasks -> Nat]
    /\ logged \in SUBSET Tasks
    /\ lastSync \in Nat
    /\ rows \in SUBSET RowType
    /\ \A r \in rows : r.tasks \subseteq logged \ Failed
    /\ batch \in Nat
    /\ pc \in [Callers -> Stages]
    /\ unsynced \in [Callers -> SUBSET rows]
    /\ synced \in SUBSET rows
    /\ accepted \in SUBSET rows
    /\ fresh \in SUBSET Tasks /\ cut \in SUBSET Tasks /\ late \in SUBSET Tasks
    /\ faults \in 0 .. MaxFaults

\* The rows of two aggregations, of one command or of two that overlap, share
\* no task, unless the first was cut off between the rows and last_daily_sync.
CountedOnce ==
    \A r, s \in rows : r # s => r.tasks \intersect s.tasks \subseteq cut

Summed == UNION {r.tasks : r \in rows}

\* A completed task of p2p_task_log is summed, is still to be summed, or was
\* logged when last_daily_sync had reached the second of its created_at: only
\* the last are never counted.
MissedOnlyIfLate ==
    \A t \in logged \ Failed : t \in Summed \/ stamp[t] > lastSync \/ t \in late

\* A row is marked synced only when the cloud has received it, whatever other
\* commands aggregate, push or lose between the reading and the marking.
SyncedWasReceived == synced \subseteq accepted
=============================================================================
