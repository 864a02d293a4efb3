---------------------------- MODULE LogPipeline ----------------------------
(***************************************************************************)
(* The system log: records go through LOG_TX to the batch writer, which    *)
(* writes them to the table system_log in transactions. LOG_TX is a static,*)
(* so the channel is never closed and the last flush the writer has for    *)
(* that case never comes: what it holds when the application ends is lost. *)
(* Entries are numbered in the order in which they are sent.               *)
(***************************************************************************)
EXTENDS Naturals, Sequences, SequencesExt

CONSTANTS
    BatchMax,     \* BATCH_MAX
    MaxEntries    \* bound: records that are logged

ASSUME LogAssumption == BatchMax \in Nat \ {0} /\ MaxEntries \in Nat

VARIABLES
    writing,    \* the writer is spawned
    logQueue,   \* the channel behind LOG_TX
    buffer,     \* what the writer has taken out
    table,      \* system_log in the order of its ids
    sent,       \* how many entries there have been
    gone        \* history: entries of a failed batch, deleted, or lost at an end

logVars == <<writing, logQueue, buffer, table, sent, gone>>

LogInit ==
    /\ writing = FALSE
    /\ logQueue = <<>> /\ buffer = <<>> /\ table = <<>>
    /\ sent = 0 /\ gone = {}

\* dispatch_record; a record below the level of set_log_level does not come here.
DispatchRecord ==
    /\ sent < MaxEntries
    /\ sent' = sent + 1
    /\ logQueue' = Append(logQueue, sent')
    /\ UNCHANGED <<writing, buffer, table, gone>>

\* What the buffer is after a flush, and a faulty variant that only copies it.
TakenCopied(batch) == batch
Taken(batch) == <<>>

\* A batch that cannot be inserted is dropped, and the error is a record itself, sent
\* to the writer that has reported it, unless the level is off.
DropBatch(batch, rest) ==
    /\ gone' = gone \union ToSet(batch)
    /\ \/ sent < MaxEntries /\ sent' = sent + 1 /\ logQueue' = Append(rest, sent')
       \/ sent' = sent /\ logQueue' = rest
    /\ UNCHANGED table

\* flush: insert_logs_batch is one transaction.
Flush(batch, rest) ==
    /\ buffer' = Taken(batch)
    /\ \/ /\ table' = table \o batch
          /\ logQueue' = rest
          /\ UNCHANGED <<sent, gone>>
       \/ DropBatch(batch, rest)

\* The writer does not wait for more, and a faulty variant that takes one entry too many.
BatchFullLate(batch) == Len(batch) > BatchMax
BatchFull(batch) == Len(batch) >= BatchMax

ReceiveEntry ==
    /\ writing /\ logQueue # <<>>
    /\ LET batch == Append(buffer, Head(logQueue))
           rest == Tail(logQueue)
       IN IF BatchFull(batch) THEN Flush(batch, rest)
          ELSE buffer' = batch /\ logQueue' = rest /\ UNCHANGED <<table, sent, gone>>
    /\ UNCHANGED writing

\* The timer, if the last flush is an interval ago.
FlushTick ==
    /\ writing /\ buffer # <<>>
    /\ Flush(buffer, logQueue)
    /\ UNCHANGED writing

\* prune_old_logs takes the rows before its date, clear_logs all of them.
DeleteRows(n) ==
    /\ gone' = gone \union ToSet(SubSeq(table, 1, n))
    /\ table' = SubSeq(table, n + 1, Len(table))

PruneLogs ==
    /\ \E n \in 1 .. Len(table) : DeleteRows(n)
    /\ UNCHANGED <<writing, logQueue, buffer, sent>>

\* start_batch_writer, in the setup of the application.
StartWriter ==
    /\ ~writing /\ writing' = TRUE
    /\ \E n \in 0 .. Len(table) : DeleteRows(n)
    /\ UNCHANGED <<logQueue, buffer, sent>>

\* The application ends and is launched again.
Relaunch ==
    /\ writing' = FALSE
    /\ gone' = gone \union ToSet(logQueue \o buffer)
    /\ logQueue' = <<>> /\ buffer' = <<>>
    /\ UNCHANGED <<table, sent>>

LogNext ==
    \/ DispatchRecord \/ ReceiveEntry \/ FlushTick
    \/ PruneLogs \/ StartWriter \/ Relaunch
=============================================================================
