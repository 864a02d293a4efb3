--------------------------- MODULE MCShareDaemon ---------------------------
(* Small instances of the supplier daemon for TLC. *)
EXTENDS ShareDaemonProps, TLC

CONSTANTS c1, c2, plain, streamed, bad

OneCaller == {c1}
TwoCallers == {c1, c2}
NoTasks == {}
PlainOnly == {plain}
TwoTasks == {plain, streamed}
StreamAndBad == {streamed, bad}
OneStream == {streamed}
OneBad == {bad}
CallerSymmetry == Permutations(TwoCallers)

\* Safety runs look at the states without connState, announced, lost and dropped: no guard
\* and no other variable's next value depends on them, so nothing is missed.
SafetyView == <<op, pc, daemonLock, running, handle, refreshHandle, outgoing, starts,
                client, outq, taskq, handler, cur, refresher, dispatched, executed,
                logged, delivered, faults>>
=============================================================================
