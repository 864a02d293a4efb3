---------------------------- MODULE MCDailySync ----------------------------
(* Small instances of the daily statistics for TLC. *)
EXTENDS DailySyncProps, TLC

CONSTANTS t1, t2, t3, t4, c1, c2

SomeTasks == {t1, t2, t3, t4}
OneFails == {t4}
TwoKinds == [t \in SomeTasks |-> IF t = t3 THEN "consume" ELSE "supply"]
TwoCallers == {c1, c2}
Symmetry == Permutations({t1, t2}) \union Permutations(TwoCallers)
=============================================================================
