----------------------------- MODULE MCServices -----------------------------
(* Small instances of the five services for TLC. *)
EXTENDS ServicesProps, TLC

CONSTANTS t1, t2, u1, u2, c1, c2, a1, a2, m1, m2

TwoTasks == {t1, t2}
TwoUsers == {u1, u2}
TwoCallers == {c1, c2}
TwoAddrs == {a1, a2}
TwoModels == {m1, m2}

\* cc-switch away, stopped, without a provider, before and after its first request.
FiveOffers == {
    [status |-> "unreachable", targets |-> {}, configured |-> {}],
    [status |-> "stopped", targets |-> {}, configured |-> {m1}],
    [status |-> "running", targets |-> {}, configured |-> {}],
    [status |-> "running", targets |-> {}, configured |-> {m1, m2}],
    [status |-> "running", targets |-> {m2}, configured |-> {m1}]}

\* The tasks, users and callers are only compared with each other.
Symmetric ==
    Permutations(TwoTasks) \union Permutations(TwoUsers) \union Permutations(TwoCallers)
=============================================================================
