---------------------------- MODULE MCAuthSession ----------------------------
(* A small instance of the login for TLC. *)
EXTENDS AuthSessionProps

CONSTANTS c1, c2, u1, u2

TwoCallers == {c1, c2}
TwoUsers == {u1, u2}
=============================================================================
