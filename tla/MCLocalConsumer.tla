--------------------------- MODULE MCLocalConsumer ---------------------------
(* A small instance of the consumer's requests for TLC. *)
EXTENDS LocalConsumerProps, TLC

CONSTANTS r1, r2

OneRequest == {r1}
TwoRequests == {r1, r2}
=============================================================================
