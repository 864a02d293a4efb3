---------------------------- MODULE MCTaskStream ----------------------------
(* Small instances of the task runner for TLC. *)
EXTENDS TaskStreamProps

CONSTANTS streamed, streamed2, plain, bad

FourTasks == {streamed, streamed2, plain, bad}
OneTask == {streamed}
TwoStreams == {streamed, streamed2}
OneBad == {bad}
NoTasks == {}
OpenAi == {"openai"}
=============================================================================
