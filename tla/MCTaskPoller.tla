---------------------------- MODULE MCTaskPoller ----------------------------
(***************************************************************************)
(* TLC instance of TaskPoller, with its refinement mapping onto          *)
(* PollerSession: up to two server tasks, so that a response can lower   *)
(* the count without reaching zero and a later one reach it.             *)
(***************************************************************************)
EXTENDS TaskPollerSession

MCMaxTasks == 2

\* The server always sends its count, as its contract says.
MCOngoingForms == {"count"}

=============================================================================
