-------------------------- MODULE TaskPollerSession --------------------------
(***************************************************************************)
(* The poller of TaskPoller implements the session of PollerSession.  The *)
(* session state is read off the script's schedule: before the script    *)
(* runs it is unloaded; then a fetch in flight is "fetching", a pending    *)
(* timer "waiting", and neither "stopped".  The last answer is lastResp.  *)
(* Every other variable (banner, progress bar, toggles) is hidden.        *)
(***************************************************************************)
EXTENDS TaskPoller

\* The refinement mapping of the session state.
SessionOf ==
    IF ~loaded THEN "unloaded"
    ELSE IF inflight > 0 THEN "fetching"
    ELSE IF timers > 0 THEN "waiting"
    ELSE "stopped"

Session == INSTANCE PollerSession WITH session <- SessionOf, seen <- lastResp

=============================================================================
