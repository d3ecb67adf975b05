---------------------------- MODULE PollerSession ----------------------------
(***************************************************************************)
(* What the ongoing-tasks poller promises, with the page left out: once   *)
(* started, a session alternates between waiting for its timer and one    *)
(* outstanding request; a failed request is retried; an answer is waited *)
(* on again unless the server reported no ongoing task, and then the      *)
(* session stops for good.  `seen` is the count of the last answer.       *)
(***************************************************************************)
EXTENDS Naturals

CONSTANTS
    MaxTasks,   \* the most background tasks the server reports
    None        \* no answer has been received yet

VARIABLES
    session,    \* "unloaded", "waiting", "fetching" or "stopped"
    tasks,      \* the server's number of ongoing tasks
    seen        \* the count of the last answer, or None

avars == <<session, tasks, seen>>

Init ==
    /\ session = "unloaded"
    /\ tasks \in 0 .. MaxTasks
    /\ seen = None

\* The script decides, from the page, whether to poll at all.
Start ==
    /\ session = "unloaded"
    /\ session' \in {"waiting", "stopped"}
    /\ UNCHANGED <<tasks, seen>>

\* The timer fires and the one request goes out.
Fire ==
    /\ session = "waiting"
    /\ session' = "fetching"
    /\ UNCHANGED <<tasks, seen>>

\* The server answers with its current count.
Answer ==
    /\ session = "fetching"
    /\ seen' = tasks
    /\ session' = IF tasks > 0 THEN "waiting" ELSE "stopped"
    /\ UNCHANGED tasks

\* The request fails and is retried.
Fail ==
    /\ session = "fetching"
    /\ session' = "waiting"
    /\ UNCHANGED <<tasks, seen>>

\* A background task finishes on the server.
Finish ==
    /\ tasks > 0
    /\ tasks' = tasks - 1
    /\ UNCHANGED <<session, seen>>

ANext == Start \/ Fire \/ Answer \/ Fail \/ Finish

ASpec == /\ Init /\ [][ANext]_avars
         /\ WF_avars(Start) /\ WF_avars(Fire) /\ WF_avars(Answer \/ Fail)
         /\ SF_avars(Answer) /\ WF_avars(Finish)

=============================================================================
