--------------------------- MODULE AdminSubmission ---------------------------
(***************************************************************************)
(* What the admin update form promises, with the button, the cursor and   *)
(* the awaits left out: submissions come one at a time; each empties the  *)
(* status area, and each is answered by exactly one status message before *)
(* the next can start.                                                     *)
(***************************************************************************)
EXTENDS Naturals, Sequences

CONSTANTS
    Entries,    \* the status messages an answer can carry
    MaxSubmits  \* the number of submissions a behaviour may contain

VARIABLES
    busy,       \* a submission is waiting for its answer
    status,     \* the messages in the status area, oldest first
    submits     \* submissions so far

avars == <<busy, status, submits>>

Init ==
    /\ busy = FALSE
    /\ status = <<>>
    /\ submits = 0

\* A submission starts only when none is waiting, and clears the status.
Submit ==
    /\ ~busy
    /\ submits < MaxSubmits
    /\ busy' = TRUE
    /\ status' = <<>>
    /\ submits' = submits + 1

\* The waiting submission is answered with one message.
Reply ==
    /\ busy
    /\ busy' = FALSE
    /\ \E e \in Entries : status' = <<e>>
    /\ UNCHANGED submits

ANext == Submit \/ Reply

\* Every submission is eventually answered.
ASpec == Init /\ [][ANext]_avars /\ WF_avars(Reply)

=============================================================================
