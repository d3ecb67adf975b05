---------------------- MODULE AdminUpdateFormSubmission ----------------------
(***************************************************************************)
(* On a complete page the admin update form implements AdminSubmission.   *)
(* The abstract form is busy while a submit handler is suspended on the   *)
(* fetch or the JSON; its status and submissions are the form's own.  The *)
(* page, the load handler, the button, the cursor and the handlers' phases *)
(* are hidden: the load and the step from the fetch to the JSON are        *)
(* stutters.  The promise is made for a complete page only: on any other  *)
(* page the mapping shows the abstract form idle and empty throughout,    *)
(* which the abstract specification allows, so nothing is claimed there.  *)
(***************************************************************************)
EXTENDS AdminUpdateForm

\* The abstract state read off the form.
BusyOf == Complete /\ Running # {}

StatusOf == IF Complete THEN status ELSE <<>>

SubmitsOf == IF Complete THEN submits ELSE 0

Submission == INSTANCE AdminSubmission
                  WITH Entries <- [text : Texts, category : Categories],
                       busy <- BusyOf, status <- StatusOf, submits <- SubmitsOf

=============================================================================
