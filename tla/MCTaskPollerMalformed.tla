------------------------- MODULE MCTaskPollerMalformed -------------------------
(***************************************************************************)
(* TLC instance of TaskPoller whose server may answer with a 2xx JSON body *)
(* that has no `ongoing` field (an error object, or a null count), besides *)
(* the bodies its contract describes.                                      *)
(***************************************************************************)
EXTENDS TaskPoller

MCMaxTasks == 2

MCOngoingForms == {"count", "missing"}

=============================================================================
