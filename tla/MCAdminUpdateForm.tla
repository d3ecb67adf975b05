-------------------------- MODULE MCAdminUpdateForm --------------------------
(* AdminUpdateForm with a success and an error category, two server     *)
(* messages, and two                                                      *)
(* submissions: enough for a second submission to meet the message of the *)
(* first.                                                                  *)
EXTENDS AdminUpdateFormSubmission

MCCategories == {"success", "error"}
MCMessages == {"m1", "m2"}
MCMaxSubmits == 2
=============================================================================
