------------------------- MODULE MCAnnouncePreview --------------------------
(***************************************************************************)
(* TLC instance of AnnouncePreview: two bodies and two edits, so that two  *)
(* requests for different bodies can be out at once and settle in either  *)
(* order, and a third edit is not needed to reach any of the cases.       *)
(***************************************************************************)
EXTENDS AnnouncePreview

CONSTANTS t1, t2

MCTexts == {t1, t2}

MCMaxEdits == 2

=============================================================================
