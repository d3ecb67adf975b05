------------------------- MODULE MCCommitteeDirectory -------------------------
(* CommitteeDirectory with two cards and two non-empty filter texts: every *)
(* way the two filters and the participant flag can split the cards, and  *)
(* every server-rendered starting view and count.                          *)
EXTENDS CommitteeDirectory

CONSTANTS c1, c2

MCCards == {c1, c2}
MCFilters == {"", "f1", "f2"}
=============================================================================
