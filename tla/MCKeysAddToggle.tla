--------------------------- MODULE MCKeysAddToggle ---------------------------
(* KeysAddToggle with three committee checkboxes: enough for a box to be  *)
(* checked by hand next to two others in either state.                     *)
EXTENDS KeysAddToggle

CONSTANTS b1, b2, b3

MCCommittees == {b1, b2, b3}
=============================================================================
