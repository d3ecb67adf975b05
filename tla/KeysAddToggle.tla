---------------------------- MODULE KeysAddToggle ----------------------------
(***************************************************************************)
(* The select-all button of the add-key form                               *)
(* (src/atr/static/js/src/keys-add-toggle.js).                             *)
(*                                                                         *)
(* On DOMContentLoaded the script returns when there is no                 *)
(* selected_committees checkbox or no .col-sm-8 container around the      *)
(* first; otherwise it appends a "Select all committees" button.  A click  *)
(* checks every box unless all are checked, in which case it unchecks     *)
(* them all, and relabels the button.  The user can also click any box.   *)
(***************************************************************************)
EXTENDS Naturals

CONSTANTS
    Committees  \* the committees a checkbox can stand for

VARIABLES
    boxes,      \* the selected_committees checkboxes on the page
    container,  \* the first checkbox is inside a .col-sm-8 container
    loaded,     \* the DOMContentLoaded handler has run
    present,    \* the button was appended
    checked,    \* checked[b]: box b is checked
    label       \* the button's text: "select" or "deselect" all committees

vars == <<boxes, container, loaded, present, checked, label>>

Labels == {"select", "deselect"}

AllChecked(ch) == \A b \in boxes : ch[b]

Init ==
    /\ boxes \in SUBSET Committees
    /\ container \in BOOLEAN
    /\ loaded = FALSE
    /\ present = FALSE
    /\ checked \in [boxes -> BOOLEAN]
    /\ label = "select"

\* DOMContentLoaded: the early returns, or the button with its label.
Load ==
    /\ ~loaded
    /\ loaded' = TRUE
    /\ present' = (boxes # {} /\ container)
    /\ UNCHANGED <<boxes, container, checked, label>>

\* The user clicks one checkbox.
ClickBox(b) ==
    /\ checked' = [checked EXCEPT ![b] = ~@]
    /\ UNCHANGED <<boxes, container, loaded, present, label>>

\* The button: every box is set to the negation of "all checked".
ClickButton ==
    /\ present
    /\ checked' = [b \in boxes |-> ~AllChecked(checked)]
    /\ label' = IF AllChecked(checked) THEN "select" ELSE "deselect"
    /\ UNCHANGED <<boxes, container, loaded, present>>

Next ==
    \/ Load
    \/ \E b \in boxes : ClickBox(b)
    \/ ClickButton

Spec == Init /\ [][Next]_vars

-----------------------------------------------------------------------------
TypeOK ==
    /\ boxes \subseteq Committees
    /\ container \in BOOLEAN
    /\ loaded \in BOOLEAN
    /\ present \in BOOLEAN
    /\ checked \in [boxes -> BOOLEAN]
    /\ label \in Labels

\* What a click of the button would do next.
NextClickSelects == ~AllChecked(checked)

(***************************************************************************)
(* A click of the button leaves the boxes all checked or all unchecked,    *)
(* and its label naming what the following click will do.                  *)
(***************************************************************************)
ClickSettlesBoxes ==
    [][ClickButton =>
          /\ \/ AllChecked(checked')
             \/ \A b \in boxes : ~checked'[b]
          /\ label' = IF NextClickSelects' THEN "select" ELSE "deselect"]_vars

(***************************************************************************)
(* The button's label always names what a click will do: "Select all" when *)
(* a click checks the boxes, "Deselect all" when it unchecks them.         *)
(***************************************************************************)
LabelNamesNextClick ==
    present => (label = "select" <=> NextClickSelects)

=============================================================================
