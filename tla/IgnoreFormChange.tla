--------------------------- MODULE IgnoreFormChange ---------------------------
(***************************************************************************)
(* The unchanged-value detection of the detail tables                      *)
(* (src/atr/static/js/src/ignore-form-change.js).                          *)
(*                                                                         *)
(* On DOMContentLoaded the script visits every input.form-control of a     *)
(* table.page-details in document order.  For each it finds the row's     *)
(* button.btn-primary, binds check() to the input's `input` event and      *)
(* calls check() once; check() gives the button the `disabled` class       *)
(* exactly when the value equals the input's data-value.  A row without   *)
(* such a button makes check() throw a TypeError: the exception ends the  *)
(* forEach, so later rows are never visited, and each input event on that *)
(* row throws again.                                                       *)
(*                                                                         *)
(* Rows are numbered in document order; a value is a member of a small    *)
(* set.  An input may start out edited (the browser restores form values *)
(* on back-navigation), and the server-rendered class is arbitrary.       *)
(***************************************************************************)
EXTENDS Naturals

CONSTANTS
    NRows,      \* the number of inputs in the tables
    Values      \* the values an input can hold

Rows == 1 .. NRows

VARIABLES
    hasButton,  \* hasButton[r]: row r has a button.btn-primary
    stored,     \* stored[r]: input.dataset.value, as the server rendered it
    loaded,     \* the DOMContentLoaded handler has run
    listening,  \* listening[r]: check() is bound to row r's input
    value,      \* value[r]: row r's input value
    disabled    \* disabled[r]: row r's button has the `disabled` class

vars == <<hasButton, stored, loaded, listening, value, disabled>>

\* check() for row r with value v, on a row whose button exists.
Check(r, v) == v = stored[r]

\* The rows the forEach reaches: up to and including the first row without
\* a button, whose check() throws.
Reached == {r \in Rows : \A q \in 1 .. r - 1 : hasButton[q]}

Init ==
    /\ hasButton \in [Rows -> BOOLEAN]
    /\ stored \in [Rows -> Values]
    /\ loaded = FALSE
    /\ listening = [r \in Rows |-> FALSE]
    /\ value \in [Rows -> Values]
    /\ disabled \in [Rows -> BOOLEAN]

\* The DOMContentLoaded handler: bind and check each reached row.
Load ==
    /\ ~loaded
    /\ loaded' = TRUE
    /\ listening' = [r \in Rows |-> r \in Reached]
    /\ disabled' = [r \in Rows |-> IF r \in Reached /\ hasButton[r]
                                   THEN Check(r, value[r]) ELSE disabled[r]]
    /\ UNCHANGED <<hasButton, stored, value>>

\* The user edits row r's input; a bound check() updates its button, or
\* throws when the row has none.
Input(r, v) ==
    /\ value' = [value EXCEPT ![r] = v]
    /\ disabled' = IF listening[r] /\ hasButton[r]
                   THEN [disabled EXCEPT ![r] = Check(r, v)] ELSE disabled
    /\ UNCHANGED <<hasButton, stored, loaded, listening>>

Next ==
    \/ Load
    \/ \E r \in Rows, v \in Values : Input(r, v)

Spec == Init /\ [][Next]_vars /\ WF_vars(Load)

-----------------------------------------------------------------------------
TypeOK ==
    /\ hasButton \in [Rows -> BOOLEAN]
    /\ stored \in [Rows -> Values]
    /\ loaded \in BOOLEAN
    /\ listening \in [Rows -> BOOLEAN]
    /\ value \in [Rows -> Values]
    /\ disabled \in [Rows -> BOOLEAN]

(***************************************************************************)
(* Once the page has loaded, the update button of a bound row is disabled *)
(* exactly while its input holds the stored value, whatever the server     *)
(* rendered and however the user edited the other rows.                    *)
(***************************************************************************)
BoundRowsTrackValue ==
    loaded => \A r \in Rows :
                  listening[r] /\ hasButton[r] =>
                      (disabled[r] <=> value[r] = stored[r])

=============================================================================
