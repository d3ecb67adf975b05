--------------------------- MODULE AnnounceConfirm ---------------------------
(***************************************************************************)
(* The confirmation gate of the announce form                              *)
(* (src/atr/static/js/src/announce-confirm.js).                            *)
(*                                                                         *)
(* On DOMContentLoaded initAnnounceConfirm returns when #confirm_announce, *)
(* the form.atr-canary or its submit button is missing; otherwise it       *)
(* attaches updateButtonState to the input's `input` event and calls it    *)
(* once.  updateButtonState disables the button unless the value is       *)
(* exactly "CONFIRM".  Until then the button is as the server rendered it *)
(* and the field may already hold text (typed early, or restored by the   *)
(* browser).  The form is submitted only through its enabled button      *)
(* (implicit submission does nothing while the default button is          *)
(* disabled).                                                              *)
(***************************************************************************)
EXTENDS Naturals

CONSTANTS
    Values      \* the texts the confirm input can hold; "CONFIRM" among them

VARIABLES
    page,       \* which of the input, the form and its submit button exist
    loaded,     \* the DOMContentLoaded handler has run
    listening,  \* updateButtonState is bound to the input event
    value,      \* confirmInput.value
    disabled,   \* submitButton.disabled
    sent        \* the values the form was submitted with after the load

vars == <<page, loaded, listening, value, disabled, sent>>

Pages == [input : BOOLEAN, form : BOOLEAN, button : BOOLEAN]

\* updateButtonState: the button's state for a value.
UpdateButtonState(v) == v # "CONFIRM"

Init ==
    /\ page \in Pages
    /\ loaded = FALSE
    /\ listening = FALSE
    /\ value \in Values
    /\ disabled \in BOOLEAN
    /\ sent = {}

\* initAnnounceConfirm: the two early returns, or the listener and one call
\* of updateButtonState.
InitAnnounceConfirm ==
    /\ ~loaded
    /\ loaded' = TRUE
    /\ \/ /\ ~(page.input /\ page.form /\ page.button)
          /\ UNCHANGED <<listening, disabled>>
       \/ /\ page.input /\ page.form /\ page.button
          /\ listening' = TRUE
          /\ disabled' = UpdateButtonState(value)
    /\ UNCHANGED <<page, value, sent>>

\* The user edits the field; the listener, when bound, updates the button.
Input(v) ==
    /\ value' = v
    /\ disabled' = IF listening THEN UpdateButtonState(v) ELSE disabled
    /\ UNCHANGED <<page, loaded, listening, sent>>

\* The user submits the form through its enabled button.
Submit ==
    /\ page.form /\ page.button
    /\ ~disabled
    /\ sent' = IF loaded THEN sent \cup {value} ELSE sent
    /\ UNCHANGED <<page, loaded, listening, value, disabled>>

Next ==
    \/ InitAnnounceConfirm
    \/ \E v \in Values : Input(v)
    \/ Submit

Spec == Init /\ [][Next]_vars /\ WF_vars(InitAnnounceConfirm)

-----------------------------------------------------------------------------
TypeOK ==
    /\ page \in Pages
    /\ loaded \in BOOLEAN
    /\ listening \in BOOLEAN
    /\ value \in Values
    /\ disabled \in BOOLEAN
    /\ sent \subseteq Values

(***************************************************************************)
(* Once the gate is installed, the announce form is only ever submitted    *)
(* with "CONFIRM" in the field, whatever was typed or restored before the  *)
(* script ran and however the server rendered the button.                  *)
(***************************************************************************)
OnlyConfirmedSent == listening => sent \subseteq {"CONFIRM"}

=============================================================================
