--------------------------- MODULE AnnouncePreview ---------------------------
(***************************************************************************)
(* The e-mail preview of the announce form                                 *)
(* (src/atr/static/js/src/announce-preview.js, lines 20-97).               *)
(*                                                                         *)
(* On DOMContentLoaded the script fetches a preview of the body at once.   *)
(* Each `input` event then clears the pending debounce timer and arms a    *)
(* new 500 ms one.  When that timer fires, the script POSTs the textarea's *)
(* value as it is at that moment.  Every fetch settles on its own, and its *)
(* continuation writes the preview text or an error message into the      *)
(* preview element.  Nothing cancels or orders earlier fetches.            *)
(***************************************************************************)
EXTENDS Naturals

CONSTANTS
    Texts,      \* the bodies the user can type, as model values
    MaxEdits,   \* the number of input events a behaviour may contain
    None        \* no request has been sent yet

ASSUME TextsAssumption == Texts # {} /\ None \notin Texts
ASSUME MaxEditsAssumption == MaxEdits \in Nat

VARIABLES
    page,       \* which required elements and data attributes exist
    loaded,     \* the DOMContentLoaded handler has run
    listening,  \* the `input` listener was attached
    body,       \* bodyTextarea.value
    debounce,   \* pending debounce timers
    inflight,   \* inflight[t]: unsettled preview requests that sent t
    lastSent,   \* the body sent by the most recent request
    preview,    \* what the preview element shows
    edits       \* input events so far (bounded by MaxEdits)

vars == <<page, loaded, listening, body, debounce, inflight, lastSent,
          preview, edits>>

\* The required elements (textarea, preview element, form) and the
\* data-preview-url with the CSRF input.
Pages == [elements : BOOLEAN, config : BOOLEAN]

\* The preview element: the server-rendered content, the preview of a
\* body, or "Error loading preview: ...".
Previews == {[kind |-> "initial"], [kind |-> "error"]}
              \cup [kind : {"preview"}, of : Texts]

\* doFetch: fetchAnnouncePreview POSTs the textarea's current value.
DoFetch ==
    /\ inflight' = [inflight EXCEPT ![body] = @ + 1]
    /\ lastSent' = body

Init ==
    /\ page \in Pages
    /\ loaded = FALSE
    /\ listening = FALSE
    /\ body \in Texts
    /\ debounce = 0
    /\ inflight = [t \in Texts |-> 0]
    /\ lastSent = None
    /\ preview = [kind |-> "initial"]
    /\ edits = 0

(***************************************************************************)
(* initAnnouncePreview: return early when an element or the configuration *)
(* is missing; otherwise attach the input listener and fetch once.         *)
(***************************************************************************)
InitAnnouncePreview ==
    /\ ~loaded
    /\ loaded' = TRUE
    /\ \/ /\ ~(page.elements /\ page.config)
          /\ UNCHANGED <<listening, inflight, lastSent>>
       \/ /\ page.elements /\ page.config
          /\ listening' = TRUE
          /\ DoFetch
    /\ UNCHANGED <<page, body, debounce, preview, edits>>

\* Fault: the handler arms a timer without clearing the pending one.
InputNoClearTimeout(t) ==
    /\ edits < MaxEdits
    /\ edits' = edits + 1
    /\ body' = t
    /\ debounce' = IF listening THEN debounce + 1 ELSE debounce
    /\ UNCHANGED <<page, loaded, listening, inflight, lastSent, preview>>

(***************************************************************************)
(* The user edits the body.  With the listener attached, the input event  *)
(* clears the pending timer and arms a new one.                            *)
(***************************************************************************)
Input(t) ==
    /\ edits < MaxEdits
    /\ edits' = edits + 1
    /\ body' = t
    /\ debounce' = IF listening THEN 1 ELSE debounce
    /\ UNCHANGED <<page, loaded, listening, inflight, lastSent, preview>>

\* Fault: the timer skips the fetch while an earlier one is still out.
DebounceFiresSkipWhenBusy ==
    /\ debounce > 0
    /\ debounce' = debounce - 1
    /\ IF \A t \in Texts : inflight[t] = 0
       THEN DoFetch
       ELSE UNCHANGED <<inflight, lastSent>>
    /\ UNCHANGED <<page, loaded, listening, body, preview, edits>>

\* The debounce timer fires: doFetch.
DebounceFires ==
    /\ debounce > 0
    /\ debounce' = debounce - 1
    /\ DoFetch
    /\ UNCHANGED <<page, loaded, listening, body, preview, edits>>

(***************************************************************************)
(* A request for body t settles.  A 2xx response's text becomes the        *)
(* preview; a non-2xx status (after reading its text) or a network error  *)
(* reaches the catch and shows the error.                                  *)
(***************************************************************************)
PreviewArrives(t) ==
    /\ inflight[t] > 0
    /\ inflight' = [inflight EXCEPT ![t] = @ - 1]
    /\ preview' = [kind |-> "preview", of |-> t]
    /\ UNCHANGED <<page, loaded, listening, body, debounce, lastSent, edits>>

PreviewFails(t) ==
    /\ inflight[t] > 0
    /\ inflight' = [inflight EXCEPT ![t] = @ - 1]
    /\ preview' = [kind |-> "error"]
    /\ UNCHANGED <<page, loaded, listening, body, debounce, lastSent, edits>>

Next ==
    \/ InitAnnouncePreview
    \/ \E t \in Texts : Input(t)
    \/ DebounceFires
    \/ \E t \in Texts : PreviewArrives(t) \/ PreviewFails(t)

(***************************************************************************)
(* The browser runs the load handler, fires due timers and settles every  *)
(* fetch; the user is under no obligation to type.                         *)
(***************************************************************************)
Fairness ==
    /\ WF_vars(InitAnnouncePreview)
    /\ WF_vars(DebounceFires)
    /\ \A t \in Texts : WF_vars(PreviewArrives(t) \/ PreviewFails(t))

Spec == Init /\ [][Next]_vars /\ Fairness

-----------------------------------------------------------------------------
\* Every request has settled.
Settled == \A t \in Texts : inflight[t] = 0

TypeOK ==
    /\ page \in Pages
    /\ loaded \in BOOLEAN
    /\ listening \in BOOLEAN
    /\ body \in Texts
    /\ debounce \in 0 .. 1
    /\ inflight \in [Texts -> Nat]
    /\ lastSent \in Texts \cup {None}
    /\ preview \in Previews
    /\ edits \in 0 .. MaxEdits

(***************************************************************************)
(* Once typing pauses (no debounce timer pending), the most recent request *)
(* carries the textarea's current text: the debounce never lets an edit go *)
(* unsent, whatever requests are still out.                                *)
(***************************************************************************)
DebounceSendsLatest == listening /\ debounce = 0 => lastSent = body

(***************************************************************************)
(* The preview describes what the user typed: once every request has       *)
(* settled with a preview, it is the preview of the current text.  The     *)
(* debounce exists to re-render the preview for the latest body.           *)
(***************************************************************************)
FreshPreviewWhenSettled ==
    listening /\ debounce = 0 /\ Settled /\ preview.kind = "preview"
        => preview.of = body

=============================================================================
