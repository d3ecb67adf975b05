----------------------------- MODULE UploadCard -----------------------------
(***************************************************************************)
(* The per-file progress card of the upload widget                         *)
(* (src/atr/static/js/src/upload-progress-ui.js): createFileProgressUI,    *)
(* handleUploadProgress, markUploadDone and resetUploadUI.                 *)
(*                                                                         *)
(* The uploader that calls them is not part of this repository.  The card *)
(* is driven in the order the library is written for: created, then the  *)
(* XHR's progress events, then done with success or failure, and after a  *)
(* failure possibly reset for another attempt (resetUploadUI removes the  *)
(* failure border only, and the partial-success summary offers to "retry  *)
(* failed uploads").  `phase` is the uploader's view of the attempt.       *)
(*                                                                         *)
(* A progress event carries loaded bytes of a total of Total; Total is a  *)
(* power of two, so the division is exact as in the browser.  Texts are  *)
(* abstracted to what they say: the status line's kind and the percent.  *)
(***************************************************************************)
EXTENDS Naturals

CONSTANTS
    Total,      \* the file's size in bytes, a power of two
    Loads,      \* the loaded counts progress events report, within 0 .. Total
    MaxAttempts \* the number of attempts a behaviour may contain

ASSUME CardAssumption ==
    /\ Total \in Nat \ {0} /\ Loads \subseteq 0 .. Total
    /\ MaxAttempts \in Nat \ {0}

VARIABLES
    phase,      \* "uploading", "succeeded" or "failed"
    attempts,   \* attempts so far
    status,     \* the .upload-status text: "preparing", "bytes" (x / y),
                \* "processing", "uploaded" (x uploaded) or "message"
    tone,       \* the .upload-status colour: "muted", "success", "danger"
    borders,    \* the border classes of .card-body
    hasValue,   \* the progress element has a value attribute
    value,      \* progress.value
    indeterminate, \* progress.dataset.indeterminate is set
    percent,    \* the .upload-percent text: a number, or empty
    cancelHidden,  \* .cancel-btn has d-none
    computable, \* the attempt's progress events are lengthComputable
    loaded      \* the bytes the attempt's latest event reported loaded

vars == <<phase, attempts, status, tone, borders, hasValue, value,
          indeterminate, percent, cancelHidden, computable, loaded>>

Borders == {"border-start", "border-success", "border-danger", "border-3"}

\* The .upload-percent text: a percentage, or the empty text.
Percents == [shown : BOOLEAN, pct : 0 .. 100]

\* Math.round(loaded / total * 100), exact for a power-of-two total.
Pct(l) == (200 * l + Total) \div (2 * Total)

Init ==
    /\ phase = "uploading"
    /\ attempts = 1
    /\ status = "preparing"
    /\ tone = "muted"
    /\ borders = {}
    /\ hasValue = TRUE
    /\ value = 0
    /\ indeterminate = FALSE
    /\ percent = [shown |-> TRUE, pct |-> 0]
    /\ cancelHidden = FALSE
    /\ computable \in BOOLEAN
    /\ loaded = 0

\* handleUploadProgress for a lengthComputable event: the bar and percent,
\* then "Processing..." and the cancel button hidden at 100, or the bytes.
ProgressComputable(l) ==
    /\ phase = "uploading" /\ computable /\ l >= loaded
    /\ hasValue' = TRUE
    /\ value' = Pct(l)
    /\ indeterminate' = FALSE
    /\ percent' = [shown |-> TRUE, pct |-> Pct(l)]
    /\ status' = IF Pct(l) >= 100 THEN "processing" ELSE "bytes"
    /\ cancelHidden' = (Pct(l) >= 100 \/ cancelHidden)
    /\ loaded' = l
    /\ UNCHANGED <<phase, attempts, tone, borders, computable>>

\* handleUploadProgress without a total: the indeterminate bar.
ProgressUnknown(l) ==
    /\ phase = "uploading" /\ ~computable /\ l >= loaded
    /\ hasValue' = FALSE
    /\ indeterminate' = TRUE
    /\ percent' = [percent EXCEPT !.shown = FALSE]
    /\ status' = "uploaded"
    /\ loaded' = l
    /\ UNCHANGED <<phase, attempts, tone, borders, value, cancelHidden,
                   computable>>

\* markUploadDone: the message in green or red, the border, on success the
\* full bar and 100%, and the cancel button hidden.
MarkUploadDone(success) ==
    /\ phase = "uploading"
    /\ phase' = IF success THEN "succeeded" ELSE "failed"
    /\ status' = "message"
    /\ tone' = IF success THEN "success" ELSE "danger"
    /\ borders' = borders \cup {"border-start", "border-3",
                                IF success THEN "border-success"
                                ELSE "border-danger"}
    /\ hasValue' = (success \/ hasValue)
    /\ value' = IF success THEN 100 ELSE value
    /\ percent' = IF success THEN [shown |-> TRUE, pct |-> 100] ELSE percent
    /\ cancelHidden' = TRUE
    /\ UNCHANGED <<attempts, indeterminate, computable, loaded>>

\* Fault: the reset leaves the failure colour on the card's border.
ResetUploadUIKeepsDanger ==
    /\ phase = "failed"
    /\ attempts < MaxAttempts
    /\ phase' = "uploading"
    /\ attempts' = attempts + 1
    /\ borders' = borders \ {"border-start", "border-3"}
    /\ status' = "preparing"
    /\ tone' = "muted"
    /\ hasValue' = TRUE
    /\ value' = 0
    /\ percent' = [shown |-> TRUE, pct |-> 0]
    /\ cancelHidden' = FALSE
    /\ computable' \in BOOLEAN
    /\ loaded' = 0
    /\ UNCHANGED indeterminate

\* resetUploadUI before another attempt of a failed upload.
ResetUploadUI ==
    /\ phase = "failed"
    /\ attempts < MaxAttempts
    /\ phase' = "uploading"
    /\ attempts' = attempts + 1
    /\ borders' = borders \ {"border-start", "border-danger", "border-3"}
    /\ status' = "preparing"
    /\ tone' = "muted"
    /\ hasValue' = TRUE
    /\ value' = 0
    /\ percent' = [shown |-> TRUE, pct |-> 0]
    /\ cancelHidden' = FALSE
    /\ computable' \in BOOLEAN
    /\ loaded' = 0
    /\ UNCHANGED indeterminate

Next ==
    \/ \E l \in Loads : ProgressComputable(l) \/ ProgressUnknown(l)
    \/ \E success \in BOOLEAN : MarkUploadDone(success)
    \/ ResetUploadUI

Spec == Init /\ [][Next]_vars

-----------------------------------------------------------------------------
TypeOK ==
    /\ phase \in {"uploading", "succeeded", "failed"}
    /\ attempts \in 1 .. MaxAttempts
    /\ status \in {"preparing", "bytes", "processing", "uploaded", "message"}
    /\ tone \in {"muted", "success", "danger"}
    /\ borders \subseteq Borders
    /\ hasValue \in BOOLEAN /\ value \in 0 .. 100
    /\ indeterminate \in BOOLEAN
    /\ percent \in Percents
    /\ cancelHidden \in BOOLEAN
    /\ computable \in BOOLEAN
    /\ loaded \in 0 .. Total

(***************************************************************************)
(* The card always shows the state of the current attempt, however many   *)
(* attempts failed before it: an attempt in progress looks neutral, with  *)
(* no border; a failure shows red with the red border and no cancel       *)
(* button; a success shows green with the green border, a full bar at     *)
(* 100% and no cancel button.                                              *)
(***************************************************************************)
CardShowsAttempt ==
    /\ phase = "uploading" =>
           /\ tone = "muted" /\ borders = {}
           /\ status # "message"
    /\ phase = "failed" =>
           /\ tone = "danger" /\ cancelHidden
           /\ borders = {"border-start", "border-danger", "border-3"}
    /\ phase = "succeeded" =>
           /\ tone = "success" /\ cancelHidden
           /\ borders = {"border-start", "border-success", "border-3"}
           /\ hasValue /\ value = 100
           /\ percent = [shown |-> TRUE, pct |-> 100]

=============================================================================
