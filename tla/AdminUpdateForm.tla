--------------------------- MODULE AdminUpdateForm ---------------------------
(***************************************************************************)
(* The admin update form (src/atr/static/js/src/admin-update-form.js).     *)
(*                                                                         *)
(* On DOMContentLoaded the script attaches an async submit handler.  The   *)
(* handler disables the submit button, sets the wait cursor, empties       *)
(* #status and reads the CSRF input; then, inside try, it awaits the POST  *)
(* and, on a 2xx response, awaits its JSON.  Each path appends one status  *)
(* message, and finally re-enables the button and resets the cursor.       *)
(* The steps before the try are not covered by the finally.               *)
(*                                                                         *)
(* The disabled button is the only guard against a second submission; a  *)
(* form with another submit control (page.other) can run several handlers *)
(* at once.  Each handler is named by its submission's number, and each   *)
(* continuation after an await is one action.  A status message is        *)
(* its category and the source of its text: the fixed network message,    *)
(* the error the fetch or the JSON parse threw, or the server's message.  *)
(***************************************************************************)
EXTENDS Naturals, Sequences

CONSTANTS
    Categories, \* the categories the server's JSON can carry; "error" among them
    Messages,   \* the messages the server's JSON can carry
    MaxSubmits  \* the number of submissions a behaviour may contain

ASSUME CategoriesAssumption == "error" \in Categories
ASSUME MaxSubmitsAssumption == MaxSubmits \in Nat

VARIABLES
    page,       \* which of #status, the csrf_token input and another submitter exist
    loaded,     \* the DOMContentLoaded handler has run
    disabled,   \* button.disabled
    cursor,     \* document.body.style.cursor
    handler,    \* handler[i]: where the handler of submission i is
    status,     \* the messages in #status, oldest first
    submits     \* submissions so far

vars == <<page, loaded, disabled, cursor, handler, status, submits>>

Pages == [status : BOOLEAN, csrf : BOOLEAN, other : BOOLEAN]

Submissions == 1 .. MaxSubmits

\* "none": not submitted; "fetching": awaiting fetch; "parsing": awaiting
\* response.json(); "done": returned.
Phases == {"none", "fetching", "parsing", "done"}

\* The texts of status messages.
Texts == {"network", "fetchError", "jsonError"} \cup Messages

\* addStatusMessage appends one div with the message and its category.
AddStatusMessage(st, message, category) ==
    Append(st, [text |-> message, category |-> category])

\* Fault: the finally block clears the inline cursor instead of resetting it.
FinallyClearsCursor(i) ==
    /\ disabled' = FALSE
    /\ cursor' = ""
    /\ handler' = [handler EXCEPT ![i] = "done"]

\* Fault: the finally block does not reset the cursor.
FinallyKeepsCursor(i) ==
    /\ disabled' = FALSE
    /\ cursor' = cursor
    /\ handler' = [handler EXCEPT ![i] = "done"]

\* The finally block: handler i ends.
Finally(i) ==
    /\ disabled' = FALSE
    /\ cursor' = "default"
    /\ handler' = [handler EXCEPT ![i] = "done"]

Init ==
    /\ page \in Pages
    /\ loaded = FALSE
    /\ disabled = FALSE
    /\ cursor = "unset"
    /\ handler = [i \in Submissions |-> "none"]
    /\ status = <<>>
    /\ submits = 0

\* DOMContentLoaded: the submit listener is attached.
Load ==
    /\ ~loaded
    /\ loaded' = TRUE
    /\ UNCHANGED <<page, disabled, cursor, handler, status, submits>>

\* The synchronous part of the handler up to the fetch: a TypeError on a
\* missing #status or CSRF input ends it before the try.
Started(st) ==
    /\ submits' = submits + 1
    /\ disabled' = TRUE
    /\ cursor' = "wait"
    /\ status' = st
    /\ handler' = [handler EXCEPT ![submits + 1] =
                       IF page.status /\ page.csrf THEN "fetching" ELSE "done"]
    /\ UNCHANGED <<page, loaded>>

\* The form can be submitted: by the enabled button, or by another control.
CanSubmit ==
    /\ loaded
    /\ ~disabled \/ page.other
    /\ submits < MaxSubmits

\* Fault: #status is not emptied before the request.
SubmitKeepsStatus ==
    /\ CanSubmit
    /\ Started(status)

(***************************************************************************)
(* The user submits.  The handler disables the button and sets the cursor, *)
(* then empties #status (a TypeError when it is missing) and reads the    *)
(* CSRF input (a TypeError when it is missing), and starts the fetch.      *)
(***************************************************************************)
Submit ==
    /\ CanSubmit
    /\ Started(IF page.status THEN <<>> ELSE status)

\* A non-2xx response: the error message, return, finally.
FetchNotOk(i) ==
    /\ handler[i] = "fetching"
    /\ status' = AddStatusMessage(status, "network", "error")
    /\ Finally(i)
    /\ UNCHANGED <<page, loaded, submits>>

\* The fetch rejects (network error): catch, then finally.
FetchRejects(i) ==
    /\ handler[i] = "fetching"
    /\ status' = AddStatusMessage(status, "fetchError", "error")
    /\ Finally(i)
    /\ UNCHANGED <<page, loaded, submits>>

\* A 2xx response: the handler awaits response.json().
FetchOk(i) ==
    /\ handler[i] = "fetching"
    /\ handler' = [handler EXCEPT ![i] = "parsing"]
    /\ UNCHANGED <<page, loaded, disabled, cursor, status, submits>>

\* The JSON arrives: its message with its category, then finally.
JsonParsed(i, message, category) ==
    /\ handler[i] = "parsing"
    /\ status' = AddStatusMessage(status, message, category)
    /\ Finally(i)
    /\ UNCHANGED <<page, loaded, submits>>

\* The body is not JSON: catch, then finally.
JsonFails(i) ==
    /\ handler[i] = "parsing"
    /\ status' = AddStatusMessage(status, "jsonError", "error")
    /\ Finally(i)
    /\ UNCHANGED <<page, loaded, submits>>

\* Everything handler i can do next.
Settle(i) ==
    \/ FetchNotOk(i)
    \/ FetchRejects(i)
    \/ FetchOk(i)
    \/ \E m \in Messages, c \in Categories : JsonParsed(i, m, c)
    \/ JsonFails(i)

Next ==
    \/ Load
    \/ Submit
    \/ \E i \in Submissions : Settle(i)

(***************************************************************************)
(* The browser runs the load handler and every awaited promise settles     *)
(* (the browser's network timeout); the user is under no obligation to     *)
(* submit.                                                                 *)
(***************************************************************************)
Fairness ==
    /\ WF_vars(Load)
    /\ \A i \in Submissions : WF_vars(Settle(i))

Spec == Init /\ [][Next]_vars /\ Fairness

-----------------------------------------------------------------------------
\* Handlers suspended on an await.
Running == {i \in Submissions : handler[i] \in {"fetching", "parsing"}}

\* The page has every element the handler reads before its try, and the
\* button is the form's only submitter.
Complete == page.status /\ page.csrf /\ ~page.other

TypeOK ==
    /\ page \in Pages
    /\ loaded \in BOOLEAN
    /\ disabled \in BOOLEAN
    /\ cursor \in {"unset", "wait", "default"}
    /\ handler \in [Submissions -> Phases]
    /\ status \in Seq([text : Texts, category : Categories])
    /\ submits \in 0 .. MaxSubmits

(***************************************************************************)
(* On a complete page the button is disabled, and the cursor is the wait   *)
(* cursor, exactly while a submit handler is suspended on the fetch or the *)
(* JSON: every path out of the handler passes through the finally block.   *)
(***************************************************************************)
BusyWhileRequesting ==
    Complete =>
        /\ disabled <=> Running # {}
        /\ cursor = "wait" <=> Running # {}

(***************************************************************************)
(* On a complete page, #status is empty while a request is out, and after *)
(* each submission has finished it holds exactly the one message of that   *)
(* submission, never one left from an earlier submission.                  *)
(***************************************************************************)
OneMessagePerSubmission ==
    Complete =>
        /\ Running # {} => status = <<>>
        /\ Running = {} /\ submits > 0 => Len(status) = 1

(***************************************************************************)
(* The finally block is there so that the button is always enabled again:  *)
(* whatever the page, a disabled button eventually becomes enabled.        *)
(***************************************************************************)
ButtonNeverStuck == [](disabled => <>~disabled)

=============================================================================
