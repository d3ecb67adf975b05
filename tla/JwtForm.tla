------------------------------- MODULE JwtForm -------------------------------
(***************************************************************************)
(* The JWT issue form (src/atr/static/js/ts/create-a-jwt.js, compiled from *)
(* TypeScript).                                                            *)
(*                                                                         *)
(* On DOMContentLoaded the script returns unless both #issue-jwt-form and  *)
(* #jwt-output exist; otherwise it attaches an async submit handler that   *)
(* prevents the navigation, awaits the POST and then either awaits the     *)
(* body and shows it as the token, or alerts on a non-2xx status.  Nothing *)
(* disables the form, so several handlers can be suspended at once, and   *)
(* nothing catches a rejected fetch or body read.                          *)
(*                                                                         *)
(* Submission i is handler i; the token the server issues for it is i.    *)
(* Submissions before the listener exists navigate away and are left out. *)
(***************************************************************************)
EXTENDS Naturals

CONSTANTS
    MaxSubmits  \* the number of submissions a behaviour may contain

Submissions == 1 .. MaxSubmits

VARIABLES
    page,       \* which of the form and the output element exist
    loaded,     \* the DOMContentLoaded handler has run
    listening,  \* the submit handler is attached
    handler,    \* handler[i]: where the handler of submission i is
    body,       \* body[i]: what submission i's response carries
    output,     \* #jwt-output: hidden, or the body of submission `of`
    submits     \* submissions so far

vars == <<page, loaded, listening, handler, body, output, submits>>

Pages == [form : BOOLEAN, output : BOOLEAN]

\* "fetching": awaiting fetch; "reading": awaiting resp.text(); "shown",
\* "alerted": returned after the output or the alert; "rejected": ended by
\* an unhandled rejection of the fetch or of the body read.
Phases == {"none", "fetching", "reading", "shown", "alerted", "rejected"}

\* A response body: the token of an OK response, or an error page.
Bodies == {"none", "token", "other"}

Outputs == {[kind |-> "hidden"]}
             \cup [kind : Bodies \ {"none"}, of : Submissions]

Init ==
    /\ page \in Pages
    /\ loaded = FALSE
    /\ listening = FALSE
    /\ handler = [i \in Submissions |-> "none"]
    /\ body = [i \in Submissions |-> "none"]
    /\ output = [kind |-> "hidden"]
    /\ submits = 0

\* The DOMContentLoaded handler: the early return, or the submit listener.
Load ==
    /\ ~loaded
    /\ loaded' = TRUE
    /\ listening' = (page.form /\ page.output)
    /\ UNCHANGED <<page, handler, body, output, submits>>

\* The user submits: the handler starts the fetch and suspends.
Submit ==
    /\ listening
    /\ submits < MaxSubmits
    /\ submits' = submits + 1
    /\ handler' = [handler EXCEPT ![submits + 1] = "fetching"]
    /\ UNCHANGED <<page, loaded, listening, body, output>>

\* The fetch rejects: nothing catches it.
FetchRejects(i) ==
    /\ handler[i] = "fetching"
    /\ handler' = [handler EXCEPT ![i] = "rejected"]
    /\ UNCHANGED <<page, loaded, listening, body, output, submits>>

\* The response arrives: resp.ok awaits the body, otherwise the alert.
FetchAnswered(i, ok) ==
    /\ handler[i] = "fetching"
    /\ handler' = [handler EXCEPT ![i] = IF ok THEN "reading" ELSE "alerted"]
    /\ body' = [body EXCEPT ![i] = IF ok THEN "token" ELSE "other"]
    /\ UNCHANGED <<page, loaded, listening, output, submits>>

\* The body arrives: the output is unhidden and shows it.
TextRead(i) ==
    /\ handler[i] = "reading"
    /\ handler' = [handler EXCEPT ![i] = "shown"]
    /\ output' = [kind |-> body[i], of |-> i]
    /\ UNCHANGED <<page, loaded, listening, body, submits>>

\* The body read rejects: nothing catches it.
TextRejects(i) ==
    /\ handler[i] = "reading"
    /\ handler' = [handler EXCEPT ![i] = "rejected"]
    /\ UNCHANGED <<page, loaded, listening, body, output, submits>>

\* Everything handler i can do next.
Settle(i) ==
    \/ FetchRejects(i)
    \/ \E ok \in BOOLEAN : FetchAnswered(i, ok)
    \/ TextRead(i)
    \/ TextRejects(i)

Next ==
    \/ Load
    \/ Submit
    \/ \E i \in Submissions : Settle(i)

\* The browser runs the load handler and every awaited promise settles.
Spec == Init /\ [][Next]_vars /\ WF_vars(Load)
            /\ \A i \in Submissions : WF_vars(Settle(i))

-----------------------------------------------------------------------------
TypeOK ==
    /\ page \in Pages
    /\ loaded \in BOOLEAN
    /\ listening \in BOOLEAN
    /\ handler \in [Submissions -> Phases]
    /\ body \in [Submissions -> Bodies]
    /\ output \in Outputs
    /\ submits \in 0 .. MaxSubmits

(***************************************************************************)
(* The output only ever shows a token issued by an OK response, never the *)
(* body of an error response, even when several submissions overlap and   *)
(* their responses settle in any order.                                    *)
(***************************************************************************)
OutputShowsOnlyTokens ==
    output.kind \in {"hidden", "token"}

=============================================================================
