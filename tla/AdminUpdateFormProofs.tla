----------------------- MODULE AdminUpdateFormProofs -----------------------
(***************************************************************************)
(* Proofs about the admin update form, for every number of submissions   *)
(* and every set of server messages and categories: the type invariant,  *)
(* and that on a complete page the button and cursor show exactly when a *)
(* request is out and #status holds the one message of the last          *)
(* submission; and that on such a page the form implements the safety    *)
(* part of AdminSubmission.                                                *)
(***************************************************************************)
EXTENDS AdminUpdateFormSubmission, TLAPS

USE CategoriesAssumption, MaxSubmitsAssumption

(***************************************************************************)
(* The inductive invariant.  BusyWhileRequesting and                       *)
(* OneMessagePerSubmission hold because on a complete page only the      *)
(* enabled button submits, so a handler starts only when none is running: *)
(* handlers never overlap (Serial), and a submission's handler starts     *)
(* from "none" because the submissions not yet made have not run          *)
(* (NotYetSubmitted).                                                      *)
(***************************************************************************)
NotYetSubmitted == \A i \in Submissions : i > submits => handler[i] = "none"

Serial == Complete => \A i, j \in Running : i = j

IInv ==
    /\ TypeOK
    /\ NotYetSubmitted
    /\ Serial
    /\ BusyWhileRequesting
    /\ OneMessagePerSubmission

\* A status message keeps #status a sequence of messages; on an empty
\* #status it is the only one.
LEMMA AddStatusMessageType ==
    ASSUME NEW st \in Seq([text : Texts, category : Categories]),
           NEW t \in Texts, NEW c \in Categories
    PROVE  /\ AddStatusMessage(st, t, c) \in Seq([text : Texts, category : Categories])
           /\ st = <<>> => Len(AddStatusMessage(st, t, c)) = 1
BY DEF AddStatusMessage

LEMMA IInvInit == Init => IInv
<1> SUFFICES ASSUME Init PROVE IInv
  OBVIOUS
<1>1. handler \in [Submissions -> Phases] /\ Running = {}
  BY DEF Init, Phases, Running
<1>2. status \in Seq([text : Texts, category : Categories])
      /\ submits \in 0 .. MaxSubmits
  BY DEF Init
<1>3. TypeOK
  BY <1>1, <1>2 DEF Init, TypeOK
<1>4. QED
  BY <1>1, <1>3 DEF Init, IInv, NotYetSubmitted, Serial, BusyWhileRequesting,
     OneMessagePerSubmission

(***************************************************************************)
(* A handler that ends: it appends its one message and runs finally.      *)
(* Four of the continuations end this way; on a complete page the handler *)
(* was the only one running, so afterwards none is.                       *)
(***************************************************************************)
LEMMA EndStep ==
    ASSUME IInv, NEW i \in Submissions,
           handler[i] \in {"fetching", "parsing"},
           NEW t \in Texts, NEW c \in Categories,
           status' = AddStatusMessage(status, t, c),
           Finally(i),
           UNCHANGED <<page, loaded, submits>>
    PROVE  IInv'
<1> USE DEF IInv, TypeOK
<1>1. TypeOK'
  BY AddStatusMessageType DEF Finally, Phases
<1>2. NotYetSubmitted'
  <2>1. i <= submits
    BY DEF NotYetSubmitted, Submissions
  <2>2. QED
    BY <2>1 DEF Finally, NotYetSubmitted, Submissions
<1>3. Running' = Running \ {i}
  BY DEF Finally, Running
<1>4. CASE Complete
  <2>1. Running = {i}
    BY <1>4 DEF Serial, Running
  <2>2. Running' = {}
    BY <1>3, <2>1
  <2>3. status = <<>>
    BY <1>4, <2>1 DEF OneMessagePerSubmission
  <2>4. Len(status') = 1
    BY <2>3, AddStatusMessageType
  <2>5. QED
    BY <1>1, <1>2, <1>4, <2>2, <2>4
       DEF Finally, Complete, Serial, BusyWhileRequesting, OneMessagePerSubmission
<1>5. CASE ~Complete
  BY <1>1, <1>2, <1>5 DEF Complete, Serial, BusyWhileRequesting,
                          OneMessagePerSubmission
<1>6. QED
  BY <1>4, <1>5

LEMMA IInvStep == IInv /\ [Next]_vars => IInv'
<1> SUFFICES ASSUME IInv, [Next]_vars PROVE IInv'
  OBVIOUS
<1> USE DEF IInv, TypeOK
<1>1. CASE Load
  BY <1>1 DEF Load, NotYetSubmitted, Serial, BusyWhileRequesting,
              OneMessagePerSubmission, Running, Complete
<1>2. CASE Submit
  <2> DEFINE k == submits + 1
  <2>1. k \in Submissions /\ handler[k] = "none" /\ submits' = k
    BY <1>2 DEF Submit, CanSubmit, Started, NotYetSubmitted, Submissions
  <2>2. TypeOK'
    <3>1. handler' \in [Submissions -> Phases]
      BY <1>2, <2>1 DEF Submit, Started, Phases
    <3>2. submits' \in 0 .. MaxSubmits
      BY <1>2, <2>1 DEF Submit, CanSubmit, Submissions
    <3>3. status' \in Seq([text : Texts, category : Categories])
      BY <1>2 DEF Submit, Started
    <3>4. QED
      BY <1>2, <3>1, <3>2, <3>3 DEF Submit, Started
  <2>3. NotYetSubmitted'
    BY <1>2, <2>1 DEF Submit, Started, NotYetSubmitted, Submissions
  <2>4. CASE Complete
    \* The button was enabled, so no handler was running; now k alone is.
    <3>1. Running = {}
      BY <1>2, <2>4 DEF Submit, CanSubmit, Complete, BusyWhileRequesting
    <3>2. Running' = {k}
      BY <1>2, <2>1, <2>4, <3>1 DEF Submit, Started, Complete, Running
    <3>3. QED
      BY <1>2, <2>2, <2>3, <2>4, <3>2 DEF Submit, Started, Complete, Serial,
         BusyWhileRequesting, OneMessagePerSubmission
  <2>5. CASE ~Complete
    BY <1>2, <2>2, <2>3, <2>5 DEF Submit, Started, Complete, Serial,
       BusyWhileRequesting, OneMessagePerSubmission
  <2>6. QED
    BY <2>4, <2>5
<1>3. ASSUME NEW i \in Submissions, Settle(i) PROVE IInv'
  <2>1. CASE FetchNotOk(i)
    BY <2>1, EndStep DEF FetchNotOk, Texts
  <2>2. CASE FetchRejects(i)
    BY <2>2, EndStep DEF FetchRejects, Texts
  <2>3. CASE FetchOk(i)
    \* The handler moves from the fetch to the JSON; nothing shows it.
    <3>1. Running' = Running
      BY <2>3 DEF FetchOk, Running
    <3>2. TypeOK'
      BY <2>3 DEF FetchOk, Phases
    <3>3. NotYetSubmitted'
      BY <2>3 DEF FetchOk, NotYetSubmitted, Submissions
    <3>4. QED
      BY <2>3, <3>1, <3>2, <3>3 DEF FetchOk, Serial, Complete,
         BusyWhileRequesting, OneMessagePerSubmission
  <2>4. CASE \E m \in Messages, c \in Categories : JsonParsed(i, m, c)
    BY <2>4, EndStep DEF JsonParsed, Texts
  <2>5. CASE JsonFails(i)
    BY <2>5, EndStep DEF JsonFails, Texts
  <2>6. QED
    BY <1>3, <2>1, <2>2, <2>3, <2>4, <2>5 DEF Settle
<1>4. CASE UNCHANGED vars
  BY <1>4 DEF vars, NotYetSubmitted, Serial, BusyWhileRequesting,
              OneMessagePerSubmission, Running, Complete
<1>5. QED
  BY <1>1, <1>2, <1>3, <1>4 DEF Next

LEMMA IInvHolds == Spec => []IInv
BY IInvInit, IInvStep, PTL DEF Spec

(***************************************************************************)
(* For every MaxSubmits and every set of messages and categories, the     *)
(* variables keep their types; #status stays a sequence of messages.      *)
(***************************************************************************)
THEOREM TypeCorrect == Spec => []TypeOK
BY IInvHolds, PTL DEF IInv

(***************************************************************************)
(* For every MaxSubmits, on a page with #status, the CSRF input and no    *)
(* other submitter, the button is disabled and the cursor waits exactly  *)
(* while a submit handler is suspended on an await: every path out of    *)
(* the try passes through finally.                                        *)
(***************************************************************************)
THEOREM BusySafety == Spec => []BusyWhileRequesting
BY IInvHolds, PTL DEF IInv

(***************************************************************************)
(* For every MaxSubmits, on such a page #status is empty while a request *)
(* is out and afterwards holds exactly the one message of the last        *)
(* submission, never a message left from an earlier one.                  *)
(***************************************************************************)
THEOREM MessageSafety == Spec => []OneMessagePerSubmission
BY IInvHolds, PTL DEF IInv


-----------------------------------------------------------------------------
(***************************************************************************)
(* Refinement of AdminSubmission.  On a complete page a submission is an  *)
(* abstract Submit, a continuation that appends a message and runs        *)
(* finally is a Reply, and the load and the step from the fetch to the   *)
(* JSON are stutters.  The argument needs IInv: a submission starts only *)
(* with no handler running (so the abstract form was idle), and an ending *)
(* handler was the only one running with #status empty (so the abstract  *)
(* form becomes idle with exactly its one message).  On any other page   *)
(* the page never changes, so the mapped state never does.                *)
(***************************************************************************)
LEMMA SubmissionInit == Init => Submission!Init
BY DEF Init, Submission!Init, BusyOf, StatusOf, SubmitsOf, Running

\* An ending handler on a complete page is an abstract Reply.
LEMMA EndRefines ==
    ASSUME IInv, Complete, NEW i \in Submissions,
           handler[i] \in {"fetching", "parsing"},
           NEW t \in Texts, NEW c \in Categories,
           status' = AddStatusMessage(status, t, c),
           Finally(i),
           UNCHANGED <<page, loaded, submits>>
    PROVE  Submission!Reply
<1> USE DEF IInv, TypeOK
<1>1. Running = {i} /\ status = <<>>
  BY DEF Serial, Running, OneMessagePerSubmission
<1>2. Running' = {}
  BY <1>1 DEF Finally, Running
<1>3. Complete'
  BY DEF Complete
<1>4. StatusOf' = <<[text |-> t, category |-> c]>>
  BY <1>1, <1>3 DEF StatusOf, AddStatusMessage
<1>5. QED
  BY <1>1, <1>2, <1>3, <1>4
     DEF Submission!Reply, BusyOf, SubmitsOf

LEMMA SubmissionStep == IInv /\ [Next]_vars => [Submission!ANext]_Submission!avars
<1> SUFFICES ASSUME IInv, [Next]_vars
             PROVE  [Submission!ANext]_Submission!avars
  OBVIOUS
<1>0. page' = page
  BY DEF Next, vars, Load, Submit, Started, Settle, FetchNotOk, FetchRejects,
         FetchOk, JsonParsed, JsonFails
<1>1. CASE ~Complete
  <2>1. ~Complete'
    BY <1>0, <1>1 DEF Complete
  <2>2. QED
    BY <1>1, <2>1 DEF Submission!avars, BusyOf, StatusOf, SubmitsOf
<1>2. CASE Complete
  <2> USE <1>2
  <2>1. CASE Load
    BY <2>1 DEF Load, Submission!avars, BusyOf, StatusOf, SubmitsOf,
       Running, Complete
  <2>2. CASE Submit
    <3> DEFINE k == submits + 1
    <3>1. Running = {} /\ submits < MaxSubmits /\ submits \in Nat
      BY <2>2 DEF Submit, CanSubmit, Complete, IInv, TypeOK,
         BusyWhileRequesting
    <3>2. k \in Submissions /\ handler[k] = "none"
      BY <3>1 DEF IInv, NotYetSubmitted, Submissions
    <3>3. Running' = {k}
      BY <2>2, <3>1, <3>2 DEF Submit, Started, Complete, Running, IInv, TypeOK
    <3>4. Complete' /\ status' = <<>> /\ submits' = k
      BY <2>2 DEF Submit, Started, Complete
    <3>5. QED
      BY <3>1, <3>3, <3>4 DEF Submission!ANext, Submission!Submit, BusyOf,
         StatusOf, SubmitsOf
  <2>3. ASSUME NEW i \in Submissions, Settle(i)
        PROVE  [Submission!ANext]_Submission!avars
    <3>1. CASE FetchNotOk(i)
      BY <3>1, EndRefines DEF FetchNotOk, Texts, Submission!ANext
    <3>2. CASE FetchRejects(i)
      BY <3>2, EndRefines DEF FetchRejects, Texts, Submission!ANext
    <3>3. CASE FetchOk(i)
      <4>1. Running' = Running
        BY <3>3 DEF FetchOk, Running
      <4>2. QED
        BY <3>3, <4>1 DEF FetchOk, Submission!avars, BusyOf, StatusOf,
           SubmitsOf, Complete
    <3>4. CASE \E m \in Messages, c \in Categories : JsonParsed(i, m, c)
      BY <3>4, EndRefines DEF JsonParsed, Texts, Submission!ANext
    <3>5. CASE JsonFails(i)
      BY <3>5, EndRefines DEF JsonFails, Texts, Submission!ANext
    <3>6. QED
      BY <2>3, <3>1, <3>2, <3>3, <3>4, <3>5 DEF Settle
  <2>4. CASE UNCHANGED vars
    BY <2>4 DEF vars, Submission!avars, BusyOf, StatusOf, SubmitsOf, Running,
       Complete
  <2>5. QED
    BY <2>1, <2>2, <2>3, <2>4 DEF Next
<1>3. QED
  BY <1>1, <1>2

(***************************************************************************)
(* For every MaxSubmits and every set of messages and categories, on a    *)
(* page with #status, the CSRF input and no other submitter, the admin    *)
(* form implements the safety part of AdminSubmission: submissions never  *)
(* overlap, each empties #status, and each ends with exactly one message. *)
(***************************************************************************)
THEOREM SubmissionRefinement ==
    Spec => Submission!Init /\ [][Submission!ANext]_Submission!avars
<1>1. IInv /\ [Next]_vars => [Submission!ANext]_Submission!avars
  BY SubmissionStep
<1>2. QED
  BY <1>1, IInvHolds, SubmissionInit, PTL DEF Spec

=============================================================================
