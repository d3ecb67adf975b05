------------------------ MODULE AnnounceConfirmProofs ------------------------
(***************************************************************************)
(* Proofs about the confirmation gate of the announce form, for every set *)
(* of values the field can hold.                                           *)
(***************************************************************************)
EXTENDS AnnounceConfirm, TLAPS

\* The inductive invariant: nothing is recorded as sent, and no listener is
\* bound, before the load handler ran; once the listener is bound, the
\* button is disabled exactly when the field is not "CONFIRM".
IInv ==
    /\ TypeOK
    /\ ~loaded => sent = {} /\ ~listening
    /\ listening => (disabled <=> value # "CONFIRM")
    /\ OnlyConfirmedSent

LEMMA IInvInit == Init => IInv
BY DEF Init, IInv, TypeOK, OnlyConfirmedSent

LEMMA IInvStep == IInv /\ [Next]_vars => IInv'
<1> SUFFICES ASSUME IInv, [Next]_vars PROVE IInv'
  OBVIOUS
<1>1. CASE InitAnnounceConfirm
  <2>1. ~loaded /\ loaded' /\ sent' = sent /\ sent = {}
    BY <1>1 DEF InitAnnounceConfirm, IInv
  <2>2. CASE ~(page.input /\ page.form /\ page.button)
    \* An early return: nothing is bound, and nothing was bound before.
    BY <1>1, <2>1, <2>2 DEF InitAnnounceConfirm, IInv, TypeOK, Pages,
                            OnlyConfirmedSent
  <2>3. CASE page.input /\ page.form /\ page.button
    \* The listener is bound with sent empty, and the first call of
    \* updateButtonState sets the button from the field.
    BY <1>1, <2>1, <2>3 DEF InitAnnounceConfirm, UpdateButtonState, IInv,
                            TypeOK, Pages, OnlyConfirmedSent
  <2>4. QED
    BY <2>2, <2>3
<1>2. ASSUME NEW v \in Values, Input(v) PROVE IInv'
  \* The bound listener recomputes the button for the new value.
  BY <1>2 DEF Input, UpdateButtonState, IInv, TypeOK, Pages, OnlyConfirmedSent
<1>3. CASE Submit
  \* An enabled button under the listener means the field is "CONFIRM".
  BY <1>3 DEF Submit, IInv, TypeOK, Pages, OnlyConfirmedSent
<1>4. CASE UNCHANGED vars
  BY <1>4 DEF vars, IInv, TypeOK, OnlyConfirmedSent
<1>5. QED
  BY <1>1, <1>2, <1>3, <1>4 DEF Next

(***************************************************************************)
(* For every set of values, once initAnnounceConfirm has bound its        *)
(* listener the form is only ever submitted with "CONFIRM" in the field,  *)
(* whatever the field held and however the button was rendered before.   *)
(***************************************************************************)
THEOREM ConfirmGateSafety == Spec => []OnlyConfirmedSent
<1>1. Spec => []IInv
  BY IInvInit, IInvStep, PTL DEF Spec
<1>2. IInv => OnlyConfirmedSent
  BY DEF IInv
<1>3. QED
  BY <1>1, <1>2, PTL

=============================================================================
