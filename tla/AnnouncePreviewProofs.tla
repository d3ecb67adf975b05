----------------------- MODULE AnnouncePreviewProofs -----------------------
(***************************************************************************)
(* Proofs about AnnouncePreview for every set of bodies and every bound on *)
(* edits: the type invariant, and that the debounce never leaves the last  *)
(* edit unsent once typing pauses.                                         *)
(***************************************************************************)
EXTENDS AnnouncePreview, TLAPS

USE TextsAssumption, MaxEditsAssumption

LEMMA TypeInit == Init => TypeOK
<1> SUFFICES ASSUME Init PROVE TypeOK
  OBVIOUS
<1>1. inflight \in [Texts -> Nat]
  BY DEF Init
<1>2. preview \in Previews
  <2>1. [kind |-> "initial"] \in Previews
    BY Zenon DEF Previews
  <2>2. QED
    BY <2>1 DEF Init
<1>3. page \in Pages /\ lastSent \in Texts \cup {None} /\ body \in Texts
  BY Zenon DEF Init
<1>4. loaded \in BOOLEAN /\ listening \in BOOLEAN
  BY Zenon DEF Init
<1>5. edits \in 0 .. MaxEdits /\ debounce \in 0 .. 1
  <2>1. edits = 0 /\ debounce = 0
    BY Zenon DEF Init
  <2>2. QED
    BY <2>1
<1>6. QED
  BY <1>1, <1>2, <1>3, <1>4, <1>5 DEF TypeOK

LEMMA TypeStep == TypeOK /\ [Next]_vars => TypeOK'
<1> SUFFICES ASSUME TypeOK, [Next]_vars PROVE TypeOK'
  OBVIOUS
<1>1. CASE InitAnnouncePreview
  <2>1. inflight' \in [Texts -> Nat] /\ lastSent' \in Texts \cup {None}
    BY <1>1 DEF InitAnnouncePreview, DoFetch, TypeOK
  <2>2. QED
    BY <1>1, <2>1 DEF InitAnnouncePreview, TypeOK
<1>2. CASE \E t \in Texts : Input(t)
  BY <1>2 DEF Input, TypeOK
<1>3. CASE DebounceFires
  BY <1>3 DEF DebounceFires, DoFetch, TypeOK
<1>4. CASE \E t \in Texts : PreviewArrives(t) \/ PreviewFails(t)
  BY <1>4 DEF PreviewArrives, PreviewFails, TypeOK, Previews
<1>5. CASE UNCHANGED vars
  BY <1>5 DEF vars, TypeOK
<1>6. QED
  BY <1>1, <1>2, <1>3, <1>4, <1>5 DEF Next

(***************************************************************************)
(* Every reachable state is well typed; in particular at most one debounce *)
(* timer is ever pending, because the input listener clears the old one.  *)
(***************************************************************************)
THEOREM TypeCorrect == Spec => []TypeOK
BY TypeInit, TypeStep, PTL DEF Spec

(***************************************************************************)
(* DebounceSendsLatest is inductive together with TypeOK: an input event   *)
(* with the listener attached arms the timer, the timer sends the body as  *)
(* it is when it fires, and without the listener there is no timer.        *)
(***************************************************************************)
IInv == TypeOK /\ DebounceSendsLatest

LEMMA IInvInit == Init => IInv
BY TypeInit DEF Init, IInv, DebounceSendsLatest

LEMMA IInvStep == IInv /\ [Next]_vars => IInv'
<1> SUFFICES ASSUME IInv, [Next]_vars PROVE IInv'
  OBVIOUS
<1>0. TypeOK'
  BY TypeStep DEF IInv
<1> USE DEF IInv, DebounceSendsLatest
<1>1. CASE InitAnnouncePreview
  BY <1>0, <1>1 DEF InitAnnouncePreview, DoFetch, TypeOK
<1>2. CASE \E t \in Texts : Input(t)
  BY <1>0, <1>2 DEF Input
<1>3. CASE DebounceFires
  BY <1>0, <1>3 DEF DebounceFires, DoFetch
<1>4. CASE \E t \in Texts : PreviewArrives(t) \/ PreviewFails(t)
  BY <1>0, <1>4 DEF PreviewArrives, PreviewFails
<1>5. CASE UNCHANGED vars
  BY <1>0, <1>5 DEF vars
<1>6. QED
  BY <1>1, <1>2, <1>3, <1>4, <1>5 DEF Next

(***************************************************************************)
(* For every set of bodies: whenever the listener is attached and no       *)
(* debounce timer is pending, the most recent preview request carried the  *)
(* textarea's current body.                                                *)
(***************************************************************************)
THEOREM DebounceSafety == Spec => []DebounceSendsLatest
<1>1. Spec => []IInv
  BY IInvInit, IInvStep, PTL DEF Spec
<1>2. IInv => DebounceSendsLatest
  BY DEF IInv
<1>3. QED
  BY <1>1, <1>2, PTL

=============================================================================
