----------------------- MODULE IgnoreFormChangeProofs -----------------------
(***************************************************************************)
(* Proofs about the unchanged-value detection, for every number of rows   *)
(* and every set of values.                                                *)
(***************************************************************************)
EXTENDS IgnoreFormChange, TLAPS

\* The inductive invariant: no check() is bound before the load handler
\* ran, and every bound row with a button tracks its value.
IInv ==
    /\ TypeOK
    /\ ~loaded => \A r \in Rows : ~listening[r]
    /\ BoundRowsTrackValue

LEMMA IInvInit == Init => IInv
BY DEF Init, IInv, TypeOK, BoundRowsTrackValue

LEMMA IInvStep == IInv /\ [Next]_vars => IInv'
<1> SUFFICES ASSUME IInv, [Next]_vars PROVE IInv'
  OBVIOUS
<1>1. CASE Load
  \* Every reached row with a button is bound and checked in the same
  \* handler; the other rows stay unbound or have no button.
  <2>1. TypeOK'
    BY <1>1 DEF Load, IInv, TypeOK, Check
  <2>2. \A r \in Rows : listening'[r] /\ hasButton'[r] =>
                           (disabled'[r] <=> value'[r] = stored'[r])
    BY <1>1 DEF Load, IInv, TypeOK, Check
  <2>3. QED
    BY <1>1, <2>1, <2>2 DEF Load, IInv, BoundRowsTrackValue
<1>2. ASSUME NEW r \in Rows, NEW v \in Values, Input(r, v) PROVE IInv'
  \* Only row r's value changes, and its bound check() follows it.
  <2>1. TypeOK'
    BY <1>2 DEF Input, IInv, TypeOK, Check
  <2>2. BoundRowsTrackValue'
    BY <1>2 DEF Input, IInv, TypeOK, Check, BoundRowsTrackValue
  <2>3. QED
    BY <1>2, <2>1, <2>2 DEF Input, IInv
<1>3. CASE UNCHANGED vars
  BY <1>3 DEF vars, IInv, TypeOK, BoundRowsTrackValue
<1>4. QED
  BY <1>1, <1>2, <1>3 DEF Next

(***************************************************************************)
(* For every number of rows, once the page has loaded, the update button  *)
(* of every row check() is bound to is disabled exactly while its input   *)
(* holds the stored value, whatever the server rendered and whatever the *)
(* browser restored before the script ran.                                *)
(***************************************************************************)
THEOREM BoundRowsSafety == Spec => []BoundRowsTrackValue
<1>1. Spec => []IInv
  BY IInvInit, IInvStep, PTL DEF Spec
<1>2. QED
  BY <1>1, PTL DEF IInv

=============================================================================
