------------------------- MODULE KeysAddToggleProofs -------------------------
(***************************************************************************)
(* Proofs about the select-all button of the add-key form, for every set  *)
(* of committees.                                                           *)
(***************************************************************************)
EXTENDS KeysAddToggle, TLAPS

\* The inductive invariant: the types, and the button exists only on a page
\* with at least one checkbox (the load handler's first early return).
IInv == TypeOK /\ (present => boxes # {})

LEMMA IInvInit == Init => IInv
BY DEF Init, IInv, TypeOK, Labels

LEMMA IInvStep == IInv /\ [Next]_vars => IInv'
<1> SUFFICES ASSUME IInv, [Next]_vars PROVE IInv'
  OBVIOUS
<1>1. CASE Load
  BY <1>1 DEF Load, IInv, TypeOK
<1>2. ASSUME NEW b \in boxes, ClickBox(b) PROVE IInv'
  BY <1>2 DEF ClickBox, IInv, TypeOK
<1>3. CASE ClickButton
  BY <1>3 DEF ClickButton, IInv, TypeOK, Labels
<1>4. CASE UNCHANGED vars
  BY <1>4 DEF vars, IInv, TypeOK
<1>5. QED
  BY <1>1, <1>2, <1>3, <1>4 DEF Next

\* A click of the button, from any well-typed state, settles the boxes and
\* leaves the label naming the following click.
LEMMA ClickStep == IInv /\ ClickButton =>
          /\ \/ AllChecked(checked')
             \/ \A b \in boxes : ~checked'[b]
          /\ label' = IF NextClickSelects' THEN "select" ELSE "deselect"
<1> SUFFICES ASSUME IInv, ClickButton
             PROVE  /\ \/ AllChecked(checked')
                       \/ \A b \in boxes : ~checked'[b]
                    /\ label' = IF NextClickSelects' THEN "select"
                                ELSE "deselect"
  OBVIOUS
<1>0. boxes' = boxes /\ boxes # {}
  BY DEF ClickButton, IInv
<1>1. CASE AllChecked(checked)
  \* Every box, and there is one, is unchecked; the label offers to
  \* select them again.
  <2>1. \A b \in boxes : ~checked'[b]
    BY <1>1 DEF ClickButton
  <2>2. NextClickSelects'
    BY <1>0, <2>1 DEF NextClickSelects, AllChecked
  <2>3. label' = "select"
    BY <1>1 DEF ClickButton
  <2>4. QED
    BY <2>1, <2>2, <2>3
<1>2. CASE ~AllChecked(checked)
  \* Every box is checked; the label offers to deselect them.
  <2>1. AllChecked(checked')
    BY <1>2 DEF ClickButton, AllChecked
  <2>2. label' = "deselect"
    BY <1>2 DEF ClickButton
  <2>3. QED
    BY <1>0, <2>1, <2>2 DEF NextClickSelects, AllChecked
<1>3. QED
  BY <1>1, <1>2

(***************************************************************************)
(* For every set of committees, each click of the select-all button       *)
(* leaves the boxes all checked or all unchecked and the label naming what *)
(* the next click does: the button's own click never leaves it stale.     *)
(***************************************************************************)
THEOREM ClickSettles == Spec => ClickSettlesBoxes
<1>1. Spec => []IInv
  BY IInvInit, IInvStep, PTL DEF Spec
<1>2. IInv /\ [Next]_vars =>
        [ClickButton =>
           /\ \/ AllChecked(checked')
              \/ \A b \in boxes : ~checked'[b]
           /\ label' = IF NextClickSelects' THEN "select" ELSE "deselect"]_vars
  BY ClickStep
<1>3. QED
  BY <1>1, <1>2, PTL DEF Spec, ClickSettlesBoxes

=============================================================================
