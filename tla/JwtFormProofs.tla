---------------------------- MODULE JwtFormProofs ----------------------------
(***************************************************************************)
(* Proofs about the JWT issue form, for every bound on submissions.       *)
(***************************************************************************)
EXTENDS JwtForm, TLAPS

\* The inductive invariant: a handler awaiting its body got it from an OK
\* response, so the body it is about to show is a token.
IInv ==
    /\ TypeOK
    /\ \A i \in Submissions : handler[i] = "reading" => body[i] = "token"
    /\ OutputShowsOnlyTokens

LEMMA IInvInit ==
    ASSUME MaxSubmits \in Nat
    PROVE  Init => IInv
<1> SUFFICES ASSUME Init PROVE IInv
  OBVIOUS
<1>1. TypeOK
  <2>1. page \in Pages /\ loaded \in BOOLEAN /\ listening \in BOOLEAN
    BY DEF Init
  <2>2. handler \in [Submissions -> Phases] /\ body \in [Submissions -> Bodies]
    BY DEF Init, Phases, Bodies
  <2>3. output \in Outputs
    BY DEF Init, Outputs
  <2>4. submits \in 0 .. MaxSubmits
    BY DEF Init
  <2>5. QED
    BY <2>1, <2>2, <2>3, <2>4 DEF TypeOK
<1>2. QED
  BY <1>1 DEF Init, IInv, OutputShowsOnlyTokens

LEMMA IInvStep ==
    ASSUME MaxSubmits \in Nat
    PROVE  IInv /\ [Next]_vars => IInv'
<1> SUFFICES ASSUME IInv, [Next]_vars PROVE IInv'
  OBVIOUS
<1>1. CASE Load
  BY <1>1 DEF Load, IInv, TypeOK, Pages, OutputShowsOnlyTokens
<1>2. CASE Submit
  \* The new handler is fetching; submissions is below its bound.
  BY <1>2 DEF Submit, IInv, TypeOK, Phases, Submissions, OutputShowsOnlyTokens
<1>3. ASSUME NEW i \in Submissions, Settle(i) PROVE IInv'
  <2>1. CASE FetchRejects(i)
    BY <2>1 DEF FetchRejects, IInv, TypeOK, Phases, OutputShowsOnlyTokens
  <2>2. ASSUME NEW ok \in BOOLEAN, FetchAnswered(i, ok) PROVE IInv'
    \* Only an OK response goes on to read its body, and that body is the
    \* token.
    BY <2>2 DEF FetchAnswered, IInv, TypeOK, Phases, Bodies,
                OutputShowsOnlyTokens
  <2>3. CASE TextRead(i)
    \* The body shown is the token the invariant promises.
    BY <2>3 DEF TextRead, IInv, TypeOK, Phases, Bodies, Outputs,
                OutputShowsOnlyTokens
  <2>4. CASE TextRejects(i)
    BY <2>4 DEF TextRejects, IInv, TypeOK, Phases, OutputShowsOnlyTokens
  <2>5. QED
    BY <1>3, <2>1, <2>2, <2>3, <2>4 DEF Settle
<1>4. CASE UNCHANGED vars
  BY <1>4 DEF vars, IInv, TypeOK, OutputShowsOnlyTokens
<1>5. QED
  BY <1>1, <1>2, <1>3, <1>4 DEF Next

(***************************************************************************)
(* For every bound on submissions, #jwt-output only ever shows a token    *)
(* issued by an OK response, however many submit handlers overlap and in *)
(* whatever order their fetches and body reads settle.                    *)
(***************************************************************************)
THEOREM OutputSafety ==
    ASSUME MaxSubmits \in Nat
    PROVE  Spec => []OutputShowsOnlyTokens
<1>1. Init => IInv
  BY IInvInit
<1>2. IInv /\ [Next]_vars => IInv'
  BY IInvStep
<1>3. Spec => []IInv
  BY <1>1, <1>2, PTL DEF Spec
<1>4. QED
  BY <1>3, PTL DEF IInv

=============================================================================
