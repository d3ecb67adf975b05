---------------------- MODULE CommitteeDirectoryProofs ----------------------
(***************************************************************************)
(* Proofs about the committee directory, for every set of cards and of    *)
(* filter texts.                                                           *)
(***************************************************************************)
EXTENDS CommitteeDirectory, FiniteSetTheorems, TLAPS

\* Once the cards are listed, a handler's count is that of the cards shown.
LEMMA CountOfVisible ==
    ASSUME NEW h, loaded
    PROVE  CountOf(h) = Cardinality(Visible(h))
<1>1. {c \in Listed : ~h[c]} = Visible(h)
  BY DEF Listed, Visible
<1>2. QED
  BY <1>1 DEF CountOf

LEMMA CountInit == Init => CountMatchesVisible
BY DEF Init, CountMatchesVisible

LEMMA CountStep ==
    CountMatchesVisible /\ [Next]_vars => CountMatchesVisible'
<1> SUFFICES ASSUME CountMatchesVisible, [Next]_vars
             PROVE  CountMatchesVisible'
  OBVIOUS
<1>1. ASSUME NEW f \in Filters, Type(f) PROVE CountMatchesVisible'
  BY <1>1 DEF Type, CountMatchesVisible, Visible
<1>2. CASE FilterCommitteesByText
  \* The filter recounts the cards it shows, when the cards are listed.
  <2>1. CASE loaded
    BY <1>2, <2>1, CountOfVisible DEF FilterCommitteesByText,
                                      CountMatchesVisible
  <2>2. CASE ~loaded
    BY <1>2, <2>2 DEF FilterCommitteesByText, CountMatchesVisible
  <2>3. QED
    BY <2>1, <2>2
<1>3. CASE ClickParticipant
  \* So does the participant button.
  <2>1. CASE loaded
    BY <1>3, <2>1, CountOfVisible DEF ClickParticipant, CountMatchesVisible
  <2>2. CASE ~loaded
    BY <1>3, <2>2 DEF ClickParticipant, CountMatchesVisible
  <2>3. QED
    BY <2>1, <2>2
<1>4. CASE InitCommitteeVisibility
  \* The load handler counts the cards its initial mode shows.
  BY <1>4 DEF InitCommitteeVisibility, CountMatchesVisible, Visible
<1>5. ASSUME NEW c \in Cards, ToggleProjects(c) PROVE CountMatchesVisible'
  BY <1>5 DEF ToggleProjects, CountMatchesVisible, Visible
<1>6. CASE UNCHANGED vars
  BY <1>6 DEF vars, CountMatchesVisible, Visible
<1>7. QED
  BY <1>1, <1>2, <1>3, <1>4, <1>5, <1>6 DEF Next

(***************************************************************************)
(* For every set of cards and filters, once DOMContentLoaded has listed   *)
(* the cards, #committee-count is the number of cards shown, whichever of *)
(* the text filter, the participant button and the load handler ran last *)
(* and whatever ran before the cards were listed.                          *)
(***************************************************************************)
THEOREM CountSafety == Spec => []CountMatchesVisible
BY CountInit, CountStep, PTL DEF Spec

-----------------------------------------------------------------------------
(***************************************************************************)
(* Type correctness.  The only fact beyond the shape of the actions is the *)
(* range of #committee-count: a handler counts a subset of the cards, and *)
(* the cards are finite.                                                   *)
(***************************************************************************)
\* A handler counts a subset of the cards, and the cards are finite.
LEMMA SubsetCount ==
    ASSUME NEW S \in SUBSET Cards
    PROVE  Cardinality(S) \in 0 .. Cardinality(Cards)
<1>1. IsFiniteSet(Cards)
  BY FiltersAssumption
<1>2. IsFiniteSet(S) /\ Cardinality(S) <= Cardinality(Cards)
  BY <1>1, FS_Subset
<1>3. Cardinality(S) \in Nat /\ Cardinality(Cards) \in Nat
  BY <1>1, <1>2, FS_CardinalityType
<1>4. QED
  BY <1>2, <1>3

LEMMA CountOfRange ==
    ASSUME NEW h
    PROVE  CountOf(h) \in 0 .. Cardinality(Cards)
<1>1. {c \in Listed : ~h[c]} \subseteq Cards
  BY DEF Listed
<1>2. QED
  BY <1>1, SubsetCount DEF CountOf

LEMMA TypeInit == Init => TypeOK
<1> SUFFICES ASSUME Init PROVE TypeOK
  OBVIOUS
<1>1. expanded \in [Cards -> BOOLEAN]
  BY DEF Init
<1>2. matches \subseteq (Filters \ {""}) \X Cards /\ participant \subseteq Cards
  BY DEF Init
<1>3. QED
  BY <1>1, <1>2 DEF Init, TypeOK

LEMMA TypeStep == TypeOK /\ [Next]_vars => TypeOK'
<1> SUFFICES ASSUME TypeOK, [Next]_vars PROVE TypeOK'
  OBVIOUS
<1> USE DEF TypeOK
<1>1. ASSUME NEW f \in Filters, Type(f) PROVE TypeOK'
  BY <1>1 DEF Type
<1>2. CASE FilterCommitteesByText
  BY <1>2, CountOfRange DEF FilterCommitteesByText, Show, Modes
<1>3. CASE ClickParticipant
  <2> DEFINE h == Show(IF showing = "all" THEN participant ELSE Cards)
  <2>1. hidden' = h /\ count' = CountOf(h)
    BY <1>3 DEF ClickParticipant
  <2>2. h \in [Cards -> BOOLEAN] /\ CountOf(h) \in 0 .. Cardinality(Cards)
    BY CountOfRange DEF Show
  <2>3. QED
    BY <1>3, <2>1, <2>2, FiltersAssumption DEF ClickParticipant, Modes
<1>4. CASE InitCommitteeVisibility
  <2>2. Cardinality({c \in Cards : ~hidden'[c]}) \in 0 .. Cardinality(Cards)
    BY SubsetCount
  <2>3. QED
    BY <1>4, <2>2 DEF InitCommitteeVisibility
<1>5. ASSUME NEW c \in Cards, ToggleProjects(c) PROVE TypeOK'
  BY <1>5 DEF ToggleProjects
<1>6. CASE UNCHANGED vars
  BY <1>6 DEF vars
<1>7. QED
  BY <1>1, <1>2, <1>3, <1>4, <1>5, <1>6 DEF Next

THEOREM TypeCorrect == Spec => []TypeOK
BY TypeInit, TypeStep, PTL DEF Spec

-----------------------------------------------------------------------------
(***************************************************************************)
(* ModeMatchesView is inductive together with the type invariant: a       *)
(* filter run from the participant mode can reset aria-pressed to false  *)
(* only because pressed and the mode agreed before it ran.                *)
(***************************************************************************)
MInv == TypeOK /\ ModeMatchesView

\* Once the cards are listed, the cards a handler shows are the set it was
\* given.
LEMMA VisibleShow ==
    ASSUME loaded, NEW S \in SUBSET Cards
    PROVE  Visible(Show(S)) = S
BY DEF Visible, Show, Listed

\* A step that changes neither the cards shown, the views, the mode nor
\* the button leaves ModeMatchesView as it was.
LEMMA ViewUnchanged ==
    ASSUME UNCHANGED <<button, matches, participant, loaded, showing, pressed,
                       hidden>>
    PROVE  ModeMatchesView' = ModeMatchesView
BY DEF ModeMatchesView, Visible, Views

\* The views depend on the filter matches and the participant cards only.
LEMMA ViewsUnchanged ==
    ASSUME matches' = matches, participant' = participant
    PROVE  Views' = Views
BY DEF Views

LEMMA MInvInit == Init => MInv
BY TypeInit DEF Init, MInv, ModeMatchesView

LEMMA MInvStep == MInv /\ [Next]_vars => MInv'
<1> SUFFICES ASSUME MInv, [Next]_vars PROVE ModeMatchesView'
  BY TypeStep DEF MInv
<1> USE DEF MInv, TypeOK
<1>1. ASSUME NEW f \in Filters, Type(f) PROVE ModeMatchesView'
  BY <1>1, ViewUnchanged DEF Type
<1>2. CASE FilterCommitteesByText
  <2> SUFFICES ASSUME loaded PROVE ModeMatchesView'
    BY <1>2 DEF FilterCommitteesByText, ModeMatchesView
  <2>1. Visible(hidden') = FilterShows
    <3>1. FilterShows \in SUBSET Cards
      BY DEF FilterShows
    <3>2. Visible(Show(FilterShows)) = FilterShows
      BY <3>1, VisibleShow
    <3>3. QED
      BY <1>2, <3>2 DEF FilterCommitteesByText
  <2>2. FilterShows \in Views
    <3>1. CASE filter = ""
      BY <3>1 DEF FilterShows, Views
    <3>2. CASE filter # ""
      BY <3>2 DEF FilterShows, Views
    <3>3. QED
      BY <3>1, <3>2
  <2>3. button => showing' = "all" /\ ~pressed'
    BY <1>2 DEF FilterCommitteesByText, ModeMatchesView
  <2>4. Views' = Views /\ button' = button /\ loaded'
    <3>1. /\ matches' = matches /\ participant' = participant
          /\ button' = button /\ loaded' = loaded
      BY <1>2 DEF FilterCommitteesByText
    <3>2. QED
      BY <3>1, ViewsUnchanged
  <2>5. QED
    BY <2>1, <2>2, <2>3, <2>4 DEF ModeMatchesView
<1>3. CASE ClickParticipant
  <2> SUFFICES ASSUME loaded PROVE ModeMatchesView'
    BY <1>3 DEF ClickParticipant, ModeMatchesView
  <2>1. CASE showing = "all"
    <3>1. Visible(hidden') = participant
      BY <1>3, <2>1, VisibleShow DEF ClickParticipant
    <3>2. QED
      BY <1>3, <2>1, <3>1 DEF ClickParticipant, ModeMatchesView, Views
  <2>2. CASE showing # "all"
    <3>1. Visible(hidden') = Cards
      BY <1>3, <2>2, VisibleShow DEF ClickParticipant
    <3>2. QED
      BY <1>3, <2>2, <3>1 DEF ClickParticipant, ModeMatchesView, Views
  <2>3. QED
    BY <2>1, <2>2
<1>4. CASE InitCommitteeVisibility
  <2>1. CASE button /\ showing = "participant"
    <3>1. Visible(hidden') = participant
      BY <1>4, <2>1 DEF InitCommitteeVisibility, Visible
    <3>2. QED
      BY <1>4, <2>1, <3>1 DEF InitCommitteeVisibility, ModeMatchesView, Views
  <2>2. CASE ~(button /\ showing = "participant")
    <3>1. Visible(hidden') = Cards
      BY <1>4, <2>2 DEF InitCommitteeVisibility, Visible, Modes
    <3>2. QED
      BY <1>4, <2>2, <3>1 DEF InitCommitteeVisibility, ModeMatchesView, Views,
         Modes
  <2>3. QED
    BY <2>1, <2>2
<1>5. ASSUME NEW c \in Cards, ToggleProjects(c) PROVE ModeMatchesView'
  BY <1>5, ViewUnchanged DEF ToggleProjects
<1>6. CASE UNCHANGED vars
  BY <1>6, ViewUnchanged DEF vars
<1>7. QED
  BY <1>1, <1>2, <1>3, <1>4, <1>5, <1>6 DEF Next

(***************************************************************************)
(* For every set of cards and filters, once the cards are listed the page *)
(* shows one whole view (all cards, the participant cards, or the cards   *)
(* one filter text matches), and the participant button's data-showing  *)
(* and aria-pressed agree with each other and with the view.              *)
(***************************************************************************)
THEOREM ViewSafety == Spec => []ModeMatchesView
<1>1. Spec => []MInv
  BY MInvInit, MInvStep, PTL DEF Spec
<1>2. QED
  BY <1>1, PTL DEF MInv

=============================================================================
