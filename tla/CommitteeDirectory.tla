-------------------------- MODULE CommitteeDirectory --------------------------
(***************************************************************************)
(* The committee directory (src/atr/static/js/src/committee-directory.js). *)
(*                                                                         *)
(* The script binds the text filter (button click and Enter) and the       *)
(* "Show my committees" button when it is evaluated; the DOMContentLoaded  *)
(* handler then fills allCommitteeCards, shows the cards the initial mode  *)
(* asks for, and binds the per-committee project toggles.  Until then the  *)
(* filter handlers see an empty card list.                                 *)
(*                                                                         *)
(* A card is a model value.  The name of a card and the regex built from   *)
(* the filter text (or, when it does not compile, from its escaped form)   *)
(* are abstracted to `matches`, the pairs <<filter, card>> whose test      *)
(* succeeds; it and the participant cards are fixed in the initial state. *)
(***************************************************************************)
EXTENDS Naturals, FiniteSets

CONSTANTS
    Cards,      \* the .page-project-card elements
    Filters     \* the texts the filter input can hold; "" among them

ASSUME FiltersAssumption == "" \in Filters /\ IsFiniteSet(Cards)

VARIABLES
    button,     \* #filter-participant-button exists
    matches,    \* <<f, c>>: the regex of filter text f matches card c's name
    participant,\* the cards whose data-is-participant is "true"
    loaded,     \* DOMContentLoaded has run (allCommitteeCards is filled)
    filter,     \* #project-filter's value
    showing,    \* participantButton.dataset.showing
    pressed,    \* participantButton's aria-pressed
    hidden,     \* hidden[c]: the card's parent element is hidden
    count,      \* #committee-count's text
    expanded    \* expanded[c]: the card's project toggle is aria-expanded,
                \* and its extra projects are shown

vars == <<button, matches, participant, loaded, filter, showing, pressed,
          hidden, count, expanded>>

Modes == {"all", "participant"}

\* The cards shown by a hidden map.
Visible(h) == {c \in Cards : ~h[c]}

\* The cards the handlers iterate over: allCommitteeCards.
Listed == IF loaded THEN Cards ELSE {}

\* A handler's new hidden map: the listed cards are shown exactly when they
\* are in S; the others keep their state.
Show(S) == [c \in Cards |-> IF c \in Listed THEN c \notin S ELSE hidden[c]]

\* visibleCount after a handler's loop.
CountOf(h) == Cardinality({c \in Listed : ~h[c]})

\* The cards the regex test of the current filter text accepts.
FilterShows == {c \in Cards : filter = "" \/ <<filter, c>> \in matches}

Init ==
    /\ button \in BOOLEAN
    /\ matches \in SUBSET ((Filters \ {""}) \X Cards)
    /\ participant \in SUBSET Cards
    /\ loaded = FALSE
    /\ filter \in Filters
    /\ showing \in Modes
    /\ pressed \in BOOLEAN
    /\ hidden \in [Cards -> BOOLEAN]
    /\ count \in 0 .. Cardinality(Cards)
    /\ expanded = [c \in Cards |-> FALSE]

\* The user edits the filter text; no handler runs.
Type(f) ==
    /\ filter' = f
    /\ UNCHANGED <<button, matches, participant, loaded, showing, pressed,
                   hidden, count, expanded>>

\* Fault: visibleCount accumulates across calls instead of starting at 0.
FilterCountsOnTop ==
    /\ showing' = IF button THEN "all" ELSE showing
    /\ pressed' = IF button /\ showing = "participant" THEN FALSE ELSE pressed
    /\ hidden' = Show(FilterShows)
    /\ count' = count + CountOf(Show(FilterShows))
    /\ UNCHANGED <<button, matches, participant, loaded, filter, expanded>>

\* Fault: the filter leaves the participant mode as it is.
FilterKeepsMode ==
    /\ hidden' = Show(FilterShows)
    /\ count' = CountOf(Show(FilterShows))
    /\ UNCHANGED <<button, matches, participant, loaded, filter, showing,
                   pressed, expanded>>

(***************************************************************************)
(* filterCommitteesByText (the filter button, or Enter in the input):      *)
(* leave the participant mode, then show each listed card whose name the   *)
(* filter matches (every card for an empty filter) and count them.         *)
(***************************************************************************)
FilterCommitteesByText ==
    /\ showing' = IF button THEN "all" ELSE showing
    /\ pressed' = IF button /\ showing = "participant" THEN FALSE ELSE pressed
    /\ hidden' = Show(FilterShows)
    /\ count' = CountOf(Show(FilterShows))
    /\ UNCHANGED <<button, matches, participant, loaded, filter, expanded>>

(***************************************************************************)
(* The participant button: from "all", show only the participant cards;    *)
(* otherwise show every card.  Either way the mode flips, the filter text *)
(* is cleared and the shown cards are counted.                             *)
(***************************************************************************)
ClickParticipant ==
    /\ button
    /\ LET toParticipant == showing = "all"
           h == Show(IF toParticipant THEN participant ELSE Cards)
       IN  /\ hidden' = h
           /\ count' = CountOf(h)
           /\ showing' = IF toParticipant THEN "participant" ELSE "all"
           /\ pressed' = toParticipant
    /\ filter' = ""
    /\ UNCHANGED <<button, matches, participant, loaded, expanded>>

\* Fault: in the participant mode every card is counted.
InitCountsAll ==
    LET mode == IF button THEN showing ELSE "all"
        h == [c \in Cards |-> mode = "participant" /\ c \notin participant]
    IN  /\ ~loaded
        /\ loaded' = TRUE
        /\ pressed' = IF button THEN mode = "participant" ELSE pressed
        /\ hidden' = h
        /\ count' = Cardinality(Cards)
        /\ UNCHANGED <<button, matches, participant, filter, showing, expanded>>

(***************************************************************************)
(* DOMContentLoaded: initCommitteeVisibility fills allCommitteeCards and   *)
(* shows the cards of the initial mode (the button's data-showing, "all"   *)
(* without the button), sets aria-pressed and the count; the project       *)
(* toggles are bound.                                                      *)
(***************************************************************************)
InitCommitteeVisibility ==
    LET mode == IF button THEN showing ELSE "all"
        h == [c \in Cards |-> mode = "participant" /\ c \notin participant]
    IN  /\ ~loaded
        /\ loaded' = TRUE
        /\ pressed' = IF button THEN mode = "participant" ELSE pressed
        /\ hidden' = h
        /\ count' = Cardinality({c \in Cards : ~h[c]})
        /\ UNCHANGED <<button, matches, participant, filter, showing, expanded>>

\* A project toggle: the extra projects toggle d-none and aria-expanded flips.
ToggleProjects(c) ==
    /\ loaded
    /\ expanded' = [expanded EXCEPT ![c] = ~@]
    /\ UNCHANGED <<button, matches, participant, loaded, filter, showing,
                   pressed, hidden, count>>

Next ==
    \/ \E f \in Filters : Type(f)
    \/ FilterCommitteesByText
    \/ ClickParticipant
    \/ InitCommitteeVisibility
    \/ \E c \in Cards : ToggleProjects(c)

Spec == Init /\ [][Next]_vars /\ WF_vars(InitCommitteeVisibility)

-----------------------------------------------------------------------------
\* What a handler can leave on screen: every card, the participant cards,
\* or the cards a non-empty filter matches.
Views == {Cards, participant}
           \cup {{c \in Cards : <<f, c>> \in matches} : f \in Filters \ {""}}

TypeOK ==
    /\ button \in BOOLEAN
    /\ matches \subseteq (Filters \ {""}) \X Cards
    /\ participant \subseteq Cards
    /\ loaded \in BOOLEAN
    /\ filter \in Filters
    /\ showing \in Modes
    /\ pressed \in BOOLEAN
    /\ hidden \in [Cards -> BOOLEAN]
    /\ count \in 0 .. Cardinality(Cards)
    /\ expanded \in [Cards -> BOOLEAN]

(***************************************************************************)
(* Once the page has loaded, #committee-count is the number of cards shown, *)
(* whichever of the three handlers ran last, and whatever a filter or a    *)
(* participant click did before the cards were listed.                     *)
(***************************************************************************)
CountMatchesVisible == loaded => count = Cardinality(Visible(hidden))

(***************************************************************************)
(* Once the page has loaded, the cards shown are one whole view (never a   *)
(* mix of two), the participant button says "participant" exactly when it *)
(* is pressed, and in that mode the shown cards are the participant cards: *)
(* a filter run from the participant mode leaves it.                       *)
(***************************************************************************)
ModeMatchesView ==
    loaded =>
        /\ Visible(hidden) \in Views
        /\ button => (pressed <=> showing = "participant")
        /\ button /\ showing = "participant" => Visible(hidden) = participant

=============================================================================
