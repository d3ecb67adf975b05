---------------------------- MODULE DownloadPath ----------------------------
(***************************************************************************)
(* The download-path help text of the announce form                        *)
(* (src/atr/static/js/src/announce-preview.js, lines 99-142).              *)
(*                                                                         *)
(* initDownloadPathValidation returns when the input or its help text is   *)
(* missing.  Otherwise it computes the help text once, and each `input`    *)
(* event re-arms a 10 ms debounce timer that recomputes it from the value *)
(* at that moment.  updatePathHelpText rejects `..` and `//`, drops the   *)
(* dot of a leading "./", maps "." to "/", adds the missing leading and    *)
(* trailing "/", and then rejects "/.".                                    *)
(*                                                                         *)
(* A path is a sequence of characters over a small alphabet.  The base    *)
(* text (data-base-text) is the same in every message and is left out.   *)
(***************************************************************************)
EXTENDS Naturals, Sequences, SequencesExt

CONSTANTS
    Chars,      \* the characters the user can type; "." and "/" among them
    MaxLen,     \* the longest value of the input
    MaxEdits    \* the number of input events a behaviour may contain

ASSUME CharsAssumption == {".", "/"} \subseteq Chars
ASSUME BoundsAssumption == MaxLen \in Nat /\ MaxEdits \in Nat

VARIABLES
    present,    \* the input and its .form-text element both exist
    loaded,     \* the DOMContentLoaded handler has run
    listening,  \* the `input` listener was attached
    value,      \* pathInput.value
    debounce,   \* pending debounce timers
    help,       \* what the help text shows
    edits       \* input events so far

vars == <<present, loaded, listening, value, debounce, help, edits>>

\* The values the input can hold.
Values == BoundedSeq(Chars, MaxLen)

\* The help text: as rendered by the server, one of the two error messages,
\* or the base text followed by the normalised suffix.
Helps == {[kind |-> "initial"], [kind |-> "dotdot"], [kind |-> "slashdot"]}
           \cup [kind : {"path"}, suffix : Seq(Chars)]

\* String.prototype.includes on character sequences.
Includes(s, pat) ==
    \E i \in 0 .. Len(s) - Len(pat) : SubSeq(s, i + 1, i + Len(pat)) = pat

\* Fault: the `suffix === "."` branch is missing.
NormaliseNoDotCase(v) ==
    LET s1 == IF IsPrefix(<<".", "/">>, v) THEN Tail(v) ELSE v
        s2 == IF IsPrefix(<<"/">>, s1) THEN s1 ELSE <<"/">> \o s1
    IN  IF IsSuffix(<<"/">>, s2) THEN s2 ELSE s2 \o <<"/">>

\* The three rewrites of updatePathHelpText, in the code's order.
Normalise(v) ==
    LET s1 == IF IsPrefix(<<".", "/">>, v) THEN Tail(v)
              ELSE IF v = <<".">> THEN <<"/">> ELSE v
        s2 == IF IsPrefix(<<"/">>, s1) THEN s1 ELSE <<"/">> \o s1
    IN  IF IsSuffix(<<"/">>, s2) THEN s2 ELSE s2 \o <<"/">>

\* updatePathHelpText: the text it writes for the value v.
UpdatePathHelpText(v) ==
    IF Includes(v, <<".", ".">>) \/ Includes(v, <<"/", "/">>)
    THEN [kind |-> "dotdot"]
    ELSE IF Includes(Normalise(v), <<"/", ".">>)
         THEN [kind |-> "slashdot"]
         ELSE [kind |-> "path", suffix |-> Normalise(v)]

Init ==
    /\ present \in BOOLEAN
    /\ loaded = FALSE
    /\ listening = FALSE
    /\ value \in Values
    /\ debounce = 0
    /\ help = [kind |-> "initial"]
    /\ edits = 0

\* initDownloadPathValidation: return early, or attach the listener and
\* compute the help text once.
InitDownloadPathValidation ==
    /\ ~loaded
    /\ loaded' = TRUE
    /\ \/ /\ ~present
          /\ UNCHANGED <<listening, help>>
       \/ /\ present
          /\ listening' = TRUE
          /\ help' = UpdatePathHelpText(value)
    /\ UNCHANGED <<present, value, debounce, edits>>

\* Fault: the handler arms a timer without clearing the pending one.
InputNoClearTimeout(v) ==
    /\ edits < MaxEdits
    /\ edits' = edits + 1
    /\ value' = v
    /\ debounce' = IF listening THEN debounce + 1 ELSE debounce
    /\ UNCHANGED <<present, loaded, listening, help>>

\* An input event: clearTimeout, then a new 10 ms timer.
Input(v) ==
    /\ edits < MaxEdits
    /\ edits' = edits + 1
    /\ value' = v
    /\ debounce' = IF listening THEN 1 ELSE debounce
    /\ UNCHANGED <<present, loaded, listening, help>>

\* The debounce timer fires: updatePathHelpText on the current value.
DebounceFires ==
    /\ debounce > 0
    /\ debounce' = debounce - 1
    /\ help' = UpdatePathHelpText(value)
    /\ UNCHANGED <<present, loaded, listening, value, edits>>

Next ==
    \/ InitDownloadPathValidation
    \/ \E v \in Values : Input(v)
    \/ DebounceFires

Spec == Init /\ [][Next]_vars /\ WF_vars(InitDownloadPathValidation)
                              /\ WF_vars(DebounceFires)

-----------------------------------------------------------------------------
(***************************************************************************)
(* The reference: what a download path suffix is.  Split the value at its *)
(* slashes.  An empty segment may only come first or last (a leading or    *)
(* trailing "/"), a lone "." only first (the current directory, "./" or    *)
(* "."), and no other segment may be empty or start with a dot; no segment *)
(* contains "..".  The suffix shown is "/" followed by each remaining      *)
(* segment and a "/".                                                      *)
(***************************************************************************)
Segments(v) ==
    LET b == SetToSortSeq({0, Len(v) + 1} \cup {i \in 1 .. Len(v) : v[i] = "/"},
                          LAMBDA x, y : x < y)
    IN  [k \in 1 .. Len(b) - 1 |-> SubSeq(v, b[k] + 1, b[k + 1] - 1)]

RefAccepts(v) ==
    LET g == Segments(v)
    IN  \A k \in 1 .. Len(g) :
          /\ ~Includes(g[k], <<".", ".">>)
          /\ \/ g[k] = <<>> /\ k \in {1, Len(g)}
             \/ g[k] = <<".">> /\ k = 1
             \/ g[k] # <<>> /\ g[k][1] # "."

RefSuffix(v) ==
    FoldLeft(LAMBDA acc, seg : IF seg \in {<<>>, <<".">>} THEN acc
                               ELSE acc \o seg \o <<"/">>,
             <<"/">>, Segments(v))

TypeOK ==
    /\ present \in BOOLEAN
    /\ loaded \in BOOLEAN
    /\ listening \in BOOLEAN
    /\ value \in Values
    /\ debounce \in 0 .. 1
    /\ help \in Helps
    /\ edits \in 0 .. MaxEdits

(***************************************************************************)
(* Whenever no debounce timer is pending, the help text accepts exactly    *)
(* the values the reference accepts, shows the reference's suffix for      *)
(* them, and reports `..` or `//` exactly for the values containing one:   *)
(* the initial call and the debounce keep the text current, and the        *)
(* rewrites of updatePathHelpText compute the reference.                   *)
(***************************************************************************)
HelpMatchesReference ==
    listening /\ debounce = 0 =>
        /\ help.kind = "path" <=> RefAccepts(value)
        /\ help.kind = "path" => help.suffix = RefSuffix(value)
        /\ help.kind = "dotdot" <=>
               Includes(value, <<".", ".">>) \/ Includes(value, <<"/", "/">>)

=============================================================================
