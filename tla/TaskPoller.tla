----------------------------- MODULE TaskPoller -----------------------------
(***************************************************************************)
(* The ongoing-tasks poller of the release page                            *)
(* (src/atr/static/js/src/ongoing-tasks-poll.js).                          *)
(*                                                                         *)
(* The script runs once when it is loaded (Load).  If the page has a       *)
(* banner with an API URL and a non-zero task count, it arms a 3000 ms     *)
(* timer.  When the timer fires (PollOngoingTasks) it issues one fetch;    *)
(* the fetch settles either with a JSON body (PollSucceeds) or with an     *)
(* error (PollFails).  Each settled fetch re-arms the timer unless the     *)
(* server reported zero tasks.  A success also replaces the two HTML       *)
(* fragments of the page and re-binds the "More"/"Less" toggle buttons.   *)
(*                                                                         *)
(* The browser's single event loop runs every handler to completion, so    *)
(* each handler is one atomic action.  The server (TaskFinishes) and the   *)
(* user (ClickToggle) act between handlers.                                *)
(***************************************************************************)
EXTENDS Naturals

CONSTANTS
    MaxTasks,   \* the most background tasks the server reports
    NaN,        \* what parseInt returns for text that is not a number
    None,       \* no poll response has been processed yet
    OngoingForms \* the forms the `ongoing` field of a 2xx JSON body takes

ASSUME MaxTasksAssumption == MaxTasks \in Nat \ {0}
ASSUME SentinelAssumption == NaN \notin Nat /\ None \notin Nat /\ NaN # None
ASSUME OngoingAssumption == OngoingForms \subseteq {"count", "missing"}

VARIABLES
    page,          \* the DOM elements present when the script runs (fixed)
    loaded,        \* the script's top-level code has run
    currentCount,  \* the script's `currentCount`
    shown,         \* the count the banner text displays
    bannerHidden,  \* the banner carries the class d-none
    vote,          \* the state of the start-vote button
    bar,           \* the progress bar's style classes
    anim,          \* the progress bar's countdown animation
    timers,        \* pending setTimeout(pollOngoingTasks, ...) callbacks
    lastDelay,     \* the delay of the last timer armed (0 before any)
    inflight,      \* fetches issued whose promise chain has not settled
    toggles,       \* the collapse toggle button of each page region
    tasks,         \* the server's number of ongoing tasks
    lastResp       \* `ongoing` of the last response processed, or None

vars == <<page, loaded, currentCount, shown, bannerHidden, vote, bar, anim,
          timers, lastDelay, inflight, toggles, tasks, lastResp>>

(***************************************************************************)
(* Constants of the code and the data the model distinguishes.             *)
(***************************************************************************)
PollInterval == 3000

Counts == (0 .. MaxTasks) \cup {NaN}

\* The start-vote button: missing, already enabled, disabled with a usable
\* data-vote-href or href, or disabled with neither (or with "#").
VoteStates == {"absent", "enabled", "disabled", "disabledNoHref"}

\* The regions holding ".page-collapse-toggle" buttons: the rest of the
\* page, the checks summary container and the files table container.
Regions == {"page", "summary", "files"}

\* A `*_html` field of a response: undefined, or HTML with or without a
\* collapse toggle button in it.
Fragments == {"undefined", "noToggle", "toggle"}

\* A response's `ongoing`: the server's count, or missing (or null).
Responses == [summary : Fragments, files : Fragments, ongoing : OngoingForms]

\* `data.ongoing || 0`: a missing count reads as zero.
NewCount(data) == IF data.ongoing = "missing" THEN 0 ELSE tasks

Toggle == [present : BOOLEAN, listeners : Nat, label : {"More", "Less"}]

Pages == [banner : BOOLEAN,     \* #ongoing-tasks-banner with data-api-url
          countText : Counts,   \* parseInt of #ongoing-tasks-count ("0" if absent)
          textSpan : BOOLEAN,   \* #ongoing-tasks-text
          progress : BOOLEAN,   \* #poll-progress
          summary : BOOLEAN,    \* #checks-summary-container
          files : BOOLEAN]      \* #files-table-container

(***************************************************************************)
(* Listener bookkeeping.  `listeners` counts the registrations of          *)
(* handleCollapseToggle on a button; addEventListener ignores a function   *)
(* that is already registered, and removeEventListener removes it.         *)
(***************************************************************************)
AddListener(n) == IF n = 0 THEN 1 ELSE n

RemoveListener(n) == 0

\* The forEach at the top of the script.
BindCollapseToggles(tg) ==
    [r \in Regions |->
        IF tg[r].present THEN [tg[r] EXCEPT !.listeners = AddListener(@)]
                         ELSE tg[r]]

\* Fault: re-binding a fresh closure instead of the named function, which
\* removeEventListener cannot find and addEventListener cannot deduplicate.
ReattachFreshClosure(tg) ==
    [r \in Regions |->
        IF tg[r].present THEN [tg[r] EXCEPT !.listeners = @ + 1] ELSE tg[r]]

\* reattachCollapseToggleListeners: remove, then add, on every button.
ReattachCollapseToggleListeners(tg) ==
    [r \in Regions |->
        IF tg[r].present
        THEN [tg[r] EXCEPT !.listeners = AddListener(RemoveListener(@))]
        ELSE tg[r]]

\* innerHTML replacement: the old button is gone, the new one (if any) has
\* no listener.
NewToggle(f) == [present |-> f = "toggle", listeners |-> 0, label |-> "More"]

\* updatePageContent(data): the summary first, then the files table
\* followed by the re-binding.
UpdatePageContent(tg, data) ==
    LET s == IF page.summary /\ data.summary # "undefined"
             THEN [tg EXCEPT !["summary"] = NewToggle(data.summary)]
             ELSE tg
    IN  IF page.files /\ data.files # "undefined"
        THEN ReattachCollapseToggleListeners(
                 [s EXCEPT !["files"] = NewToggle(data.files)])
        ELSE s

\* enableVoteButton: only a disabled button with a usable href changes.
EnableVoteButton(v) == IF v = "disabled" THEN "enabled" ELSE v

\* restartProgress and setProgressIdle act only when #poll-progress exists.
RestartProgress(a) == IF page.progress THEN "grow" ELSE a

SetProgressIdle(b) == IF page.progress THEN "idle" ELSE b

\* setProgressPolling also stops the animation (see PollOngoingTasks).
SetProgressPolling(b) == IF page.progress THEN "polling" ELSE b

(***************************************************************************)
(* Initial state: the page as the server rendered it, before the script    *)
(* runs.  The rendered count was taken when the page was built, so it is   *)
(* at least the server's current count, unless it reads as 0 (element      *)
(* missing or empty) or is not a number.                                   *)
(***************************************************************************)
Init ==
    /\ tasks \in 0 .. MaxTasks
    /\ page \in {p \in Pages :
                    p.countText \in (tasks .. MaxTasks) \cup {0, NaN}}
    /\ loaded = FALSE
    /\ currentCount = 0
    /\ shown = page.countText
    /\ bannerHidden = FALSE
    /\ vote \in VoteStates
    /\ bar = "rendered"
    /\ anim = "rendered"
    /\ timers = 0
    /\ lastDelay = 0
    /\ inflight = 0
    /\ toggles \in {tg \in [Regions -> {NewToggle(f) : f \in {"noToggle", "toggle"}}] :
                      /\ tg["summary"].present => page.summary
                      /\ tg["files"].present => page.files}
    /\ lastResp = None

(***************************************************************************)
(* The script's top-level code (lines 20-47, 166-167): bind the toggle    *)
(* buttons, return early without a banner or with a zero count, otherwise *)
(* restart the countdown and arm the first timer.                          *)
(***************************************************************************)
Load ==
    /\ ~loaded
    /\ loaded' = TRUE
    /\ toggles' = BindCollapseToggles(toggles)
    /\ \/ /\ ~page.banner
          /\ UNCHANGED <<currentCount, anim, timers, lastDelay>>
       \/ /\ page.banner
          /\ page.countText = 0
          /\ currentCount' = 0
          /\ UNCHANGED <<anim, timers, lastDelay>>
       \/ /\ page.banner
          /\ page.countText # 0
          /\ currentCount' = page.countText
          /\ anim' = RestartProgress(anim)
          /\ timers' = timers + 1
          /\ lastDelay' = PollInterval
    /\ UNCHANGED <<page, shown, bannerHidden, vote, bar, inflight, tasks,
                   lastResp>>

(***************************************************************************)
(* pollOngoingTasks, run by a timer: setProgressPolling, then fetch.  Its  *)
(* early return on a zero count is unreachable (NoPollAfterZero), so it is *)
(* the guard currentCount # 0.                                             *)
(***************************************************************************)
PollOngoingTasks ==
    /\ timers > 0
    /\ currentCount # 0
    /\ timers' = timers - 1
    /\ inflight' = inflight + 1
    /\ bar' = SetProgressPolling(bar)
    /\ anim' = IF page.progress THEN "none" ELSE anim
    /\ UNCHANGED <<page, loaded, currentCount, shown, bannerHidden, vote,
                   lastDelay, toggles, tasks, lastResp>>

\* updateBanner with a fault: `stale` forgets `currentCount = count`,
\* `hideAt` is the count up to which the banner is hidden.
UpdateBannerFaulty(count, stale, hideAt) ==
    IF page.textSpan
    THEN /\ currentCount' = IF stale THEN currentCount ELSE count
         /\ shown' = count
         /\ bannerHidden' = (bannerHidden \/ count <= hideAt)
         /\ vote' = IF count <= hideAt THEN EnableVoteButton(vote) ELSE vote
    ELSE UNCHANGED <<currentCount, shown, bannerHidden, vote>>

\* Fault: updateBanner forgets `currentCount = count`.
UpdateBannerStaleCount(count) == UpdateBannerFaulty(count, TRUE, 0)

\* Fault: `if (count <= 1)` hides the banner and enables the vote.
UpdateBannerHidesAtOne(count) == UpdateBannerFaulty(count, FALSE, 1)

(***************************************************************************)
(* updateBanner(count) (lines 78-101): without #ongoing-tasks-text it      *)
(* returns before storing the count; otherwise it stores and shows the     *)
(* count and, at zero, hides the banner and calls enableVoteButton.        *)
(***************************************************************************)
UpdateBanner(count) ==
    IF page.textSpan
    THEN /\ currentCount' = count
         /\ shown' = count
         /\ bannerHidden' = (bannerHidden \/ count = 0)
         /\ vote' = IF count = 0 THEN EnableVoteButton(vote) ELSE vote
    ELSE UNCHANGED <<currentCount, shown, bannerHidden, vote>>

\* The success handler with a fault in the re-arming test: `always` re-arms
\* even at zero, `byCurrent` tests the stored currentCount, not newCount,
\* `inFinally` adds a .finally() that re-arms while currentCount > 0.
PollSucceedsFaulty(data, always, byCurrent, inFinally) ==
    LET newCount == NewCount(data)
        rearm == IF byCurrent THEN currentCount' \in Nat /\ currentCount' > 0
                 ELSE always \/ newCount > 0
        late == inFinally /\ currentCount' \in Nat /\ currentCount' > 0
        armed == (IF rearm THEN 1 ELSE 0) + (IF late THEN 1 ELSE 0)
    IN
    /\ inflight > 0
    /\ inflight' = inflight - 1
    /\ lastResp' = newCount
    /\ bar' = SetProgressIdle(bar)
    /\ IF newCount # currentCount THEN UpdateBanner(newCount)
       ELSE UNCHANGED <<currentCount, shown, bannerHidden, vote>>
    /\ toggles' = UpdatePageContent(toggles, data)
    /\ IF armed > 0
       THEN /\ anim' = RestartProgress(anim)
            /\ timers' = timers + armed
            /\ lastDelay' = PollInterval
       ELSE UNCHANGED <<anim, timers, lastDelay>>
    /\ UNCHANGED <<page, loaded, tasks>>

\* Fault: `if (newCount >= 0)` re-arms the timer after a zero.
PollSucceedsAlwaysRearms(data) == PollSucceedsFaulty(data, TRUE, FALSE, FALSE)

\* Fault: `if (currentCount > 0)` re-arms on the stored, maybe stale, count.
PollSucceedsRearmsOnCurrent(data) == PollSucceedsFaulty(data, FALSE, TRUE, FALSE)

\* Fault: the retry moved into a .finally() that re-arms while polling
\* goes on, while the success path keeps its own setTimeout.
PollSucceedsRetryInFinally(data) == PollSucceedsFaulty(data, FALSE, FALSE, TRUE)

(***************************************************************************)
(* The success handler (lines 145-156) for a response `data` whose         *)
(* `ongoing` is the server's count when it answered, or missing, which     *)
(* reads as zero (NewCount): setProgressIdle,                              *)
(* updateBanner when the count changed, updatePageContent, and the next    *)
(* timer unless the count is zero.                                         *)
(***************************************************************************)
PollSucceeds(data) ==
    LET newCount == NewCount(data) IN
    /\ inflight > 0
    /\ inflight' = inflight - 1
    /\ lastResp' = newCount
    /\ bar' = SetProgressIdle(bar)
    /\ IF newCount # currentCount THEN UpdateBanner(newCount)
       ELSE UNCHANGED <<currentCount, shown, bannerHidden, vote>>
    /\ toggles' = UpdatePageContent(toggles, data)
    /\ IF newCount > 0
       THEN /\ anim' = RestartProgress(anim)
            /\ timers' = timers + 1
            /\ lastDelay' = PollInterval
       ELSE UNCHANGED <<anim, timers, lastDelay>>
    /\ UNCHANGED <<page, loaded, tasks>>

\* The catch handler with a fault: `retry` FALSE drops the setTimeout,
\* `countdown` FALSE drops restartProgress, `compound` doubles the last
\* delay instead of the base interval.
PollFailsFaulty(retry, countdown, compound) ==
    /\ inflight > 0
    /\ inflight' = inflight - 1
    /\ bar' = SetProgressIdle(bar)
    /\ anim' = IF countdown THEN RestartProgress(anim) ELSE anim
    /\ timers' = IF retry THEN timers + 1 ELSE timers
    /\ lastDelay' = CASE ~retry -> lastDelay
                      [] compound -> lastDelay * 2
                      [] OTHER -> PollInterval * 2
    /\ UNCHANGED <<page, loaded, currentCount, shown, bannerHidden, vote,
                   toggles, tasks, lastResp>>

\* Fault: the catch handler logs but does not retry.
PollFailsNoRetry == PollFailsFaulty(FALSE, TRUE, FALSE)

\* Fault: the catch handler forgets restartProgress.
PollFailsNoCountdown == PollFailsFaulty(TRUE, FALSE, FALSE)

\* Fault: compounding backoff, doubling the last delay with no cap.
PollFailsCompounding == PollFailsFaulty(TRUE, TRUE, TRUE)

(***************************************************************************)
(* The catch handler (lines 141-143, 157-163): a network error, a non-2xx *)
(* status or a body that is not JSON.  It re-arms the timer at twice the  *)
(* base interval whatever the count.                                       *)
(***************************************************************************)
PollFails ==
    /\ inflight > 0
    /\ inflight' = inflight - 1
    /\ bar' = SetProgressIdle(bar)
    /\ anim' = RestartProgress(anim)
    /\ timers' = timers + 1
    /\ lastDelay' = PollInterval * 2
    /\ UNCHANGED <<page, loaded, currentCount, shown, bannerHidden, vote,
                   toggles, tasks, lastResp>>

(***************************************************************************)
(* handleCollapseToggle: every registered listener runs once per click,    *)
(* each flipping the label.                                                *)
(***************************************************************************)
ClickToggle(r) ==
    /\ toggles[r].present
    /\ toggles[r].listeners > 0
    /\ toggles' = [toggles EXCEPT ![r].label =
                     IF toggles[r].listeners % 2 = 1
                     THEN IF @ = "More" THEN "Less" ELSE "More"
                     ELSE @]
    /\ UNCHANGED <<page, loaded, currentCount, shown, bannerHidden, vote, bar,
                   anim, timers, lastDelay, inflight, tasks, lastResp>>

\* The server: a background task finishes.
TaskFinishes ==
    /\ tasks > 0
    /\ tasks' = tasks - 1
    /\ UNCHANGED <<page, loaded, currentCount, shown, bannerHidden, vote, bar,
                   anim, timers, lastDelay, inflight, toggles, lastResp>>

Next ==
    \/ Load
    \/ PollOngoingTasks
    \/ \E data \in Responses : PollSucceeds(data)
    \/ PollFails
    \/ \E r \in Regions : ClickToggle(r)
    \/ TaskFinishes

(***************************************************************************)
(* Fairness.  The browser runs the script and fires due timers (weak       *)
(* fairness); a fetch settles one way or the other (weak fairness on the   *)
(* pair); the network does not fail forever (strong fairness on success);  *)
(* the server finishes its tasks.  The user is under no obligation.        *)
(***************************************************************************)
Fairness ==
    /\ WF_vars(Load)
    /\ WF_vars(PollOngoingTasks)
    /\ WF_vars(PollFails \/ \E data \in Responses : PollSucceeds(data))
    /\ SF_vars(\E data \in Responses : PollSucceeds(data))
    /\ WF_vars(TaskFinishes)

Spec == Init /\ [][Next]_vars /\ Fairness

-----------------------------------------------------------------------------
(***************************************************************************)
(* Properties.                                                             *)
(***************************************************************************)

\* The poller has been started: the script armed the first timer.
PollingStarted == loaded /\ page.banner /\ page.countText # 0

\* No timer is pending and no fetch is outstanding.
Quiescent == loaded /\ timers = 0 /\ inflight = 0

TypeOK ==
    /\ page \in Pages
    /\ loaded \in BOOLEAN
    /\ currentCount \in Counts
    /\ shown \in Counts
    /\ bannerHidden \in BOOLEAN
    /\ vote \in VoteStates
    /\ bar \in {"rendered", "polling", "idle"}
    /\ anim \in {"rendered", "none", "grow"}
    /\ timers \in Nat
    /\ lastDelay \in {0, PollInterval, PollInterval * 2}
    /\ inflight \in Nat
    /\ toggles \in [Regions -> Toggle]
    /\ tasks \in 0 .. MaxTasks
    /\ lastResp \in (0 .. MaxTasks) \cup {None}

(***************************************************************************)
(* At most one poll is outstanding: the timer chain never forks, so at any *)
(* moment there is one pending timer or one unsettled fetch, never two     *)
(* (the spec's "no overlapping fetches").  Breaking it needs a handler     *)
(* that schedules on two paths, or a timer armed beside a fetch.           *)
(***************************************************************************)
SingleFlight == timers + inflight <= 1

(***************************************************************************)
(* Once currentCount is zero, initially or after a response, nothing is    *)
(* scheduled and nothing is in flight (spec: "never schedules a next poll  *)
(* once currentCount is (or becomes) 0").                                  *)
(***************************************************************************)
NoPollAfterZero == currentCount = 0 => timers = 0 /\ inflight = 0

(***************************************************************************)
(* A started poller stops only after the server reported zero tasks:       *)
(* errors always retry, and a non-zero count always re-arms the timer.     *)
(***************************************************************************)
StopsOnlyOnZero == PollingStarted /\ Quiescent => lastResp = 0

(***************************************************************************)
(* With #ongoing-tasks-text present, the banner shows the count of the     *)
(* last response processed, currentCount agrees with it, and the banner is *)
(* hidden exactly when that count is zero.  updateBanner runs only when    *)
(* the count changed, so this rests on currentCount being kept in step.    *)
(***************************************************************************)
BannerShowsLastResponse ==
    page.textSpan /\ lastResp # None =>
        /\ shown = lastResp
        /\ currentCount = lastResp
        /\ (bannerHidden <=> lastResp = 0)

(***************************************************************************)
(* The progress bar tells the truth once polling started: striped          *)
(* "polling" style exactly while a fetch is out, the countdown animation   *)
(* exactly while a timer is pending.  Each handler must restyle the bar    *)
(* on every path it takes.                                                 *)
(***************************************************************************)
ProgressReflectsSchedule ==
    page.progress /\ PollingStarted =>
        /\ (bar = "polling" <=> inflight > 0)
        /\ (anim = "grow" <=> timers > 0)

(***************************************************************************)
(* No toggle button ever carries handleCollapseToggle twice, however many  *)
(* refreshes re-bind it, so a click flips the label once, not twice.       *)
(***************************************************************************)
AtMostOneListener == \A r \in Regions : toggles[r].listeners <= 1

(***************************************************************************)
(* The banner is hidden, or the vote button enabled, only in a step where  *)
(* the server really has no ongoing task.                                  *)
(***************************************************************************)
CompletionOnlyWhenDone ==
    [][(~bannerHidden /\ bannerHidden') \/ (vote # "enabled" /\ vote' = "enabled")
         => tasks = 0]_vars

(***************************************************************************)
(* Liveness: polling eventually stops for good, and when it was started it *)
(* stops having seen the server report zero tasks.                         *)
(***************************************************************************)
PollingTerminates ==
    <>[](Quiescent /\ (PollingStarted => lastResp = 0))

(***************************************************************************)
(* Spec section 4.1: toggle buttons must be re-bound after any fragment    *)
(* replacement, so every toggle button present after the script ran has    *)
(* its listener.                                                           *)
(***************************************************************************)
ToggleButtonsBound ==
    loaded => \A r \in Regions : toggles[r].present => toggles[r].listeners = 1

=============================================================================
