# Verification of the release-tooling browser scripts

This directory holds TLA+ models of the browser scripts under
`src/atr/static/js/`, with the TLC configurations that check them and the
TLAPS proofs about them. Each module is translated from the JavaScript. The
server is not in this repository. It appears only as the environment of the
client models.

## 1. Inventory

All scripts run in one browser page on one event loop. Each handler
(a DOM event, a timer callback or a promise continuation) runs to
completion before the next one starts. So nothing is concurrent inside a
handler. The hard behaviour comes from two things: the order in which
handlers run, and the order in which network responses come back.

| Component | Source | State it keeps | Operations (handlers) | Interaction | Hard part |
|---|---|---|---|---|---|
| Task-status poller | `src/ongoing-tasks-poll.js` | `currentCount`; banner text, visibility; vote button; progress bar classes and animation; pending timer; in-flight fetch; listeners on More/Less buttons | top-level load, `pollOngoingTasks` (timer), success continuation, `catch` continuation, `handleCollapseToggle` (click) | HTTP GET to the status endpoint; `setTimeout`; replaces two server-rendered HTML fragments | a timer chain that must never fork; stop and retry conditions; a stale `currentCount`; re-binding listeners after `innerHTML` |
| Announce preview | `src/announce-preview.js` 20-97 | textarea value, debounce timer id, preview text | DOMContentLoaded init, `input` (debounce), timer → `fetchAnnouncePreview`, response / error continuations | HTTP POST to the preview endpoint | several fetches in flight at once; responses applied in arrival order |
| Download path help | `src/announce-preview.js` 99-142 | help text | `input` (debounce 10 ms), `updatePathHelpText` | none | string normalisation and rejection rules |
| Committee directory | `src/committee-directory.js` | `allCommitteeCards`, each card's `hidden`, participant-button mode, filter text, displayed count | filter click / Enter, participant toggle, DOMContentLoaded init, sub-card click, project-list toggle, logo error | DOM only | the count shown must match the visible cards across interleaved filters; handlers bound before the cards are collected |
| Admin update form | `src/admin-update-form.js` | button disabled, cursor, status messages | submit (async: fetch, json) | HTTP POST | every exit path must re-enable the button |
| Announce confirmation | `src/announce-confirm.js` | submit button disabled | init, `input` | DOM only | none beyond the equality test |
| Unchanged-value detection | `src/ignore-form-change.js` | each row's update button class | init, `input` per row | DOM only | none beyond the equality test |
| Select-all committees | `src/keys-add-toggle.js` | checkboxes, button label | init, click; the user's own checkbox clicks | DOM only | label goes stale after manual clicks |
| Upload progress widget | `src/upload-progress-ui.js` | per-file card: progress, status, borders, cancel button; summaries | progress events, done, reset, cancel, finalise; the stateless `formatBytes` | XHR objects owned by a caller outside this repository | the 99.5% rounding edge; a reset after success; a cancel after completion |
| JWT form | `ts/create-a-jwt.js` | output element | submit (async) | HTTP POST | concurrent submissions, last response wins |

The properties that make each component correct:

* **Poller.** At most one poll is outstanding. Nothing is scheduled once the
  count is zero. Polling stops only after the server reported zero, and it
  does stop. The banner shows the last reported count. The banner is hidden,
  and the vote enabled, only when no task runs. The progress bar matches the
  schedule. Every toggle button has exactly one listener.
* **Announce preview.** Once typing has paused, the last request carries the
  current text. Once every request has settled, the preview shows the current
  text (this one fails: see the plan).
* **Download path.** An accepted suffix is shown in canonical form: it starts
  and ends with `/`, and it has no empty, `.` or `..` segments. A suffix is
  rejected exactly when it cannot be put in that form.
* **Committee directory.** The displayed count equals the number of visible
  cards. The cards shown are one whole view, and the participant button
  says "participant" exactly when that view is shown.
* **Admin form.** The button is disabled exactly while a request is out, and
  each submission leaves exactly one status message.
* **Announce confirmation.** Once the gate is installed, the form is only
  submitted with `CONFIRM`.
* **Unchanged-value detection.** A row's update button is disabled exactly
  while its input holds the stored value.
* **Select-all.** The label describes what the next click does.
* **Upload widget.** A card shows the state of the current attempt.
* **JWT form.** Only a token is ever shown, however the submissions overlap.

Two further properties one would expect are not met by the code, and the
model shows how: an upload card hides Cancel at 99.5% of the bytes, before
all are sent (section 3i), and a JWT submission whose fetch or body read
rejects ends with neither a token nor an alert (section 3h).

The hazards, each at the line where it bites, are listed under `hazards` in
`PROJECT.json`.

## 2. Modules

| Component | Modules | Status |
|---|---|---|
| Task-status poller | `TaskPoller`; the abstract `PollerSession` and the mapping `TaskPollerSession`; `MCTaskPoller`, `MCTaskPollerMalformed`; `TaskPollerProofs` | modelled |
| Announce preview | `AnnouncePreview`, `MCAnnouncePreview`, `AnnouncePreviewProofs` | modelled |
| Download path help | `DownloadPath`, `MCDownloadPath` | modelled |
| Committee directory | `CommitteeDirectory`, `MCCommitteeDirectory`, `CommitteeDirectoryProofs` | partly (section 5) |
| Admin update form | `AdminUpdateForm`; the abstract `AdminSubmission` and the mapping `AdminUpdateFormSubmission`; `MCAdminUpdateForm`, `AdminUpdateFormProofs` | modelled |
| Announce confirmation | `AnnounceConfirm`, `AnnounceConfirmProofs` | modelled |
| Unchanged-value detection | `IgnoreFormChange`, `IgnoreFormChangeProofs` | modelled |
| Select-all committees | `KeysAddToggle`, `MCKeysAddToggle`, `KeysAddToggleProofs` | modelled |
| Upload widget | `UploadCard`, `MCUploadWidget` | partly (section 5) |
| JWT form | `JwtForm`, `JwtFormProofs` | modelled |

Each component module declares its CONSTANTS, and the ASSUMEs that a
model-checked run evaluates. Its `MC` module gives the constants small
values, and each `.cfg` names one run. The `...Proofs` modules extend a
component module and `TLAPS`.

The scripts share no state. Two mapping modules relate a component to an
abstract specification of what it promises: `TaskPollerSession` (the
poller onto `PollerSession`, section 3d) and `AdminUpdateFormSubmission`
(the admin form onto `AdminSubmission`, section 3c). Both refinements are
proved, in their safety part, for every value of the constants
(section 4).

Four components are established by proofs rather than by runs: the
announce confirmation, the unchanged-value detection, the select-all click
and the JWT form. Their key properties are proved for every value of the
constants (section 4). The select-all toggle also keeps a violation run
(`keys_label`).

## 3. The poller model (`TaskPoller.tla`)

**State.**

| Variable | Models |
|---|---|
| `page` | the DOM elements present when the script runs: the banner with `data-api-url`, the parsed count, `#ongoing-tasks-text`, `#poll-progress`, the two containers. It is chosen in Init and never changes. |
| `currentCount` | the script's variable. Its values are `0..MaxTasks`, plus the model value `NaN` for non-numeric text. |
| `shown`, `bannerHidden` | the banner text and its `d-none` class |
| `vote` | the vote button: `absent`, `enabled`, `disabled` with a usable href, or `disabledNoHref` |
| `bar`, `anim` | the progress bar's classes and its countdown animation |
| `timers` | the number of pending `setTimeout(pollOngoingTasks, …)` callbacks |
| `lastDelay` | the delay of the last timer armed |
| `inflight` | the number of fetch chains not yet settled |
| `toggles` | for each region (`page`, `summary`, `files`): whether a More/Less button is present, how many times `handleCollapseToggle` is registered on it, and its label |
| `tasks` | the server's count. It only decreases, because tasks finish. |
| `lastResp` | `ongoing` of the last response processed |

**Actions.**

| Action | Code |
|---|---|
| `Load` | the top-level code: bind the buttons, then return early (no banner or URL; count 0) or arm the first timer |
| `PollOngoingTasks` | the timer callback. Its early return on a zero count is unreachable, and that is what `NoPollAfterZero` shows, so the model writes it as a guard. |
| `PollSucceeds(data)` | the `.then(data => …)` continuation, whole. It calls `UpdateBanner`, `EnableVoteButton`, `UpdatePageContent` and `ReattachCollapseToggleListeners`. `data` says, for each fragment, whether it is undefined, plain HTML, or HTML with a toggle button. |
| `PollFails` | the `catch` continuation. It covers a network error, a non-2xx status (the `throw` at line 142) and a body that is not JSON. |
| `ClickToggle(r)` | a click: each registered listener flips the label once |
| `TaskFinishes` | the server, which is the environment |

A response's `ongoing` field is either the server's count or missing
(`OngoingForms`, a subset of `{"count", "missing"}`). `NewCount(data)` is
`data.ongoing || 0`: a missing field reads as 0. The main runs use
`{"count"}`, and `poller_malformed` adds `"missing"`.

Data are abstracted to what the properties tell apart. The HTML of a
fragment is reduced to "has a toggle button or not". The banner text is
reduced to the number it shows.

**Fairness.** The fairness conditions, and why each is justified:
- Weak fairness on `Load` and on `PollOngoingTasks`: the browser runs the
  script and fires due timers.
- Weak fairness on "the fetch settles": the browser's network stack times
  out a request. The code itself has no timeout, and this is a listed
  hazard.
- Strong fairness on `PollSucceeds`: the network is not down forever. A
  success is possible whenever a fetch is out, and that happens
  intermittently, so strong fairness is needed.
- Weak fairness on `TaskFinishes`: the server finishes its tasks.
- The user gets no fairness.

Deadlock checking is off (`CHECK_DEADLOCK FALSE`). That is justified: the
page really does become idle once polling stops or the script returns early,
and then only clicks remain.

### Runs

| Run | cfg | Expect | Shows |
|---|---|---|---|
| `poller_safety` | `MCTaskPoller.cfg` | pass | It checks these properties: `TypeOK`, `SingleFlight` (no overlapping polls), `NoPollAfterZero`, `StopsOnlyOnZero`, `BannerShowsLastResponse`, `ProgressReflectsSchedule`, `AtMostOneListener`, `CompletionOnlyWhenDone` (an action property) and `PollingTerminates` (liveness). All hold. |
| `toggle_rebind` | `MCTaskPoller_ToggleButtonsBound.cfg` | violation | Take a response that carries `checks_summary_html` but no `files_table_html`, or a page without a files container. The new More/Less button in the checks summary then has no listener (line 123). Spec section 4.1 says buttons are re-attached after any replacement. |
| `poller_malformed` | `MCTaskPollerMalformed.cfg` | violation | `CompletionOnlyWhenDone` on a server that may leave out `ongoing`. A response without the field, while one task still runs, hides the banner, enables the vote and stops polling (line 147). |

**Bounds.** `MaxTasks = 2`. That is the smallest value where a response can
lower the count without reaching zero, and a later one can then reach zero:
that is how a stale `currentCount` shows up. The initial count ranges over
`0`, `NaN` and every value from the server's count up to 2. Every
combination of present and absent DOM elements is covered. So is every
vote-button state, and every mix of fragments with and without toggle buttons.
Two consecutive errors are reached, so a retry delay computed from the
previous one would leave the type's three delays. Timers and fetches
are bounded because `SingleFlight` holds. The run explores 92,784
distinct states, to depth 12, in about 10 seconds.

**Mutants.** Each property of `poller_safety` is broken by a plausible fault:
- `TypeOK`: a compounding, uncapped backoff.
- `SingleFlight`: the retry moved into a `.finally()` while the success
  path keeps its own `setTimeout`, so a success arms two timers.
- `NoPollAfterZero`: re-arming at zero.
- `StopsOnlyOnZero`: a catch handler that forgets to retry.
- `BannerShowsLastResponse`: `updateBanner` without `currentCount = count`.
- `ProgressReflectsSchedule`: a catch handler without `restartProgress`.
- `AtMostOneListener`: re-binding a fresh closure.
- `CompletionOnlyWhenDone`: hiding at `count <= 1`.
- `PollingTerminates`: re-arming on the stale `currentCount`.

Each fault is written as an operator just before the definition it replaces.
`PROJECT.json` names each pair.

## 3a. The preview model (`AnnouncePreview.tla`)

`announce-preview.js` lines 20-97. `initAnnouncePreview` returns early when
the textarea, the preview element or the form is missing (`page.elements`),
or when the preview URL or the CSRF input is missing (`page.config`).
Otherwise it attaches the `input` listener and calls `doFetch` once.

| Variable | Code |
|---|---|
| `body` | `bodyTextarea.value` |
| `debounce` | the pending `debounceTimeout` (0 or 1: `clearTimeout` before `setTimeout`) |
| `inflight[t]` | unsettled `fetch` calls whose `bodyContent` was `t` |
| `lastSent` | the body of the most recent request |
| `preview` | `textPreviewContent.textContent`: initial, error, or the preview of a body |

| Action | Code |
|---|---|
| `InitAnnouncePreview` | `initAnnouncePreview`, both early returns and the first `doFetch` |
| `Input(t)` | the `input` listener (lines 91-94); edits are bounded by `MaxEdits` |
| `DebounceFires` | the timer's `doFetch`, which reads the textarea when it fires (line 26) |
| `PreviewArrives(t)` | the `.then` chain writing `previewText` (lines 39-49) |
| `PreviewFails(t)` | a non-2xx status or a network error reaching the `catch` (lines 40-53) |

Fairness: weak fairness on the load handler, on the timer, and per body on
the settling of its requests. The browser runs due handlers, and every
fetch eventually settles (the browser's network timeout). The user gets no
fairness.

Runs (`MCAnnouncePreview`: two bodies, two edits):
- `preview_debounce` (pass, 172 distinct states): `DebounceSendsLatest`:
  once no timer is pending, the last request carried the current body.
  A liveness "the machinery comes to rest with the current body sent" is
  left out: with edits bounded it follows from this invariant and the
  fairness of the timer and the fetches.
- `preview_stale` (violation): `FreshPreviewWhenSettled`. The trace sends the
  first request for `t1`, the user types `t2`, and the timer sends `t2`. Then
  the `t2` request fails, and the `t1` response arrives after it. The
  preview shows `t1` while the textarea holds `t2`, and nothing is left
  outstanding to correct it.

Two bodies and two edits are enough: the race needs one old and one new
request, and a second edit lets a timer be cleared and re-armed.

Mutants: a handler that does not clear the pending timer (`TypeOK`), and a
timer that skips its fetch while a request is out (`DebounceSendsLatest`).

## 3b. The download path model (`DownloadPath.tla`)

`announce-preview.js` lines 99-142. A value is a sequence of characters.
`Normalise` applies the three rewrites of `updatePathHelpText` in the
code's order:
1. drop the dot of a leading `./`, or map `.` to `/`;
2. prefix `/`;
3. suffix `/`.

`UpdatePathHelpText` rejects `..` and `//` on the raw value, and `/.` on the
normalised one. The base text is the same in every message and is left
out. The state machine is the same debounce as the preview, with a 10 ms
timer that reads the value when it fires.

The reference (`Segments`, `RefAccepts` and `RefSuffix`) describes an
acceptable suffix without the code's rewrites. Split the value at its
slashes. An empty segment may only come first or last, and a lone `.` only
first. No other segment may be empty or start with a dot, and none may
contain `..`. The suffix is `/` followed by every remaining segment, each
followed by `/`.

The first version of the reference allowed `a..`; the code rejects `..`
anywhere, and its message says so. The reference now does the same.

Run `path_help` (pass, 6,050 distinct states). It covers every value of up
to 4 characters over `.`, `/` and `a`, and two edits. `HelpMatchesReference`
says that once no timer is pending, the help text has the reference's
verdict and suffix for the current value. Four characters are enough to
build each of `..`, `//`, `./`, `/.` next to a letter and a slash. The
mutants drop the `suffix === "."` branch (`HelpMatchesReference`) and the
`clearTimeout` (`TypeOK`).

## 3c. The admin update form (`AdminUpdateForm.tla`)

`admin-update-form.js`. The submit handler is async. It is cut at its two
awaits, `fetch` (line 38) and `response.json()` (line 54), so each
continuation is one action. `handler[i]` is where the handler of
submission `i` is: `none`, `fetching`, `parsing` or `done`. A status message
is its category and the source of its text: the fixed "Could not make network
request", the error the fetch or the parse threw, or the server's
`data.message`.

| Action | Code |
|---|---|
| `Load` | the DOMContentLoaded handler attaching the listener |
| `Submit` (through `Started`) | lines 25-43: disable the button, set the wait cursor, empty `#status`, read the CSRF input, start the fetch. A missing `#status` or CSRF input throws there, before the `try`. |
| `FetchNotOk(i)` | the non-2xx branch: message, `return`, `finally` |
| `FetchRejects(i)` | a rejected fetch: `catch`, `finally` |
| `FetchOk(i)` | a 2xx response: await the JSON |
| `JsonParsed(i, m, c)`, `JsonFails(i)` | the JSON continuation, or its `catch`; then `finally` |

The disabled button is the only guard against a second submission. A page
with another submit control (`page.other`) can run two handlers at once; the
model lets it, and the properties are stated for single-button pages.

Fairness: weak fairness on the load handler and on each handler's next
step. Every awaited promise settles, and the user gets no fairness.

Runs (`MCAdminUpdateForm`: categories `success` and `error`, two server
messages, two submissions). The second submission is what meets the first
one's message.
- `admin_form` (pass, 142 distinct states):
  - `BusyWhileRequesting`: on a complete single-button page, the button is
    disabled, and the cursor waits, exactly while a handler is suspended;
  - `OneMessagePerSubmission`: `#status` is empty while a request is out, and
    holds exactly one message once it has finished.

  The mutants: a `finally` that clears the cursor to `""` (`TypeOK`), one that
  keeps the wait cursor (`BusyWhileRequesting`), and a submit that keeps the
  old messages (`OneMessagePerSubmission`).
- `admin_stuck` (violation): `ButtonNeverStuck`. On a page without `#status`,
  `statusElement.firstChild` throws after the button was disabled, outside
  the `try`. So the `finally` never runs, and the button stays disabled with
  the wait cursor.

**The abstract form (`AdminSubmission.tla`, `AdminUpdateFormSubmission.tla`).**
`AdminSubmission` states what the form promises, with the button, the
cursor and the awaits left out. It has three variables: `busy`, `status`
and `submits`. There are two actions:
- `Submit`: only when not busy; it empties the status area.
- `Reply`: the waiting submission gets exactly one message.

It has weak fairness on `Reply`. `AdminUpdateFormSubmission` maps the form
onto it:
- `busy` is "a handler is suspended";
- `status` and `submits` are the form's own.

`Submit` maps to `Submit`. The four continuations that append a message and
run `finally` map to `Reply`. `Load` and `FetchOk` are stutters. The promise
is made for a complete page only: on any other page the mapping keeps the
abstract form idle and empty, which the abstract specification allows. This
is a mapping rather than an implication `Complete => ASpec`, because TLC
does not accept an action formula under an implication.

The refinement is proved, in its safety part, for every `MaxSubmits`
(`SubmissionRefinement`, section 4). It is not a property of a run: its
safety part is `BusyWhileRequesting` and `OneMessagePerSubmission` seen
through the mapping, which the run checks, and its fairness follows from
that of the handlers.

A liveness "the button is enabled again" on complete pages is left out. There
it follows from `BusyWhileRequesting` and the fairness of the handlers, so no
fault of the code breaks it without breaking the invariant first.

## 3d. The poller's abstract session (`PollerSession.tla`, `TaskPollerSession.tla`)

`PollerSession` is what the poller promises, with the page left out. The
`session` is `unloaded`, `waiting`, `fetching` or `stopped`, and `seen` is
the count of the last answer. Its actions are:
- `Start`: the script decides whether to poll;
- `Fire`: the one request goes out;
- `Answer`: the count is recorded, and the session waits again unless the
  count is 0;
- `Fail`: the request is retried;
- `Finish`: a server task ends.

Its fairness is weak fairness on each step, with strong fairness on
`Answer`.

`TaskPollerSession` maps the poller onto it: `session` is `SessionOf`
(unloaded before the script runs; fetching while a fetch is out; waiting
while a timer is pending; stopped otherwise), and `seen` is `lastResp`.
The refinement is proved, in its safety part, for every `MaxTasks`
(`SessionRefinement`, section 4): every step of the poller is a session
step or leaves the session unchanged. It is not a property of a run: the
session's safety is what `SingleFlight`, `NoPollAfterZero` and
`StopsOnlyOnZero` check, and its liveness is `PollingTerminates`.

## 3e. The committee directory (`CommitteeDirectory.tla`)

`committee-directory.js`. The filter button and the Enter key are bound
when the script is evaluated, before DOMContentLoaded fills
`allCommitteeCards`. `Listed` is the list the handlers iterate over: empty
before the load. A card is a model value. The regex test of the filter
text, with its escaped fallback, becomes the relation `matches` between
texts and cards, chosen in Init.

| Action | Code |
|---|---|
| `Type(f)` | the user edits the filter text (no handler) |
| `FilterCommitteesByText` | the filter click or Enter: leave the participant mode, show the matching listed cards, count them |
| `ClickParticipant` | the participant button: flip the mode, clear the filter, show and count |
| `InitCommitteeVisibility` | DOMContentLoaded: list the cards, show the initial mode, set `aria-pressed` and the count |
| `ToggleProjects(c)` | a project-list toggle |

Run `committee_filters` (two cards, filter texts `""`, `"f1"` and `"f2"`;
28,080 distinct states) checks `CountMatchesVisible` and `ModeMatchesView`.
Every relation between texts and cards, and every participant set, is
covered. The mutants are a count that accumulates across calls and a
filter that keeps the participant mode.

## 3f. Announce confirmation and unchanged values

`AnnounceConfirm.tla` models `announce-confirm.js`. Its actions are:
- the load handler, with its early return, the listener and the one
  initial `updateButtonState` call;
- `Input(v)`, an edit of the field;
- `Submit`, the user submitting through the enabled button.

The field may already hold text, and the button may already be enabled,
before the script runs. `OnlyConfirmedSent` says that once the gate is
installed, only `CONFIRM` is ever sent. It is proved (section 4).

`IgnoreFormChange.tla` models `ignore-form-change.js`. The load handler
visits the rows in document order. A row without a `button.btn-primary`
makes `check()` throw, and the `forEach` ends there; `Reached` is the set
of rows it visits. So the rows after such a row are never bound, and
their buttons keep the server's class. `BoundRowsTrackValue` speaks only of
bound rows. It is proved (section 4).

## 3g. Select-all committees (`KeysAddToggle.tla`)

`keys-add-toggle.js`. The set of checkboxes and the container test are
chosen in Init. The load handler returns early, or adds the button. The
button sets every box to the negation of "all checked", then relabels
itself. The user can also click a single box (`ClickBox`).

`ClickSettlesBoxes`, an action property, is proved (section 4). Run
`keys_label` (violation; three committees) checks `LabelNamesNextClick`.
Either of two paths reaches the violation:
- the page starts with every box checked;
- the user checks the boxes one by one.

Either way the label still says "Select all", while a click would uncheck
every box.

## 3h. The JWT form (`JwtForm.tla`)

`ts/create-a-jwt.js`. The async submit handler is cut at its two awaits,
`fetch` and `resp.text()`. `handler[i]` is where submission `i` is:
`fetching`, `reading`, `shown`, `alerted` or `rejected`. Nothing disables
the form, so handlers overlap, and their responses settle in any order. A
rejected fetch or body read is caught by nothing. It ends the handler with
neither a token nor an alert.

`OutputShowsOnlyTokens` says that whatever order the answers settle in,
the output only ever holds a token. It is proved for every number of
submissions (section 4).

Fairness, if a liveness property is added: weak fairness on the load
handler and on each handler settling. The user gets none.

## 3i. The upload widget (`UploadCard.tla`)

`formatBytes` is not modelled. It keeps no state, and its only subtle part
is the rounding of the JavaScript built-in `toFixed`. The unit is chosen
from the exact size before rounding, so a size just under 1 MiB is written
`1024.0 KB`; neither the spec nor a comment says which text is wanted
there, so no property could call it right or wrong.

`UploadCard` is the per-file card:
- `ProgressComputable(l)` and `ProgressUnknown(l)`: `handleUploadProgress`;
- `MarkUploadDone(success)`;
- `ResetUploadUI`: after a failure, another attempt.

The uploader that drives these calls is not in this repository. The model
drives them in the order the library is written for: one attempt's
progress events, with `loaded` never decreasing, then done. `Total = 1024`,
and the loads include 1018 and 1019, on either side of the 99.5% rounding
edge. At 1019 bytes, `Math.round` gives 100. The card then says
"Processing..." and hides the cancel button while bytes are still being
sent.

Run `upload_widget` (130 distinct states) checks `CardShowsAttempt` over
three attempts: a card always shows the state of its current attempt. The
mutant is a reset that keeps the red border.

## 4. Proofs

Eight modules hold theorems. Each one extends a component module and
`TLAPS`. Every inductive invariant below was first checked with TLC as an
invariant of the module's run.

### `TaskPollerProofs.tla`

The proofs assume only `MaxTasks \in Nat \ {0}` and
`OngoingForms \subseteq {"count", "missing"}`. `NaN` and `None` are
sentinels outside `Nat`.

* `TypeCorrect`: `Spec => []TypeOK`. It rests on lemmas stating that
  `NewToggle`, `BindCollapseToggles`, `ReattachCollapseToggleListeners` and
  `UpdatePageContent` return a `[Regions -> Toggle]`, and that `NewCount`
  is in `0..MaxTasks`.
* `PollerSafety`: `Spec => [](SingleFlight /\ NoPollAfterZero)`. Neither
  property is inductive alone, so the inductive invariant `IInv` conjoins:
  - `TypeOK`;
  - "before the script runs, nothing is scheduled";
  - `SingleFlight`;
  - `NoPollAfterZero`.

  The argument: a success that stores a zero count leaves nothing pending
  only because its fetch was the single outstanding poll. And a handler can
  run only with a non-zero count, because the fetch was issued with one.
  `NoPollSafety` states `NoPollAfterZero` alone.
* `StopSafety`, `BannerSafety`, `ProgressSafety` and `ListenerSafety`
  prove `StopsOnlyOnZero`, `BannerShowsLastResponse`,
  `ProgressReflectsSchedule` and `AtMostOneListener`. They hold whatever
  form the server's answers take. None of them is inductive alone. The
  lemma `PInvHolds` proves `Spec => []PInv`, where `PInv` conjoins `IInv`,
  the four properties, and three facts:
  - `Untouched`: before the script runs, the banner and the progress bar
    are as rendered, and no answer has been processed.
  - `ScheduledOnlyIfStarted`: a pending timer or fetch implies that the
    poller started (banner present, non-zero count).
  - `BeforeFirstAnswer`: until the first answer, the banner shows the count
    the script stored, and it is not hidden.

  `BeforeFirstAnswer` is the subtle one. `updateBanner` is skipped when the
  answer equals `currentCount`. The banner is then right only because it
  already shows that count. The lemmas `BindListeners` and
  `UpdateListeners` show that the binding, the fragment replacement and the
  re-binding keep each button's listener count at most one.
* `CompletionSafety`: if `OngoingForms = {"count"}`, then
  `Spec => CompletionOnlyWhenDone`, an action property. The step argument
  needs only `TypeOK`: only `PollSucceeds` hides the banner or enables the
  vote, and it does so only for an answer of zero, which is then the
  server's count. With a missing field the property fails; that is the
  `poller_malformed` run.
* `SessionRefinement`: if `OngoingForms = {"count"}`, then
  `Spec => Session!Init /\ [][Session!ANext]_Session!avars`. This is the
  safety part of the refinement of section 3d.
  - `SessionInit`: the initial states map to the session's initial state.
  - `SessionStep`: under `IInv`, every poller step is a session step or
    leaves the session unchanged.
  - `Load` is `Start`, `PollOngoingTasks` is `Fire`, `PollSucceeds` is
    `Answer`, `PollFails` is `Fail`, and `TaskFinishes` is `Finish`. The
    clicks are stutters.
  - `IInv` is needed to know that a handler runs with exactly one fetch out
    and no timer pending.
  - The hypothesis on `OngoingForms` is needed: with a missing field the
    poller records 0 while the server still has tasks, which no session
    step does (this is the `poller_malformed` finding).

### `AnnouncePreviewProofs.tla`

The proofs assume only that `Texts` is non-empty and excludes `None`, and
that `MaxEdits \in Nat`.

* `TypeCorrect`: `Spec => []TypeOK`. This includes `debounce \in 0..1`: at
  most one timer is pending, because the listener clears the old one.
* `DebounceSafety`: `Spec => []DebounceSendsLatest`. The inductive invariant
  is `TypeOK /\ DebounceSendsLatest`. `TypeOK` is needed for one reason: a
  firing timer leaves `debounce = 0` only if it was 1.

### `AdminUpdateFormProofs.tla`

The proofs assume `"error" \in Categories` and `MaxSubmits \in Nat`. They
hold for every set of server messages.

* `TypeCorrect`, `BusySafety` and `MessageSafety` prove `TypeOK`,
  `BusyWhileRequesting` and `OneMessagePerSubmission`. All three come from
  `IInvHolds: Spec => []IInv`. `IInv` adds two facts:
  - `Serial`: on a complete page, at most one handler is suspended.
  - `NotYetSubmitted`: the handlers of submissions not yet made are
    `"none"`.

  On a complete page only the enabled button submits. So a handler starts
  only when none is running, and it starts from `"none"`. The lemma
  `EndStep` covers the four continuations that append one message and run
  `finally`. Each of them leaves no handler running and one message in
  `#status`.
* `SubmissionRefinement`:
  `Spec => Submission!Init /\ [][Submission!ANext]_Submission!avars`. This
  is the safety part of the refinement of `AdminSubmission`.
  - `SubmissionInit`: the initial states map to the abstract initial state.
  - `SubmissionStep`: under `IInv`, every step is a `Submit` or `Reply` of
    the abstract form, or a stutter.
  - `EndRefines`: on a complete page, an ending continuation is a `Reply`.
    By `Serial` and `OneMessagePerSubmission`, that handler was the only one
    running, and `#status` was empty. So `#status` becomes a one-message
    sequence.
  - A submission is a `Submit`: `BusyWhileRequesting` says the enabled
    button means no handler runs, and `NotYetSubmitted` says the new handler
    starts from `"none"`.
  - On an incomplete page, `page` never changes, so the mapped state is
    constant.

  The fairness part is checked only by TLC, in `admin_form`.

### `CommitteeDirectoryProofs.tla`

* `CountSafety`: `Spec => []CountMatchesVisible`, for every set of cards
  and filter texts. The property is inductive by itself. Each handler
  recounts the cards it leaves shown. Before the load, `Listed` is empty,
  and the property's premise is false.
* `TypeCorrect`: `Spec => []TypeOK`. The count stays within
  `0..Cardinality(Cards)` because a handler counts a subset of the finite
  set of cards (the lemma `SubsetCount`, from `FS_Subset`).
* `ViewSafety`: `Spec => []ModeMatchesView`. It is inductive together with
  `TypeOK`. A filter run from the participant mode can reset `aria-pressed`
  only because the mode and the pressed state agreed before it ran. The
  lemma `VisibleShow` says that, once the cards are listed, a handler shows
  exactly the set it was given.

### The small components

* `AnnounceConfirmProofs`, `ConfirmGateSafety`:
  `Spec => []OnlyConfirmedSent`. `IInv` adds two facts:
  - before the load handler, nothing is sent and nothing is bound;
  - a bound listener keeps the button disabled exactly when the field is
    not `CONFIRM`.

  Without the second, an enabled button could not be tied to the field.
* `IgnoreFormChangeProofs`, `BoundRowsSafety`:
  `Spec => []BoundRowsTrackValue`, for every number of rows. `IInv` adds
  that no row is bound before the load. Otherwise, at the load, an
  already-bound row could be out of step.
* `JwtFormProofs`, `OutputSafety`: if `MaxSubmits \in Nat`, then
  `Spec => []OutputShowsOnlyTokens`. `IInv` adds that a handler awaiting
  its body got it from an OK response. Without that, `TextRead` could
  show anything.
* `KeysAddToggleProofs`, `ClickSettles`: `Spec => ClickSettlesBoxes`, an
  action property. It rests on `IInv == TypeOK /\ (present => boxes # {})`.
  With no box, "all checked" holds vacuously both before and after a click,
  and the label would be wrong. The load handler's early return on an empty
  set of boxes is what rules that out.

### What stays with TLC

`DownloadPath` has no theorems:
- its reference uses `SetToSortSeq` and `FoldLeft`, whose definitions are
  recursive;
- what the string algorithm computes for every input is an induction over
  data.

TLC checks it exhaustively over the bounded inputs of its run.

TLC only checks these, and TLAPS cannot prove them:
- The liveness property `PollingTerminates`: it is liveness under
  fairness.
- The violation runs.
- `UploadCard`'s `CardShowsAttempt`. The upload card has no proof module;
  its invariant is checked over every event order of the `upload_widget`
  run.
- The fairness parts of the two refinements: only their safety parts are
  proved (`SessionRefinement`, `SubmissionRefinement`).

## 5. Not modelled

* The server endpoints: they are not in this repository.
* HTML templates and CSS classes. They are left out except where a property
  reads them: the `d-none` banner class, the progress bar classes, the
  `disabled` vote button, and the upload card's border and text colours.
* `console.error` logging.
* In `committee-directory.js`:
  - `setupImageErrorHandlers`: it hides a logo that fails to load, and
    touches no other state;
  - `setupSubcardNavigation`: a click that leaves the page.
* In `upload-progress-ui.js`:
  - `formatBytes` (section 3i);
  - the cancel click, which only calls `abort` on an XHR owned by an
    uploader that is not in this repository;
  - `showAllFailedSummary`, `showPartialSuccessSummary` and `doFinalise`.
    These build DOM, and the order in which they are called belongs to that
    absent uploader, so a model of it would be invented rather than
    translated.
* How the progress bar looks with `data-indeterminate` set and a value of
  100 or 0 (the hazard at line 62 of `upload-progress-ui.js`). The model
  tracks the flag, but what it shows is decided by a stylesheet that is not
  in the repository.

## 6. Findings

Each finding is reproduced by a violation run; `PROJECT.json` has the
details.
- `toggle_rebind`: More/Less buttons in a replaced checks summary get no
  listener unless the files table is replaced too. This contradicts spec
  section 4.1.
- `poller_malformed`: `data.ongoing || 0` reads a missing field as zero. It
  stops polling, hides the banner and enables the vote while tasks still
  run.
- `preview_stale`: an older preview response that settles last overwrites
  the preview of the current body.
- `admin_stuck`: a missing `#status` or CSRF input leaves the submit button
  disabled for good, because the throw happens before the `try`.
- `keys_label`: the select-all label goes stale after single-box clicks,
  and then says "Select all" while a click would deselect every box.
