------------------------- MODULE TaskPollerProofs --------------------------
(***************************************************************************)
(* Proofs about TaskPoller for every value of MaxTasks: the type           *)
(* invariant, and that the poller never has two polls outstanding and      *)
(* never polls once its count is zero; and that it implements the        *)
(* session of PollerSession (the safety part of the refinement).           *)
(***************************************************************************)
EXTENDS TaskPollerSession, TLAPS

USE MaxTasksAssumption

(***************************************************************************)
(* The operators on toggle buttons keep every region a Toggle record.     *)
(***************************************************************************)
LEMMA NewToggleType ==
    ASSUME NEW f \in Fragments
    PROVE  NewToggle(f) \in Toggle
BY DEF NewToggle, Toggle

LEMMA BindType ==
    ASSUME NEW tg \in [Regions -> Toggle]
    PROVE  BindCollapseToggles(tg) \in [Regions -> Toggle]
BY DEF BindCollapseToggles, AddListener, Toggle

LEMMA ReattachType ==
    ASSUME NEW tg \in [Regions -> Toggle]
    PROVE  ReattachCollapseToggleListeners(tg) \in [Regions -> Toggle]
BY DEF ReattachCollapseToggleListeners, AddListener, RemoveListener, Toggle

LEMMA UpdatePageContentType ==
    ASSUME NEW tg \in [Regions -> Toggle], NEW data \in Responses
    PROVE  UpdatePageContent(tg, data) \in [Regions -> Toggle]
<1> DEFINE s == IF page.summary /\ data.summary # "undefined"
                THEN [tg EXCEPT !["summary"] = NewToggle(data.summary)]
                ELSE tg
<1>1. s \in [Regions -> Toggle]
  BY NewToggleType DEF Responses
<1>2. [s EXCEPT !["files"] = NewToggle(data.files)] \in [Regions -> Toggle]
  BY <1>1, NewToggleType DEF Responses
<1>3. QED
  BY <1>1, <1>2, ReattachType DEF UpdatePageContent

\* The count a response carries is one the server can report.
LEMMA NewCountType ==
    ASSUME TypeOK, NEW data \in Responses
    PROVE  NewCount(data) \in 0 .. MaxTasks
BY DEF NewCount, TypeOK

(***************************************************************************)
(* Type correctness.                                                       *)
(***************************************************************************)
LEMMA TypeInit == Init => TypeOK
<1> SUFFICES ASSUME Init PROVE TypeOK
  OBVIOUS
<1>1. toggles \in [Regions -> Toggle]
  BY NewToggleType DEF Init, Fragments
<1>2. page \in Pages /\ shown \in Counts
  BY DEF Init, Pages
<1>3. /\ currentCount \in Counts
      /\ lastDelay \in {0, PollInterval, PollInterval * 2}
      /\ lastResp \in (0 .. MaxTasks) \cup {None}
  BY DEF Init, Counts
<1>4. QED
  BY <1>1, <1>2, <1>3 DEF Init, TypeOK

LEMMA TypeStep == TypeOK /\ [Next]_vars => TypeOK'
<1> SUFFICES ASSUME TypeOK, [Next]_vars PROVE TypeOK'
  OBVIOUS
<1>1. CASE Load
  <2>1. toggles' \in [Regions -> Toggle]
    BY <1>1, BindType DEF Load, TypeOK
  <2>2. QED
    BY <1>1, <2>1 DEF Load, TypeOK, Pages, RestartProgress, PollInterval
<1>2. CASE PollOngoingTasks
  BY <1>2 DEF PollOngoingTasks, TypeOK, SetProgressPolling
<1>3. CASE \E data \in Responses : PollSucceeds(data)
  <2>1. PICK data \in Responses : PollSucceeds(data)
    BY <1>3
  <2>2. toggles' \in [Regions -> Toggle]
    BY <2>1, UpdatePageContentType DEF PollSucceeds, TypeOK, UpdateBanner
  <2>3. /\ currentCount' \in Counts /\ shown' \in Counts
        /\ bannerHidden' \in BOOLEAN /\ vote' \in VoteStates
    <3>0. NewCount(data) \in 0 .. MaxTasks
      BY <2>1, NewCountType
    <3>1. CASE NewCount(data) # currentCount /\ page.textSpan
      BY <2>1, <3>0, <3>1 DEF PollSucceeds, TypeOK, UpdateBanner,
                              EnableVoteButton, VoteStates, Counts
    <3>2. CASE ~(NewCount(data) # currentCount /\ page.textSpan)
      BY <2>1, <3>2 DEF PollSucceeds, TypeOK, UpdateBanner
    <3>3. QED
      BY <3>1, <3>2
  <2>4. lastResp' \in (0 .. MaxTasks) \cup {None}
    BY <2>1, NewCountType DEF PollSucceeds
  <2>5. QED
    BY <2>1, <2>2, <2>3, <2>4 DEF PollSucceeds, TypeOK, SetProgressIdle,
                                  RestartProgress, PollInterval
<1>4. CASE PollFails
  BY <1>4 DEF PollFails, TypeOK, SetProgressIdle, RestartProgress,
              PollInterval
<1>5. CASE \E r \in Regions : ClickToggle(r)
  BY <1>5 DEF ClickToggle, TypeOK, Toggle
<1>6. CASE TaskFinishes
  BY <1>6 DEF TaskFinishes, TypeOK
<1>7. CASE UNCHANGED vars
  BY <1>7 DEF vars, TypeOK
<1>8. QED
  BY <1>1, <1>2, <1>3, <1>4, <1>5, <1>6, <1>7 DEF Next

THEOREM TypeCorrect == Spec => []TypeOK
BY TypeInit, TypeStep, PTL DEF Spec

(***************************************************************************)
(* The inductive invariant behind SingleFlight and NoPollAfterZero: before *)
(* the script runs nothing is scheduled.  The two properties need each     *)
(* other: a success that stores a zero count leaves nothing pending only   *)
(* because its fetch was the one outstanding poll, and a handler can only  *)
(* run with a non-zero count because the fetch was issued with one.       *)
(***************************************************************************)
IInv ==
    /\ TypeOK
    /\ ~loaded => timers = 0 /\ inflight = 0
    /\ SingleFlight
    /\ NoPollAfterZero

LEMMA IInvInit == Init => IInv
BY TypeInit DEF Init, IInv, SingleFlight,
   NoPollAfterZero

LEMMA IInvStep == IInv /\ [Next]_vars => IInv'
<1> SUFFICES ASSUME IInv, [Next]_vars PROVE IInv'
  OBVIOUS
<1>0. TypeOK'
  BY TypeStep DEF IInv
<1> USE DEF IInv, SingleFlight, NoPollAfterZero
<1>1. CASE Load
  <2>1. timers = 0 /\ inflight = 0 /\ inflight' = 0
    BY <1>1 DEF Load, TypeOK
  <2>2. CASE ~page.banner
    BY <1>0, <1>1, <2>1, <2>2 DEF Load
  <2>3. CASE page.banner /\ page.countText = 0
    BY <1>0, <1>1, <2>1, <2>3 DEF Load
  <2>4. CASE page.banner /\ page.countText # 0
    BY <1>0, <1>1, <2>1, <2>4 DEF Load
  <2>5. QED
    BY <2>2, <2>3, <2>4
<1>2. CASE PollOngoingTasks
  BY <1>0, <1>2 DEF PollOngoingTasks, TypeOK
<1>3. CASE \E data \in Responses : PollSucceeds(data)
  <2>1. PICK data \in Responses : PollSucceeds(data)
    BY <1>3
  <2>2. inflight = 1 /\ timers = 0 /\ currentCount # 0
    BY <2>1 DEF PollSucceeds, TypeOK, UpdateBanner
  <2>3. timers' + inflight' <= 1
    BY <2>1, <2>2, NewCountType DEF PollSucceeds, TypeOK, UpdateBanner
  <2>4. currentCount' = 0 => timers' = 0 /\ inflight' = 0
    BY <2>1, <2>2, NewCountType DEF PollSucceeds, TypeOK, UpdateBanner
  <2>5. loaded'
    BY <2>1, <2>2 DEF PollSucceeds, TypeOK, UpdateBanner
  <2>6. QED
    BY <1>0, <2>3, <2>4, <2>5
<1>4. CASE PollFails
  BY <1>0, <1>4 DEF PollFails, TypeOK
<1>5. CASE \E r \in Regions : ClickToggle(r)
  BY <1>0, <1>5 DEF ClickToggle
<1>6. CASE TaskFinishes
  BY <1>0, <1>6 DEF TaskFinishes
<1>7. CASE UNCHANGED vars
  BY <1>0, <1>7 DEF vars
<1>8. QED
  BY <1>1, <1>2, <1>3, <1>4, <1>5, <1>6, <1>7 DEF Next

(***************************************************************************)
(* The poller's timer chain never forks (SingleFlight) and never polls     *)
(* with a zero count (NoPollAfterZero), for every MaxTasks.                *)
(***************************************************************************)
THEOREM PollerSafety == Spec => [](SingleFlight /\ NoPollAfterZero)
<1>1. Spec => []IInv
  BY IInvInit, IInvStep, PTL DEF Spec
<1>2. IInv => SingleFlight /\ NoPollAfterZero
  BY DEF IInv
<1>3. QED
  BY <1>1, <1>2, PTL

(***************************************************************************)
(* In particular, for every MaxTasks, nothing is scheduled or in flight   *)
(* once currentCount is zero, initially or after a response.              *)
(***************************************************************************)
THEOREM NoPollSafety == Spec => []NoPollAfterZero
BY PollerSafety, PTL

-----------------------------------------------------------------------------
(***************************************************************************)
(* The page invariants.  StopsOnlyOnZero, BannerShowsLastResponse and      *)
(* ProgressReflectsSchedule are not inductive by themselves: each needs    *)
(* to know how the page looked when the first answer arrived.  Three      *)
(* facts supply it: before the script runs the banner and the progress    *)
(* bar are as rendered and no answer was processed (Untouched); anything  *)
(* scheduled was scheduled by a started poller (ScheduledOnlyIfStarted);  *)
(* and until the first answer the banner still shows the count the script *)
(* stored from it (BeforeFirstAnswer), so a first answer equal to that    *)
(* count, which skips updateBanner, leaves the banner right.              *)
(***************************************************************************)
Untouched ==
    ~loaded => /\ shown = page.countText /\ ~bannerHidden
               /\ bar = "rendered" /\ anim = "rendered"
               /\ lastResp = None

ScheduledOnlyIfStarted == timers + inflight > 0 => PollingStarted

BeforeFirstAnswer ==
    page.textSpan /\ PollingStarted /\ lastResp = None =>
        shown = currentCount /\ ~bannerHidden

PInv ==
    /\ IInv
    /\ Untouched
    /\ ScheduledOnlyIfStarted
    /\ BeforeFirstAnswer
    /\ StopsOnlyOnZero
    /\ BannerShowsLastResponse
    /\ ProgressReflectsSchedule
    /\ AtMostOneListener

LEMMA PInvInit == Init => PInv
<1> SUFFICES ASSUME Init PROVE PInv
  OBVIOUS
<1>1. IInv
  BY IInvInit
<1>2. AtMostOneListener
  BY DEF Init, AtMostOneListener, NewToggle
<1>3. QED
  BY <1>1, <1>2 DEF Init, PInv, Untouched, ScheduledOnlyIfStarted,
     BeforeFirstAnswer, StopsOnlyOnZero, BannerShowsLastResponse,
     ProgressReflectsSchedule, PollingStarted, Quiescent

\* The re-binding operators leave at most one listener on every button.
LEMMA BindListeners ==
    ASSUME NEW tg \in [Regions -> Toggle], \A r \in Regions : tg[r].listeners <= 1
    PROVE  \A r \in Regions : BindCollapseToggles(tg)[r].listeners <= 1
BY DEF BindCollapseToggles, AddListener, Toggle

LEMMA UpdateListeners ==
    ASSUME NEW tg \in [Regions -> Toggle], \A r \in Regions : tg[r].listeners <= 1,
           NEW data \in Responses
    PROVE  \A r \in Regions : UpdatePageContent(tg, data)[r].listeners <= 1
<1> DEFINE s == IF page.summary /\ data.summary # "undefined"
                THEN [tg EXCEPT !["summary"] = NewToggle(data.summary)]
                ELSE tg
<1>1. s \in [Regions -> Toggle]
  BY NewToggleType DEF Responses
<1>2. \A r \in Regions : s[r].listeners <= 1
  BY DEF NewToggle, Regions
<1> DEFINE t == [s EXCEPT !["files"] = NewToggle(data.files)]
<1>3. t \in [Regions -> Toggle] /\ \A r \in Regions : t[r].listeners <= 1
  BY <1>1, <1>2, NewToggleType DEF Responses, NewToggle, Regions
<1>4. \A r \in Regions : ReattachCollapseToggleListeners(t)[r].listeners <= 1
  BY <1>3 DEF ReattachCollapseToggleListeners, AddListener, RemoveListener
<1>5. QED
  BY <1>2, <1>4 DEF UpdatePageContent

LEMMA PInvStep == PInv /\ [Next]_vars => PInv'
<1> SUFFICES ASSUME PInv, [Next]_vars PROVE PInv'
  OBVIOUS
<1>0. IInv' /\ TypeOK'
  BY IInvStep DEF PInv, IInv
<1> USE DEF PInv, IInv, TypeOK, SingleFlight, NoPollAfterZero, PollingStarted,
            Quiescent
<1>1. CASE Load
  <2>1. AtMostOneListener'
    BY <1>1, BindListeners DEF Load, AtMostOneListener
  <2>2. /\ ~loaded /\ loaded' /\ timers = 0 /\ inflight = 0 /\ inflight' = 0
        /\ lastResp = None /\ lastResp' = None /\ page' = page
        /\ shown = page.countText /\ ~bannerHidden
        /\ bar = "rendered" /\ bar' = bar
        /\ UNCHANGED <<shown, bannerHidden>>
    BY <1>1 DEF Load, Untouched
  <2>3. timers' > 0 <=> PollingStarted'
    BY <1>1, <2>2 DEF Load
  <2>4. BeforeFirstAnswer'
    BY <1>1, <2>2 DEF Load, BeforeFirstAnswer
  <2>5. ProgressReflectsSchedule'
    BY <1>1, <2>2, <2>3 DEF Load, ProgressReflectsSchedule, RestartProgress
  <2>6. StopsOnlyOnZero'
    BY <2>3 DEF StopsOnlyOnZero
  <2>7. ScheduledOnlyIfStarted'
    BY <1>1, <2>2 DEF Load, ScheduledOnlyIfStarted
  <2>8. Untouched' /\ BannerShowsLastResponse'
    BY <2>2 DEF Untouched, BannerShowsLastResponse
  <2>9. QED
    BY <1>0, <2>1, <2>4, <2>5, <2>6, <2>7, <2>8
<1>2. CASE PollOngoingTasks
  BY <1>0, <1>2 DEF PollOngoingTasks, Untouched, ScheduledOnlyIfStarted,
     BeforeFirstAnswer, StopsOnlyOnZero, BannerShowsLastResponse,
     ProgressReflectsSchedule, AtMostOneListener, SetProgressPolling
<1>3. CASE \E data \in Responses : PollSucceeds(data)
  <2>1. PICK data \in Responses : PollSucceeds(data)
    BY <1>3
  <2> DEFINE n == NewCount(data)
  <2>2. inflight = 1 /\ timers = 0 /\ currentCount # 0 /\ PollingStarted
    BY <2>1 DEF PollSucceeds, ScheduledOnlyIfStarted
  <2>3. n \in 0 .. MaxTasks /\ lastResp' = n
    BY <2>1, NewCountType DEF PollSucceeds
  <2>4. inflight' = 0 /\ (timers' = 0 <=> n = 0) /\ timers' \in {0, 1}
    BY <2>1, <2>2, <2>3 DEF PollSucceeds
  <2>5. AtMostOneListener'
    BY <2>1, UpdateListeners DEF PollSucceeds, AtMostOneListener
  <2>6. BannerShowsLastResponse'
    <3> SUFFICES ASSUME page.textSpan
                 PROVE  /\ shown' = n /\ currentCount' = n
                        /\ (bannerHidden' <=> n = 0)
      BY <2>1, <2>3 DEF PollSucceeds, BannerShowsLastResponse
    <3>1. ~bannerHidden \/ currentCount = 0
      BY <2>2 DEF BannerShowsLastResponse, BeforeFirstAnswer
    <3>2. CASE n # currentCount
      BY <2>1, <3>1, <3>2, <2>2 DEF PollSucceeds, UpdateBanner
    <3>3. CASE n = currentCount
      <4>1. shown = currentCount /\ ~bannerHidden
        BY <2>2, <3>3 DEF BannerShowsLastResponse, BeforeFirstAnswer
      <4>2. QED
        BY <2>1, <2>2, <3>3, <4>1 DEF PollSucceeds
    <3>4. QED
      BY <3>2, <3>3
  <2>7. ProgressReflectsSchedule'
    <3>1. page.progress => bar' = "idle"
      BY <2>1 DEF PollSucceeds, SetProgressIdle
    <3>2. page.progress => anim # "grow"
      BY <2>2 DEF ProgressReflectsSchedule
    <3>3. page.progress => (anim' = "grow" <=> n > 0)
      BY <2>1, <2>3, <3>2 DEF PollSucceeds, RestartProgress
    <3>4. QED
      BY <2>1, <2>3, <2>4, <3>1, <3>3 DEF PollSucceeds, ProgressReflectsSchedule
  <2>8. loaded' /\ page' = page /\ lastResp' # None
    BY <2>1, <2>2, <2>3, SentinelAssumption DEF PollSucceeds
  <2>9. StopsOnlyOnZero'
    BY <2>3, <2>4 DEF StopsOnlyOnZero
  <2>10. QED
    BY <1>0, <2>5, <2>6, <2>7, <2>8, <2>9, <2>2 DEF Untouched,
       ScheduledOnlyIfStarted, BeforeFirstAnswer
<1>4. CASE PollFails
  BY <1>0, <1>4 DEF PollFails, Untouched, ScheduledOnlyIfStarted,
     BeforeFirstAnswer, StopsOnlyOnZero, BannerShowsLastResponse,
     ProgressReflectsSchedule, AtMostOneListener, SetProgressIdle,
     RestartProgress
<1>5. CASE \E r \in Regions : ClickToggle(r)
  <2>1. PICK r \in Regions : ClickToggle(r)
    BY <1>5
  <2>2. AtMostOneListener'
    BY <2>1 DEF ClickToggle, AtMostOneListener
  <2>3. QED
    BY <1>0, <2>1, <2>2 DEF ClickToggle, Untouched, ScheduledOnlyIfStarted,
       BeforeFirstAnswer, StopsOnlyOnZero, BannerShowsLastResponse,
       ProgressReflectsSchedule
<1>6. CASE TaskFinishes
  BY <1>0, <1>6 DEF TaskFinishes, Untouched, ScheduledOnlyIfStarted,
     BeforeFirstAnswer, StopsOnlyOnZero, BannerShowsLastResponse,
     ProgressReflectsSchedule, AtMostOneListener
<1>7. CASE UNCHANGED vars
  BY <1>0, <1>7 DEF vars, Untouched, ScheduledOnlyIfStarted,
     BeforeFirstAnswer, StopsOnlyOnZero, BannerShowsLastResponse,
     ProgressReflectsSchedule, AtMostOneListener
<1>8. QED
  BY <1>1, <1>2, <1>3, <1>4, <1>5, <1>6, <1>7 DEF Next

LEMMA PInvHolds == Spec => []PInv
BY PInvInit, PInvStep, PTL DEF Spec

(***************************************************************************)
(* For every MaxTasks and whatever form the server's answers take, a      *)
(* started poller stops only on an answer of zero: the catch handler      *)
(* always re-arms the timer, and the success handler re-arms it for every *)
(* non-zero count.                                                         *)
(***************************************************************************)
THEOREM StopSafety == Spec => []StopsOnlyOnZero
BY PInvHolds, PTL DEF PInv

(***************************************************************************)
(* For every MaxTasks, with the count text on the page, the banner shows  *)
(* the last answer processed, currentCount agrees with it, and the banner *)
(* is hidden exactly when it was zero, although updateBanner is skipped   *)
(* for an answer equal to the stored count.                                *)
(***************************************************************************)
THEOREM BannerSafety == Spec => []BannerShowsLastResponse
BY PInvHolds, PTL DEF PInv

(***************************************************************************)
(* For every MaxTasks, once polling started, the progress bar is striped  *)
(* exactly while a fetch is out and counts down exactly while a timer is *)
(* pending: every handler restyles the bar on every path it takes.       *)
(***************************************************************************)
THEOREM ProgressSafety == Spec => []ProgressReflectsSchedule
BY PInvHolds, PTL DEF PInv

(***************************************************************************)
(* For every MaxTasks, no toggle button ever carries handleCollapseToggle *)
(* twice, however many responses replace and re-bind the fragments.      *)
(***************************************************************************)
THEOREM ListenerSafety == Spec => []AtMostOneListener
BY PInvHolds, PTL DEF PInv

(***************************************************************************)
(* Against a server that always sends its count, the banner is hidden and *)
(* the vote button enabled only in a step where the server has no task    *)
(* left: updateBanner does so only for an answer of zero, and the answer  *)
(* is the server's count when it is processed.                            *)
(***************************************************************************)
THEOREM CompletionSafety ==
    ASSUME OngoingForms = {"count"}
    PROVE  Spec => CompletionOnlyWhenDone
<1>1. TypeOK /\ [Next]_vars =>
        ((~bannerHidden /\ bannerHidden') \/ (vote # "enabled" /\ vote' = "enabled")
            => tasks = 0)
  <2> SUFFICES ASSUME TypeOK, [Next]_vars,
                      (~bannerHidden /\ bannerHidden') \/
                      (vote # "enabled" /\ vote' = "enabled")
               PROVE  tasks = 0
    OBVIOUS
  <2>1. PICK data \in Responses : PollSucceeds(data)
    BY DEF Next, vars, Load, PollOngoingTasks, PollFails, ClickToggle,
       TaskFinishes
  <2>2. NewCount(data) = tasks
    BY DEF NewCount, Responses
  <2>3. QED
    BY <2>1, <2>2 DEF PollSucceeds, UpdateBanner, EnableVoteButton
<1>2. QED
  BY <1>1, TypeCorrect, PTL DEF CompletionOnlyWhenDone, Spec

-----------------------------------------------------------------------------
(***************************************************************************)
(* Refinement of PollerSession.  Each step of the poller is a step of the *)
(* session or leaves the session's variables alone.  The argument needs   *)
(* IInv: a timer can only fire after the script ran and with no fetch out *)
(* (so the session was "waiting"), and a fetch settles with no timer      *)
(* pending (so the session was "fetching" and is then decided by the     *)
(* handler's re-arming alone).                                            *)
(***************************************************************************)
LEMMA SessionInit == Init => Session!Init
BY DEF Init, Session!Init, SessionOf

LEMMA SessionStep ==
    ASSUME OngoingForms = {"count"}
    PROVE  IInv /\ [Next]_vars => [Session!ANext]_Session!avars
<1> SUFFICES ASSUME IInv, [Next]_vars PROVE [Session!ANext]_Session!avars
  OBVIOUS
<1> USE DEF IInv, SingleFlight, NoPollAfterZero, TypeOK
<1>1. CASE Load
  <2>1. SessionOf = "unloaded" /\ SessionOf' \in {"waiting", "stopped"}
    BY <1>1 DEF Load, SessionOf
  <2>2. QED
    BY <1>1, <2>1 DEF Load, Session!ANext, Session!Start
<1>2. CASE PollOngoingTasks
  <2>1. SessionOf = "waiting" /\ SessionOf' = "fetching"
    BY <1>2 DEF PollOngoingTasks, SessionOf
  <2>2. QED
    BY <1>2, <2>1 DEF PollOngoingTasks, Session!ANext, Session!Fire
<1>3. CASE \E data \in Responses : PollSucceeds(data)
  <2>1. PICK data \in Responses : PollSucceeds(data)
    BY <1>3
  <2>2. inflight = 1 /\ timers = 0 /\ loaded /\ loaded'
    BY <2>1 DEF PollSucceeds
  <2>3. SessionOf = "fetching"
    BY <2>2 DEF SessionOf
  <2>0. NewCount(data) = tasks
    BY <2>1 DEF NewCount, Responses
  <2>4. inflight' = 0 /\ timers' = IF tasks > 0 THEN 1 ELSE 0
    BY <2>0, <2>1, <2>2 DEF PollSucceeds
  <2>5. SessionOf' = IF tasks > 0 THEN "waiting" ELSE "stopped"
    BY <2>2, <2>4 DEF SessionOf
  <2>6. lastResp' = tasks /\ tasks' = tasks
    BY <2>0, <2>1 DEF PollSucceeds
  <2>7. QED
    BY <2>3, <2>5, <2>6 DEF Session!ANext, Session!Answer
<1>4. CASE PollFails
  <2>1. SessionOf = "fetching" /\ SessionOf' = "waiting"
    BY <1>4 DEF PollFails, SessionOf
  <2>2. QED
    BY <1>4, <2>1 DEF PollFails, Session!ANext, Session!Fail
<1>5. CASE \E r \in Regions : ClickToggle(r)
  BY <1>5 DEF ClickToggle, Session!avars, SessionOf
<1>6. CASE TaskFinishes
  BY <1>6 DEF TaskFinishes, Session!ANext, Session!Finish, SessionOf
<1>7. CASE UNCHANGED vars
  BY <1>7 DEF vars, Session!avars, SessionOf
<1>8. QED
  BY <1>1, <1>2, <1>3, <1>4, <1>5, <1>6, <1>7 DEF Next

(***************************************************************************)
(* For every MaxTasks, against a server that always sends its count, the  *)
(* poller implements the safety part of the session: it starts unloaded, *)
(* and every step is a Start, Fire, Answer, Fail or Finish of the         *)
(* session, or leaves the session unchanged.                               *)
(***************************************************************************)
THEOREM SessionRefinement ==
    ASSUME OngoingForms = {"count"}
    PROVE  Spec => Session!Init /\ [][Session!ANext]_Session!avars
<1>1. Spec => []IInv
  BY IInvInit, IInvStep, PTL DEF Spec
<1>2. IInv /\ [Next]_vars => [Session!ANext]_Session!avars
  BY SessionStep
<1>3. QED
  BY <1>1, <1>2, SessionInit, PTL DEF Spec

=============================================================================
