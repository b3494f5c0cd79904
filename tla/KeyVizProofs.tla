---------------------------- MODULE KeyVizProofs ----------------------------
(***************************************************************************)
(* Proofs about the key visualizer's page and its auto-refresh button, for *)
(* every set of metrics, durations, brushed ranges and intervals and every *)
(* number of overlapping requests.                                         *)
(***************************************************************************)
EXTENDS KeyVizRefresh, SequenceLemmas, TLAPS

Views == [span : SUBSET (Ranges \cup Zooms), metric : Metrics]
Flights == [view : Views, newest : BOOLEAN]

(* The types the proofs need. *)
Types ==
    /\ metric \in Metrics /\ range \in Ranges /\ zoom \in SUBSET Zooms
    /\ auto \in Intervals
    /\ onBrush \in BOOLEAN /\ loading \in BOOLEAN /\ outdated \in BOOLEAN
    /\ asks \in BOOLEAN
    /\ changed \in SUBSET {"auto", "view"}
    /\ flights \in Seq(Flights)

(* AutoShowsFullRange between the events: only a pending effect of the     *)
(* auto refresh may still have a zoom to leave.                            *)
AutoInv == auto > 0 /\ "auto" \notin changed => zoom = {} /\ ~onBrush

(* SpinnerEnds between the events. *)
SpinInv == loading => flights # <<>> \/ asks \/ ("view" \in changed /\ enabled)

(* ShowsTheView while requests are on their way: the newest one, if any,   *)
(* asks for the current view, and without one the chart shows it.          *)
NewestInFlight == \E i \in DOMAIN flights : flights[i].newest
NewestAsksView == \A i \in DOMAIN flights : flights[i].newest => flights[i].view = view
ViewInv ==
    enabled /\ "view" \notin changed =>
        /\ NewestAsksView
        /\ NewestInFlight \/ outdated \/ chart = {view}

PageInv == Types /\ AutoInv /\ SpinInv /\ ViewInv

-----------------------------------------------------------------------------
(* What updateHeatmap makes of the requests on their way: the new one is   *)
(* the newest and asks for the view.                                       *)
LEMMA UpdateHeatmapFacts ==
    ASSUME Types, UpdateHeatmap, zoom' \in SUBSET Zooms,
           metric' = metric, range' = range
    PROVE  /\ flights' \in Seq(Flights) /\ flights' # <<>>
           /\ NewestAsksView' /\ NewestInFlight'
  <1> DEFINE new == Flight(View(zoom', range, metric), TRUE)
             n == Len(flights)
  <1>1. n \in Nat /\ DOMAIN flights = 1..n
    BY DEF Types
  <1>2. \A i \in 1..n : flights[i] \in Flights
    BY <1>1 DEF Types
  <1>3. /\ Aged \in Seq(Flights) /\ Len(Aged) = n
        /\ \A i \in 1..n : Aged[i].newest = FALSE
    <2>1. \A i \in 1..n : Flight(flights[i].view, FALSE) \in Flights
      BY <1>2 DEF Flights, Flight
    <2>2. Aged = [i \in 1..n |-> Flight(flights[i].view, FALSE)]
      BY <1>1 DEF Aged
    <2>3. Aged \in [1..n -> Flights]
      BY <2>1, <2>2
    <2>4. \A i \in 1..n : Aged[i].newest = FALSE
      BY <2>2 DEF Flight
    <2> QED
      BY <1>1, <2>3, <2>4
  <1>4. new \in Flights
    <2>1. View(zoom', range, metric) \in Views
      BY DEF View, Views, Types
    <2> QED
      BY <2>1 DEF Flights, Flight
  <1>5. flights' = Append(Aged, new)
    BY DEF UpdateHeatmap
  <1>6. new.newest /\ new.view = view'
    BY DEF view, Flight
  <1> HIDE DEF new, n
  <1>7. /\ flights' \in Seq(Flights) /\ Len(flights') = n + 1
        /\ DOMAIN flights' = 1..(n + 1)
        /\ \A i \in 1..n : flights'[i] = Aged[i]
        /\ flights'[n + 1] = new
    BY <1>1, <1>3, <1>4, <1>5
  <1>8. flights' # <<>>
    BY <1>1, <1>7
  <1>9. \A i \in DOMAIN flights' : flights'[i].newest => flights'[i].view = view'
    <2> SUFFICES ASSUME NEW i \in 1..(n + 1), flights'[i].newest
                 PROVE  flights'[i].view = view'
      BY <1>7
    <2>1. i = n + 1
      BY <1>1, <1>3, <1>7
    <2> QED
      BY <1>6, <1>7, <2>1
  <1>10. n + 1 \in DOMAIN flights' /\ flights'[n + 1].newest
    BY <1>1, <1>6, <1>7
  <1> QED
    BY <1>7, <1>8, <1>9, <1>10 DEF NewestAsksView, NewestInFlight
-----------------------------------------------------------------------------
(* A step that leaves the requests, the chart and the setting alone keeps  *)
(* what ViewInv says as long as the view is the same.                      *)
LEMMA ViewInvKept ==
    ASSUME ViewInv, enabled' => enabled, view' = view \/ "view" \in changed',
           "view" \notin changed,
           UNCHANGED <<flights, chart, outdated>>
    PROVE  ViewInv'
  BY DEF ViewInv, NewestAsksView, NewestInFlight

(* The handlers of the toolbar and of the chart. *)
LEMMA HandlerSteps ==
    ASSUME PageInv,
           \/ \E m \in Metrics : OnChangeMetric(m)
           \/ \E r \in Ranges : OnChangeDateRange(r)
           \/ OnToggleBrush \/ BrushEnd \/ OnZoom
           \/ \E a \in Intervals : OnChangeAutoRefresh(a)
    PROVE  PageInv'
  <1> USE DEF Handler, Changes, Quiet, PageInv
  <1>1. CASE \E m \in Metrics : OnChangeMetric(m)
    <2>1. Types' /\ AutoInv' /\ SpinInv'
      BY <1>1 DEF OnChangeMetric, Types, AutoInv, SpinInv, enabled
    <2>2. ViewInv'
      <3>1. view' = view \/ "view" \in changed'
        BY <1>1 DEF OnChangeMetric, view
      <3>2. (enabled' => enabled) /\ "view" \notin changed
            /\ UNCHANGED <<flights, chart, outdated>>
        BY <1>1 DEF OnChangeMetric, enabled
      <3> QED
        BY <3>1, <3>2, ViewInvKept
    <2> QED
      BY <2>1, <2>2
  <1>2. CASE \E r \in Ranges : OnChangeDateRange(r)
    <2>1. Types' /\ AutoInv' /\ SpinInv'
      BY <1>2 DEF OnChangeDateRange, Types, AutoInv, SpinInv, enabled
    <2>2. ViewInv'
      <3>1. view' = view \/ "view" \in changed'
        BY <1>2 DEF OnChangeDateRange, view
      <3>2. (enabled' => enabled) /\ "view" \notin changed
            /\ UNCHANGED <<flights, chart, outdated>>
        BY <1>2 DEF OnChangeDateRange, enabled
      <3> QED
        BY <3>1, <3>2, ViewInvKept
    <2> QED
      BY <2>1, <2>2
  <1>3. CASE OnToggleBrush
    <2>1. Types' /\ AutoInv' /\ SpinInv'
      BY <1>3, KeyVizAssumption DEF OnToggleBrush, Types, AutoInv, SpinInv, enabled
    <2>2. ViewInv'
      <3>1. (enabled' => enabled) /\ "view" \notin changed /\ view' = view
            /\ UNCHANGED <<flights, chart, outdated>>
        BY <1>3 DEF OnToggleBrush, enabled, view
      <3> QED
        BY <3>1, ViewInvKept
    <2> QED
      BY <2>1, <2>2
  <1>4. CASE BrushEnd
    <2>1. Types' /\ AutoInv' /\ SpinInv'
      <3>1. CASE \E z \in Zooms : OnBrush({z})
        <4>1. /\ onBrush' = FALSE /\ auto' = 0 /\ zoom' \in SUBSET Zooms
              /\ changed' \in SUBSET {"auto", "view"}
          BY <3>1 DEF OnBrush
        <4>2. /\ changed = {} /\ enabled
              /\ UNCHANGED <<config, asks, outdated, metric, range, flights, loading>>
          BY <1>4 DEF BrushEnd
        <4>3. Types'
          BY <4>1, <4>2, KeyVizAssumption DEF Types
        <4>4. AutoInv' /\ SpinInv'
          BY <4>1, <4>2 DEF AutoInv, SpinInv
        <4> QED
          BY <4>3, <4>4
      <3>2. CASE UNCHANGED <<onBrush, auto, zoom, changed>>
        BY <1>4, <3>2 DEF BrushEnd, Types, AutoInv, SpinInv, enabled
      <3> QED
        BY <1>4, <3>1, <3>2 DEF BrushEnd
    <2>2. ViewInv'
      <3>1. view' = view \/ "view" \in changed'
        BY <1>4 DEF BrushEnd, OnBrush, view
      <3>2. (enabled' => enabled) /\ "view" \notin changed
            /\ UNCHANGED <<flights, chart, outdated>>
        BY <1>4 DEF BrushEnd, enabled
      <3> QED
        BY <3>1, <3>2, ViewInvKept
    <2> QED
      BY <2>1, <2>2
  <1>5. CASE OnZoom
    <2>1. Types' /\ AutoInv' /\ SpinInv'
      BY <1>5, KeyVizAssumption DEF OnZoom, Types, AutoInv, SpinInv, enabled
    <2>2. ViewInv'
      <3>1. (enabled' => enabled) /\ "view" \notin changed /\ view' = view
            /\ UNCHANGED <<flights, chart, outdated>>
        BY <1>5 DEF OnZoom, enabled, view
      <3> QED
        BY <3>1, ViewInvKept
    <2> QED
      BY <2>1, <2>2
  <1>6. CASE \E a \in Intervals : OnChangeAutoRefresh(a)
    <2>1. Types' /\ AutoInv' /\ SpinInv'
      BY <1>6 DEF OnChangeAutoRefresh, Types, AutoInv, SpinInv, enabled
    <2>2. ViewInv'
      <3>1. (enabled' => enabled) /\ "view" \notin changed /\ view' = view
            /\ UNCHANGED <<flights, chart, outdated>>
        BY <1>6 DEF OnChangeAutoRefresh, enabled, view
      <3> QED
        BY <3>1, ViewInvKept
    <2> QED
      BY <2>1, <2>2
  <1> QED
    BY <1>1, <1>2, <1>3, <1>4, <1>5, <1>6

(* The settings form, the answers about the configuration, and a chart     *)
(* that is ready.                                                          *)
LEMMA SettingSteps ==
    ASSUME PageInv,
           \/ \E s \in {"on", "off"} : SubmitSetting(s)
           \/ ConfigAnswer \/ ConfigFails \/ OnChartInit
    PROVE  PageInv'
  <1> USE DEF Quiet, PageInv
  <1>1. CASE \E s \in {"on", "off"} : SubmitSetting(s)
    <2>1. Types' /\ AutoInv' /\ SpinInv'
      BY <1>1 DEF SubmitSetting, Types, AutoInv, SpinInv
    <2>2. (enabled' => enabled) /\ "view" \notin changed /\ view' = view
          /\ UNCHANGED <<flights, chart, outdated>>
      BY <1>1 DEF SubmitSetting, enabled, view
    <2> QED
      BY <2>1, <2>2, ViewInvKept
  <1>2. CASE ConfigAnswer
    BY <1>2 DEF ConfigAnswer, Types, AutoInv, SpinInv, ViewInv
  <1>3. CASE ConfigFails
    <2>1. Types' /\ AutoInv' /\ SpinInv'
      BY <1>3 DEF ConfigFails, Types, AutoInv, SpinInv
    <2>2. (enabled' => enabled) /\ "view" \notin changed /\ view' = view
          /\ UNCHANGED <<flights, chart, outdated>>
      BY <1>3 DEF ConfigFails, enabled, view
    <2> QED
      BY <2>1, <2>2, ViewInvKept
  <1>4. CASE OnChartInit
    <2>1. Types' /\ AutoInv' /\ SpinInv'
      BY <1>4 DEF OnChartInit, Types, AutoInv, SpinInv
    <2>2. (enabled' => enabled) /\ "view" \notin changed /\ view' = view
          /\ UNCHANGED <<flights, chart, outdated>>
      BY <1>4 DEF OnChartInit, enabled, view
    <2> QED
      BY <2>1, <2>2, ViewInvKept
  <1> QED
    BY <1>1, <1>2, <1>3, <1>4

(* The answers to the requests, in any order. *)
LEMMA HeatmapSteps ==
    ASSUME PageInv, NEW i \in DOMAIN flights, HeatmapAnswer(i) \/ HeatmapFails(i)
    PROVE  PageInv'
  <1> USE DEF Quiet, PageInv
  <1>1. /\ flights' = RemoveAt(flights, i)
        /\ ~loading' /\ loading' \in BOOLEAN /\ changed = {} /\ changed' = {}
        /\ UNCHANGED <<metric, range, zoom, auto, onBrush, config, asks>>
        /\ \/ chart' = {flights[i].view} /\ outdated' = ~flights[i].newest
           \/ chart' = chart /\ outdated' = (outdated \/ flights[i].newest)
    BY DEF HeatmapAnswer, HeatmapFails
  <1>2. /\ flights' \in Seq(Flights)
        /\ \A k \in DOMAIN flights' : \E j \in DOMAIN flights : flights'[k] = flights[j]
        /\ \A j \in DOMAIN flights : j # i =>
             \E k \in DOMAIN flights' : flights'[k] = flights[j]
    BY <1>1, RemoveAtFacts DEF Types
  <1>3. outdated' \in BOOLEAN
    <2>1. flights[i] \in Flights
      BY DEF Types
    <2>2. flights[i].newest \in BOOLEAN
      BY <2>1 DEF Flights
    <2> QED
      BY <1>1, <2>2 DEF Types
  <1>4. Types' /\ AutoInv' /\ SpinInv'
    BY <1>1, <1>2, <1>3 DEF Types, AutoInv, SpinInv
  <1>5. ViewInv'
    <2> SUFFICES ASSUME enabled
                 PROVE  NewestAsksView' /\ (NewestInFlight' \/ outdated' \/ chart' = {view'})
      BY <1>1 DEF ViewInv, enabled
    <2>1. NewestAsksView /\ (NewestInFlight \/ outdated \/ chart = {view})
      BY <1>1 DEF ViewInv
    <2>2. view' = view
      BY <1>1 DEF view
    <2>3. NewestAsksView'
      BY <1>2, <2>1, <2>2 DEF NewestAsksView
    <2>4. CASE flights[i].newest
      <3>1. flights[i].view = view
        BY <2>1, <2>4 DEF NewestAsksView
      <3>2. chart' = {view} \/ outdated'
        BY <1>1, <2>4, <3>1
      <3> QED
        BY <2>2, <2>3, <3>2
    <2>5. CASE ~flights[i].newest
      <3>1. NewestInFlight => NewestInFlight'
        BY <1>2, <2>5 DEF NewestInFlight
      <3> QED
        BY <1>1, <2>1, <2>2, <2>3, <2>5, <3>1
    <2> QED
      BY <2>3, <2>4, <2>5
  <1> QED
    BY <1>4, <1>5

(* The effects of a render. *)
LEMMA EffectSteps ==
    ASSUME PageInv, RunEffects
    PROVE  PageInv'
  <1> USE DEF PageInv
  <1> DEFINE reset == auto > 0 /\ "auto" \in changed
             asking == "view" \in changed /\ enabled
  <1>1. /\ zoom' = (IF reset THEN {} ELSE zoom)
        /\ changed' = (IF zoom' # zoom THEN {"view"} ELSE {})
        /\ UNCHANGED <<metric, range, auto, config, asks, chart, outdated>>
    BY DEF RunEffects
  <1>2. zoom' \in SUBSET Zooms
    BY <1>1 DEF Types
  <1>3. CASE asking
    <2>1. UpdateHeatmap /\ loading' = TRUE /\ onBrush' = FALSE
      BY <1>3 DEF RunEffects, UpdateHeatmap
    <2>2. /\ flights' \in Seq(Flights) /\ flights' # <<>>
          /\ NewestAsksView' /\ NewestInFlight'
      BY <1>1, <1>2, <2>1, UpdateHeatmapFacts
    <2>3. Types'
      BY <1>1, <1>2, <2>1, <2>2 DEF Types
    <2>4. AutoInv'
      BY <1>1, <2>1 DEF AutoInv
    <2>5. SpinInv' /\ ViewInv'
      BY <2>2 DEF SpinInv, ViewInv
    <2> QED
      BY <2>3, <2>4, <2>5
  <1>4. CASE ~asking
    <2>1. onBrush' = (onBrush /\ ~reset) /\ UNCHANGED <<loading, flights>>
      BY <1>4 DEF RunEffects
    <2>2. Types'
      BY <1>1, <1>2, <2>1 DEF Types
    <2>3. AutoInv'
      BY <1>1, <2>1 DEF AutoInv
    <2>4. SpinInv'
      BY <1>1, <1>4, <2>1 DEF SpinInv
    <2>5. ViewInv'
      <3> SUFFICES ASSUME enabled', "view" \notin changed'
                   PROVE  ViewInv'
        BY DEF ViewInv
      <3>1. enabled /\ "view" \notin changed
        BY <1>1, <1>4 DEF enabled
      <3>2. view' = view
        BY <1>1 DEF view
      <3> QED
        BY <1>1, <2>1, <3>1, <3>2, ViewInvKept
    <2> QED
      BY <2>2, <2>3, <2>4, <2>5
  <1> QED
    BY <1>3, <1>4

(* A refresh, by a click or by the countdown. *)
LEMMA RefreshStep ==
    ASSUME PageInv, OnRefresh
    PROVE  PageInv'
  <1> USE DEF PageInv
  <1>1. /\ changed = {} /\ changed' = {}
        /\ UpdateHeatmap /\ loading' = TRUE /\ onBrush' = FALSE
        /\ UNCHANGED <<metric, range, zoom, auto, config, asks, chart, outdated>>
    BY DEF OnRefresh, Handler, UpdateHeatmap, Quiet
  <1>2. /\ flights' \in Seq(Flights) /\ flights' # <<>>
        /\ NewestAsksView' /\ NewestInFlight'
    BY <1>1, UpdateHeatmapFacts DEF Types
  <1>3. Types'
    BY <1>1, <1>2 DEF Types
  <1>4. AutoInv'
    BY <1>1 DEF AutoInv
  <1>5. SpinInv' /\ ViewInv'
    BY <1>2 DEF SpinInv, ViewInv
  <1> QED
    BY <1>3, <1>4, <1>5

LEMMA PageInvUnchanged == PageInv /\ UNCHANGED pageVars => PageInv'
  <1> SUFFICES ASSUME PageInv, UNCHANGED pageVars PROVE PageInv'
    OBVIOUS
  <1>1. Types'
    BY DEF pageVars, PageInv, Types
  <1>2. AutoInv' /\ SpinInv'
    BY DEF pageVars, PageInv, AutoInv, SpinInv, enabled
  <1>3. ViewInv'
    BY DEF pageVars, PageInv, ViewInv, NewestAsksView, NewestInFlight, enabled, view
  <1> QED
    BY <1>1, <1>2, <1>3 DEF PageInv

LEMMA PageInvInit == Init => PageInv
  <1> SUFFICES ASSUME Init PROVE PageInv
    OBVIOUS
  <1>1. Types
    <2>1. asks \in BOOLEAN
      BY KeyVizAssumption DEF Init, PageInit
    <2>2. auto \in Intervals /\ flights \in Seq(Flights)
      BY KeyVizAssumption DEF Init, PageInit
    <2> QED
      BY <2>1, <2>2 DEF Init, PageInit, Types
  <1>2. AutoInv /\ SpinInv /\ ViewInv
    BY DEF Init, PageInit, AutoInv, SpinInv, ViewInv, enabled
  <1> QED
    BY <1>1, <1>2 DEF PageInv

LEMMA PageInvNext == PageInv /\ [Next]_vars => PageInv'
  <1> SUFFICES ASSUME PageInv, [Next]_vars PROVE PageInv'
    OBVIOUS
  <1>1. CASE ParentEffects
    BY <1>1, EffectSteps DEF ParentEffects
  <1>2. CASE Click \/ TickRefreshes
    BY <1>2, RefreshStep DEF Click, TickRefreshes
  <1>3. CASE ChildEffects \/ TickCounts
    BY <1>3, PageInvUnchanged DEF ChildEffects, TickCounts
  <1>4. CASE PageEvent
    <2>1. PageStep
      BY <1>4 DEF PageEvent
    <2> QED
      BY <2>1, HandlerSteps, SettingSteps, HeatmapSteps DEF PageStep, Answer
  <1>5. CASE UNCHANGED vars
    BY <1>5, PageInvUnchanged DEF vars, pageVars
  <1> QED
    BY <1>1, <1>2, <1>3, <1>4, <1>5 DEF Next

(* The inductive invariant of the page. *)
THEOREM PageInvariant == Spec => []PageInv
  BY PageInvInit, PageInvNext, PTL DEF Spec

(* Whichever handlers ran, the auto refresh goes with the full range. *)
THEOREM AutoRefreshShowsFullRange == Spec => []AutoShowsFullRange
  <1>1. PageInv => AutoShowsFullRange
    BY DEF PageInv, AutoInv, AutoShowsFullRange, Quiet
  <1> QED
    BY <1>1, PageInvariant, PTL

(* However many requests overlap, and in whichever order they are          *)
(* answered or fail, an enabled page comes to rest on the heatmap of its   *)
(* view, unless its newest request failed or was overtaken.                *)
THEOREM PageShowsTheView == Spec => []ShowsTheView
  <1>1. PageInv => ShowsTheView
    <2> SUFFICES ASSUME PageInv, Quiet, enabled, flights = <<>>, ~outdated
                 PROVE  chart = {view}
      BY DEF ShowsTheView
    <2>1. ~NewestInFlight
      BY DEF NewestInFlight
    <2> QED
      BY <2>1 DEF PageInv, ViewInv, Quiet
  <1> QED
    BY <1>1, PageInvariant, PTL

(* The loading flag that all requests share is never left set for good. *)
THEOREM SpinnerWaits == Spec => []SpinnerEnds
  <1>1. PageInv => SpinnerEnds
    BY DEF PageInv, SpinInv, SpinnerEnds, Quiet
  <1> QED
    BY <1>1, PageInvariant, PTL

-----------------------------------------------------------------------------
(* The button.  While an effect is pending, its countdown lies within the  *)
(* interval with which the effects ran last.                               *)
CountInv ==
    ran # Button!NotRun /\ ran.interval = auto /\ auto # 0 => remaining \in 0..auto

ButtonInv == remaining \in Nat /\ CountInv /\ TimerIsCurrent

(* A render that changed a dependency leaves the effects pending. *)
LEMMA PendingAfterChange ==
    ASSUME ~Button!Pending, ran' = ran,
           \/ remaining' # remaining
           \/ buttonDisabled' # buttonDisabled
    PROVE  Button!Pending'
  BY DEF Button!Pending, Button!Deps

LEMMA QuietDeps ==
    ASSUME ~Button!Pending
    PROVE  ran # Button!NotRun /\ ran.interval = auto
  <1>1. ran = Button!Deps
    BY DEF Button!Pending
  <1>2. Button!Deps # Button!NotRun
    <2>1. "none" \in DOMAIN Button!NotRun
      BY DEF Button!NotRun
    <2>2. "none" \notin DOMAIN Button!Deps
      BY DEF Button!Deps
    <2> QED
      BY <2>1, <2>2
  <1> QED
    BY <1>1, <1>2 DEF Button!Deps

LEMMA ButtonInvInit == Init => ButtonInv
  <1> SUFFICES ASSUME Init PROVE ButtonInv
    OBVIOUS
  <1>1. remaining = 0 /\ ran = Button!NotRun
    BY DEF Init, Button!ButtonInit
  <1>2. Button!Pending
    BY <1>1, QuietDeps
  <1> QED
    BY <1>1, <1>2 DEF ButtonInv, CountInv, TimerIsCurrent, Button!TimerIsCurrent

LEMMA ChildEffectsStep ==
    ASSUME PageInv, ButtonInv, ChildEffects
    PROVE  ButtonInv'
  <1>1. /\ ran' = Button!Deps
        /\ timer' = Button!ArmedTimer
        /\ remaining' = (IF Button!IntervalChanged THEN Button!RemainingAfterChange
                         ELSE remaining)
    BY DEF ChildEffects, Button!ButtonEffects
  <1>2. auto' = auto /\ buttonDisabled' = buttonDisabled
    BY DEF ChildEffects, pageVars, buttonDisabled, enabled
  <1>3. auto \in Nat
    BY KeyVizAssumption DEF PageInv, Types
  <1>4. remaining' \in Nat
    BY <1>1, <1>3 DEF ButtonInv, Button!RemainingAfterChange
  <1>5. CountInv'
    <2> SUFFICES ASSUME auto # 0 PROVE remaining' \in 0..auto
      BY <1>2 DEF CountInv
    <2>1. CASE Button!IntervalChanged
      BY <1>1, <1>3, <2>1 DEF ButtonInv, Button!RemainingAfterChange
    <2>2. CASE ~Button!IntervalChanged
      BY <1>1, <2>2 DEF ButtonInv, CountInv, Button!IntervalChanged
    <2> QED
      BY <2>1, <2>2
  <1>6. TimerIsCurrent'
    <2> SUFFICES ASSUME ~Button!Pending'
                 PROVE  timer' = IF auto' = 0 \/ buttonDisabled' THEN Button!NoTimer
                                 ELSE Button!Timer(remaining', auto')
      BY DEF TimerIsCurrent, Button!TimerIsCurrent
    <2>1. remaining' = remaining
      BY <1>1 DEF Button!Pending, Button!Deps
    <2> QED
      BY <1>1, <1>2, <2>1 DEF Button!ArmedTimer
  <1> QED
    BY <1>4, <1>5, <1>6 DEF ButtonInv

(* Steps of the page around a button without a pending effect. *)
LEMMA AroundTheButton ==
    ASSUME ButtonInv, ~Button!Pending, UNCHANGED buttonVars
    PROVE  ButtonInv'
  <1>1. remaining' = remaining /\ timer' = timer /\ ran' = ran
    BY DEF buttonVars
  <1>2. ran # Button!NotRun /\ ran.interval = auto
    BY QuietDeps
  <1>3. CountInv'
    BY <1>1, <1>2 DEF ButtonInv, CountInv
  <1>4. TimerIsCurrent'
    <2> SUFFICES ASSUME ~Button!Pending'
                 PROVE  timer' = IF auto' = 0 \/ buttonDisabled' THEN Button!NoTimer
                                 ELSE Button!Timer(remaining', auto')
      BY DEF TimerIsCurrent, Button!TimerIsCurrent
    <2>1. auto' = auto /\ buttonDisabled' = buttonDisabled
      BY <1>1 DEF Button!Pending, Button!Deps
    <2>2. timer = IF auto = 0 \/ buttonDisabled THEN Button!NoTimer
                  ELSE Button!Timer(remaining, auto)
      BY DEF ButtonInv, TimerIsCurrent, Button!TimerIsCurrent
    <2> QED
      BY <1>1, <2>1, <2>2 DEF Button!Timer
  <1> QED
    BY <1>1, <1>3, <1>4 DEF ButtonInv

LEMMA RefreshOfButton ==
    ASSUME PageInv, ButtonInv, Click \/ TickRefreshes
    PROVE  ButtonInv'
  <1>1. /\ ~Button!Pending /\ ~buttonDisabled
        /\ remaining' = auto /\ ran' = ran
        /\ auto' = auto /\ loading' = TRUE
    BY DEF Click, TickRefreshes, Ready, Button!TickRefreshes, Button!HandleRefresh,
           Button!ResetTimer, OnRefresh, UpdateHeatmap
  <1>2. auto \in Nat
    BY KeyVizAssumption DEF PageInv, Types
  <1>3. buttonDisabled'
    BY <1>1 DEF buttonDisabled
  <1>4. Button!Pending'
    BY <1>1, <1>3, PendingAfterChange
  <1> QED
    BY <1>1, <1>2, <1>4 DEF ButtonInv, CountInv, TimerIsCurrent, Button!TimerIsCurrent

LEMMA CountOfButton ==
    ASSUME PageInv, ButtonInv, TickCounts
    PROVE  ButtonInv'
  <1>1. /\ ~Button!Pending
        /\ timer.armed /\ timer.remaining # 0
        /\ remaining' = remaining - 1 /\ ran' = ran
        /\ auto' = auto
    BY DEF TickCounts, Ready, Button!TickCounts, pageVars
  <1>2. remaining # 0
    <2>1. timer = Button!NoTimer \/ timer = Button!Timer(remaining, auto)
      BY <1>1 DEF ButtonInv, TimerIsCurrent, Button!TimerIsCurrent
    <2> QED
      BY <1>1, <2>1 DEF Button!NoTimer, Button!Timer
  <1>3. remaining' \in Nat /\ remaining' # remaining
    BY <1>1, <1>2 DEF ButtonInv
  <1>4. Button!Pending'
    BY <1>1, <1>3, PendingAfterChange
  <1>5. auto \in Nat
    BY KeyVizAssumption DEF PageInv, Types
  <1>6. CountInv'
    BY <1>1, <1>3, <1>5 DEF ButtonInv, CountInv
  <1> QED
    BY <1>3, <1>4, <1>6 DEF ButtonInv, TimerIsCurrent, Button!TimerIsCurrent

LEMMA ButtonInvNext == PageInv /\ ButtonInv /\ [Next]_vars => ButtonInv'
  <1> SUFFICES ASSUME PageInv, ButtonInv, [Next]_vars PROVE ButtonInv'
    OBVIOUS
  <1>1. CASE ParentEffects \/ PageEvent
    BY <1>1, AroundTheButton DEF ParentEffects, PageEvent, Ready
  <1>2. CASE UNCHANGED vars
    BY <1>2 DEF vars, ButtonInv, CountInv, TimerIsCurrent, Button!TimerIsCurrent,
                Button!Pending, Button!Deps, Button!Timer, buttonDisabled, enabled
  <1> QED
    BY <1>1, <1>2, ChildEffectsStep, RefreshOfButton, CountOfButton DEF Next

(* The inductive invariant of the button on its page. *)
THEOREM ButtonInvariant == Spec => []ButtonInv
  <1>1. Init => ButtonInv
    BY ButtonInvInit
  <1> QED
    BY <1>1, ButtonInvNext, PageInvariant, PTL DEF Spec

(* The countdown stays within its interval, for every set of intervals and *)
(* every order of clicks, menu choices, loads and timeouts.                *)
THEOREM CountdownInRange == Spec => []ProgressInRange
  <1>1. ButtonInv => ProgressInRange
    BY QuietDeps DEF ButtonInv, CountInv, ProgressInRange, Button!ProgressInRange
  <1> QED
    BY <1>1, ButtonInvariant, PTL

(* The timeout is there exactly when the button is on and not disabled,    *)
(* and it closed over the current countdown.                               *)
THEOREM TimeoutIsCurrent == Spec => []TimerIsCurrent
  <1>1. ButtonInv => TimerIsCurrent
    BY DEF ButtonInv
  <1> QED
    BY <1>1, ButtonInvariant, PTL
=============================================================================
