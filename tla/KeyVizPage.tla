---------------------------- MODULE KeyVizPage ----------------------------
(***************************************************************************)
(* The page of the key visualizer (KeyViz with its toolbar, the chart's    *)
(* brush and the settings form).  It asks for a heatmap whenever what the  *)
(* user looks at changes; requests overlap and are answered in any order,  *)
(* and all of them share one loading flag.                                 *)
(*                                                                         *)
(* Values kept with useGetSet change at once; an effect on them runs after *)
(* the render and before the next event.                                   *)
(***************************************************************************)
EXTENDS Naturals, Sequences, SequencesExt

CONSTANTS
    Metrics, Ranges, Zooms,     \* metric types, durations, brushed ranges
    Intervals,                  \* of the auto refresh, in seconds; 0 is "Off"
    ShowSetting,                \* cfg.showSetting
    MaxFlights                  \* bound on heatmap requests on their way

ASSUME KeyVizAssumption ==
    /\ 0 \in Intervals /\ Intervals \subseteq Nat
    /\ ShowSetting \in BOOLEAN
    /\ MaxFlights \in Nat

VARIABLES
    metric, range,
    zoom,       \* selection: a set of at most one brushed range
    auto,       \* autoRefreshSeconds
    onBrush,    \* the button is shown pressed
    config,     \* "none", "on" or "off"
    changed,    \* dependencies that changed: "auto", "view"
    flights,    \* heatmap requests in the order they were sent
    asks,       \* a request for the configuration is on its way
    server,     \* the setting of the server, "on" or "off"
    chart,      \* views in chartState: a set of at most one
    brushing,   \* isBrushing of the chart
    inits,      \* a chart is being built
    loading,    \* isLoading
    outdated    \* the newest request failed or an older one came after it

pageVars == <<metric, range, zoom, auto, onBrush, config, changed, flights, asks,
              server, chart, brushing, inits, loading, outdated>>

(* What the user looks at: getSelection() || getDateRange(). *)
View(z, r, m) == [span |-> IF z = {} THEN {r} ELSE z, metric |-> m]
view == View(zoom, range, metric)

enabled == config # "off"
Quiet == changed = {}

PageInit ==
    /\ metric \in Metrics /\ range \in Ranges /\ zoom = {}
    /\ auto = 0 /\ onBrush = FALSE
    /\ config = "none"
    /\ changed = {"auto", "view"}
    /\ flights = <<>>
    /\ asks = ShowSetting
    /\ server \in {"on", "off"}
    /\ chart = {} /\ brushing = FALSE /\ inits = FALSE
    /\ loading = TRUE
    /\ outdated = FALSE

Flight(v, n) == [view |-> v, newest |-> n]
Aged == [i \in DOMAIN flights |-> Flight(flights[i].view, FALSE)]

(* updateHeatmap up to its await. *)
UpdateHeatmap ==
    /\ loading' = TRUE
    /\ onBrush' = FALSE
    /\ flights' = Append(Aged, Flight(View(zoom', range, metric), TRUE))

(* The effects of a render: auto refresh leaves the zoom, then a view that *)
(* changed is asked for.                                                   *)
RunEffects ==
    /\ ~Quiet
    /\ LET reset == auto > 0 /\ "auto" \in changed
       IN /\ zoom' = IF reset THEN {} ELSE zoom
          /\ IF "view" \in changed /\ enabled
               THEN UpdateHeatmap
               ELSE /\ onBrush' = (onBrush /\ ~reset)
                    /\ UNCHANGED <<loading, flights>>
    /\ changed' = IF zoom' # zoom THEN {"view"} ELSE {}
    /\ UNCHANGED <<metric, range, auto, config, asks, server, chart, brushing,
                   inits, outdated>>

-----------------------------------------------------------------------------
(* The user. *)

Fits == Len(flights) < MaxFlights

(* A step of the toolbar or the chart of an enabled page. *)
Handler ==
    /\ Quiet /\ enabled /\ Fits
    /\ UNCHANGED <<config, asks, server, chart, inits, outdated>>

Changes(what, is) == IF is THEN {what} ELSE {}

OnChangeMetric(m) ==
    /\ Handler
    /\ metric' = m
    /\ changed' = Changes("view", m # metric)
    /\ UNCHANGED <<range, zoom, auto, onBrush, flights, brushing, loading>>

(* A duration, the same one with onResetZoom. *)
OnChangeDateRange(r) ==
    /\ Handler
    /\ range' = r /\ zoom' = {}
    /\ changed' = Changes("view", r # range \/ zoom # {})
    /\ UNCHANGED <<metric, auto, onBrush, flights, brushing, loading>>

(* The button; without a chart the handler fails after the first two. *)
OnToggleBrush ==
    /\ Handler
    /\ auto' = 0
    /\ onBrush' = ~onBrush
    /\ brushing' = (chart # {} /\ ~onBrush)
    /\ changed' = Changes("auto", auto # 0)
    /\ UNCHANGED <<metric, range, zoom, flights, loading>>

(* The variant of onBrush that leaves the auto refresh on. *)
BrushKeepsAuto(z) ==
    /\ onBrush' = FALSE
    /\ zoom' = z
    /\ changed' = {"view"}
    /\ UNCHANGED auto

(* The variant without getSelection() among the dependencies. *)
BrushUnseen(z) ==
    /\ onBrush' = FALSE
    /\ auto' = 0
    /\ zoom' = z
    /\ changed' = Changes("auto", auto # 0)

(* onBrush: each brushed range is a new object. *)
OnBrush(z) ==
    /\ onBrush' = FALSE
    /\ auto' = 0
    /\ zoom' = z
    /\ changed' = Changes("auto", auto # 0) \cup {"view"}

(* The chart's brush ends: on a range, or on nothing. *)
BrushEnd ==
    /\ Handler
    /\ brushing /\ ~inits /\ brushing' = FALSE
    /\ \/ \E z \in Zooms : OnBrush({z})
       \/ UNCHANGED <<onBrush, auto, zoom, changed>>
    /\ UNCHANGED <<metric, range, flights, loading>>

(* onZoom, the wheel. *)
OnZoom ==
    /\ Handler
    /\ chart # {}
    /\ auto' = 0
    /\ changed' = Changes("auto", auto # 0)
    /\ UNCHANGED <<metric, range, zoom, onBrush, flights, brushing, loading>>

(* An entry of the menu of the auto refresh. *)
OnChangeAutoRefresh(a) ==
    /\ Handler
    /\ auto' = a
    /\ changed' = Changes("auto", a # auto)
    /\ UNCHANGED <<metric, range, zoom, onBrush, flights, brushing, loading>>

(* The button's onRefresh, which it only calls when it is not disabled. *)
OnRefresh ==
    /\ Handler
    /\ ~loading
    /\ zoom' = zoom
    /\ UpdateHeatmap
    /\ UNCHANGED <<metric, range, auto, changed, brushing>>

(* The settings form is submitted, the server accepts, and                 *)
(* updateServiceStatus asks for the configuration.                         *)
SubmitSetting(s) ==
    /\ ShowSetting /\ Quiet /\ ~asks /\ Fits
    /\ server' = s
    /\ asks' = TRUE
    /\ loading' = TRUE
    /\ UNCHANGED <<metric, range, zoom, auto, onBrush, config, changed, flights,
                   chart, brushing, inits, outdated>>

-----------------------------------------------------------------------------
(* Answers. *)

(* Each configuration is a new object, so the view counts as changed.  A   *)
(* disabled page has no chart; an enabled one builds it again.             *)
ConfigAnswer ==
    /\ asks /\ Quiet /\ Fits
    /\ asks' = FALSE
    /\ config' = server
    /\ inits' = (inits \/ (~enabled /\ server = "on" /\ chart # {}))
    /\ brushing' = (brushing /\ server = "on")
    /\ changed' = {"view"}
    /\ loading' = FALSE
    /\ UNCHANGED <<metric, range, zoom, auto, onBrush, flights, server, chart,
                   outdated>>

ConfigFails ==
    /\ asks /\ Quiet
    /\ asks' = FALSE
    /\ loading' = FALSE
    /\ UNCHANGED <<metric, range, zoom, auto, onBrush, config, changed, flights,
                   server, chart, brushing, inits, outdated>>

HeatmapAnswer(i) ==
    /\ Quiet /\ ~inits
    /\ flights' = RemoveAt(flights, i)
    /\ chart' = {flights[i].view}
    /\ outdated' = ~flights[i].newest
    /\ inits' = enabled
    /\ loading' = FALSE
    /\ UNCHANGED <<metric, range, zoom, auto, onBrush, config, changed, asks,
                   server, brushing>>

(* The variant without the finally. *)
FailsSilently(i) ==
    /\ Quiet
    /\ flights' = RemoveAt(flights, i)
    /\ outdated' = (outdated \/ flights[i].newest)
    /\ UNCHANGED <<metric, range, zoom, auto, onBrush, config, changed, asks,
                   server, chart, brushing, inits, loading>>

HeatmapFails(i) ==
    /\ Quiet
    /\ flights' = RemoveAt(flights, i)
    /\ outdated' = (outdated \/ flights[i].newest)
    /\ loading' = FALSE
    /\ UNCHANGED <<metric, range, zoom, auto, onBrush, config, changed, asks,
                   server, chart, brushing, inits>>

(* onChartInit, of a chart that is not brushing. *)
OnChartInit ==
    /\ inits /\ Quiet
    /\ inits' = FALSE
    /\ brushing' = FALSE
    /\ loading' = FALSE
    /\ UNCHANGED <<metric, range, zoom, auto, onBrush, config, changed, flights,
                   asks, server, chart, outdated>>

Answer ==
    \/ ConfigAnswer \/ ConfigFails
    \/ \E i \in DOMAIN flights : HeatmapAnswer(i) \/ HeatmapFails(i)

(* Everything but the effects and a refresh. *)
PageStep ==
    \/ \E m \in Metrics : OnChangeMetric(m)
    \/ \E r \in Ranges : OnChangeDateRange(r)
    \/ OnToggleBrush \/ BrushEnd \/ OnZoom
    \/ \E a \in Intervals : OnChangeAutoRefresh(a)
    \/ \E s \in {"on", "off"} : SubmitSetting(s)
    \/ Answer
    \/ OnChartInit

-----------------------------------------------------------------------------
(* The auto refresh never runs on a zoomed or half-brushed view: whichever *)
(* handlers ran, once effects have run it goes with the full range.        *)
AutoShowsFullRange == Quiet /\ auto > 0 => zoom = {} /\ ~onBrush

(* Once every request is answered, an enabled page shows the heatmap of    *)
(* the view the toolbar names, unless the newest request failed or an      *)
(* older one came after it.                                                *)
ShowsTheView ==
    Quiet /\ enabled /\ flights = <<>> /\ ~asks /\ ~outdated => chart = {view}

(* A page that says it is loading waits for an answer, so that the shared  *)
(* flag never disables the refresh for good.                               *)
SpinnerEnds == Quiet /\ loading => flights # <<>> \/ asks
=============================================================================
