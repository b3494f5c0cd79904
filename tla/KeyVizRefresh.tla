--------------------------- MODULE KeyVizRefresh ---------------------------
(***************************************************************************)
(* The key visualizer's page with its AutoRefreshButton.  The page owns    *)
(* the interval and, through its loading flag, the button's disabled prop; *)
(* the button calls the page's updateHeatmap.                              *)
(***************************************************************************)
EXTENDS KeyVizPage

VARIABLES remaining, timer, ran

buttonVars == <<remaining, timer, ran>>
vars == <<metric, range, zoom, auto, onBrush, config, changed, flights, asks,
          server, chart, brushing, inits, loading, outdated,
          remaining, timer, ran>>

buttonDisabled == ~enabled \/ loading

Button == INSTANCE AutoRefresh WITH interval <- auto, disabled <- buttonDisabled

Init == PageInit /\ Button!ButtonInit

(* The effects of the button, the child, run before those of the page. *)
ChildEffects == Button!ButtonEffects /\ UNCHANGED pageVars

ParentEffects ==
    /\ ~Button!Pending
    /\ RunEffects
    /\ UNCHANGED buttonVars

(* Events wait for the effects. *)
Ready == Quiet /\ ~Button!Pending

Click == Ready /\ Button!HandleRefresh /\ OnRefresh

TickRefreshes == Ready /\ Button!TickRefreshes /\ OnRefresh

TickCounts == Ready /\ Button!TickCounts /\ UNCHANGED pageVars

PageEvent == Ready /\ PageStep /\ UNCHANGED buttonVars

Next ==
    \/ ChildEffects \/ ParentEffects
    \/ Click \/ TickRefreshes \/ TickCounts
    \/ PageEvent

Spec == Init /\ [][Next]_vars

(* The browser runs effects and timeouts, and every request ends; users do *)
(* as they like.                                                           *)
Fairness ==
    /\ WF_vars(ChildEffects) /\ WF_vars(ParentEffects)
    /\ WF_vars(TickRefreshes) /\ WF_vars(TickCounts)
    /\ WF_vars(Ready /\ Answer /\ UNCHANGED buttonVars)
    /\ WF_vars(Ready /\ OnChartInit /\ UNCHANGED buttonVars)

FairSpec == Spec /\ Fairness

-----------------------------------------------------------------------------
(* The countdown of the page's button stays within the interval the page   *)
(* gives it, also when a brush or the menu changes the interval under it.  *)
ProgressInRange == Button!ProgressInRange

(* The button's one timeout closed over the current countdown and          *)
(* interval, also when loads of the page disable and enable the button.    *)
TimerIsCurrent == Button!TimerIsCurrent

(* When its menu is left alone, a page whose auto refresh is on asks the   *)
(* server again and again, whatever the user brushes, zooms or clicks and  *)
(* however its loads overlap, unless collection is off.                    *)
KeepsRefreshing ==
    <>[][auto' = auto]_vars
        => []<>(auto = 0 \/ ~enabled \/ asks \/ flights # <<>>)
=============================================================================
