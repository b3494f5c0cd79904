---------------------------- MODULE AutoRefresh ----------------------------
(***************************************************************************)
(* AutoRefreshButton of the web UI: a countdown kept by one-second         *)
(* timeouts that an effect arms again after a render.  interval and        *)
(* disabled are its properties, which the page around it changes.          *)
(*                                                                         *)
(* React runs the effects of a render before the next event, so a step     *)
(* that renders leaves the effects pending (ran differs from Deps), and    *)
(* every other step waits for ButtonEffects.                               *)
(***************************************************************************)
EXTENDS Naturals

VARIABLES
    interval,   \* seconds, 0 for "Off"
    disabled,   \* prop `disabled`
    remaining,  \* state `remaining`
    timer,      \* the live timeout: the values its callback closed over
    ran         \* the dependencies with which the effects ran last

NoTimer == [armed |-> FALSE]
Timer(r, i) == [armed |-> TRUE, remaining |-> r, interval |-> i]

Deps == [interval |-> interval, disabled |-> disabled, remaining |-> remaining]
Pending == ran # Deps

NotRun == [none |-> TRUE]

(* First render: nothing has run yet. *)
ButtonInit ==
    /\ remaining = 0
    /\ timer = NoTimer
    /\ ran = NotRun

(* The first effect acts when the interval is a new one.  It keeps the     *)
(* countdown when it is shorter than the new interval.                     *)
IntervalChanged == ran = NotRun \/ ran.interval # interval

RemainingKept == remaining

RemainingAfterChange ==
    IF remaining > interval \/ remaining = 0 THEN interval ELSE remaining

(* A variant that leaves a timeout alone when the button goes off or is    *)
(* disabled, and one that arms none after a pause.                         *)
ArmedStays == IF interval = 0 \/ disabled THEN timer ELSE Timer(remaining, interval)
ArmedOnceOnly ==
    IF interval = 0 \/ disabled \/ (ran # NotRun /\ ran.disabled) THEN NoTimer
    ELSE Timer(remaining, interval)

(* The second effect, after the clean-up of the previous one. *)
ArmedTimer ==
    IF interval = 0 \/ disabled THEN NoTimer ELSE Timer(remaining, interval)

(* Both effects of a render: the countdown is adjusted to a new interval,  *)
(* and a timeout is armed unless the button is off or disabled.            *)
ButtonEffects ==
    /\ Pending
    /\ ran' = Deps
    /\ timer' = ArmedTimer
    /\ remaining' = IF IntervalChanged THEN RemainingAfterChange ELSE remaining

(* resetTimer: the timeout is cleared and the countdown starts again.  A   *)
(* setRemaining with the value it already has renders nothing.             *)
ResetTimer == timer' = NoTimer /\ remaining' = interval

(* handleRefresh, which a disabled button ignores; the page's onRefresh    *)
(* comes with it.                                                          *)
HandleRefresh ==
    /\ ~disabled
    /\ ResetTimer
    /\ UNCHANGED ran

(* The timeout fires: it counts down, or it refreshes at the end. *)
TickCounts ==
    /\ timer.armed /\ timer.remaining # 0
    /\ timer' = NoTimer
    /\ remaining' = remaining - 1
    /\ UNCHANGED ran

TickRefreshes ==
    /\ timer.armed /\ timer.remaining = 0
    /\ HandleRefresh

-----------------------------------------------------------------------------
(* Once effects have run, the countdown lies within the interval, so that  *)
(* the progress circle drawn from 1 - remaining / interval is between 0    *)
(* and 1, whatever the order of clicks, menu choices and loads.            *)
ProgressInRange == ~Pending /\ interval # 0 => remaining \in 0..interval

(* A button that is neither off nor disabled holds one timeout, which      *)
(* closed over the current countdown and interval; one that is off or      *)
(* disabled holds none.  Nothing else stops the auto refresh, and an old   *)
(* callback never acts on a newer countdown.                               *)
TimerIsCurrent ==
    ~Pending => timer = IF interval = 0 \/ disabled THEN NoTimer
                        ELSE Timer(remaining, interval)
=============================================================================
