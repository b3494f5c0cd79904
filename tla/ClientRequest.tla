--------------------------- MODULE ClientRequest ---------------------------
(***************************************************************************)
(* The hooks useClientRequest and useClientRequestWithPolling: a page      *)
(* sends one request at a time, and a second one some time after the       *)
(* answer to the first as long as shouldPoll holds of what it has.         *)
(*                                                                         *)
(* An answer renders the page at once; the effect that copies the new      *)
(* state to retRef runs later, but before the next render.  Whether        *)
(* afterRequest, which follows the render, already sees it depends on what *)
(* else the render caused, so both are possible here.                      *)
(***************************************************************************)
EXTENDS Naturals, Sequences, SequencesExt

CONSTANTS
    NoData,         \* data before the first answer
    ShouldPoll(_)   \* the option shouldPoll, of data

VARIABLES
    mounted,    \* "new", "yes" or "gone"
    running,    \* cancelTokenSource.current is set
    calls,      \* requests on their way: what was answered, if anything yet
    state,      \* isLoading, data, error
    retRef,     \* the state the last effects copied
    timer,      \* pollingTimer.current is set
    live        \* timeouts the browser holds for this page

Waiting == [status |-> "sent"]
Replied(d) == [status |-> "replied", data |-> d]
Failed == [status |-> "failed"]

Fresh == [isLoading |-> TRUE, data |-> NoData, error |-> FALSE]

RequestInit ==
    /\ mounted = "new"
    /\ running = FALSE
    /\ calls = <<>>
    /\ state = Fresh /\ retRef = Fresh
    /\ timer = FALSE /\ live = 0

(* The effect of every render. *)
FlushEffects ==
    /\ mounted = "yes" /\ retRef # state
    /\ retRef' = state
    /\ UNCHANGED <<mounted, running, calls, state, timer, live>>

(* cancelNextPoll, given the timeouts that have not fired: clearing one    *)
(* that has fired does nothing.                                            *)
CancelNextPoll(armed) ==
    /\ timer' = FALSE
    /\ live' = IF timer /\ armed > 0 THEN armed - 1 ELSE armed

Sending(s) == [isLoading |-> TRUE, data |-> s.data, error |-> FALSE]

(* sendRequest of a mounted page, up to its await. *)
SendRequest(armed) ==
    /\ ~running
    /\ CancelNextPoll(armed)
    /\ running' = TRUE
    /\ retRef' = state
    /\ state' = Sending(state)
    /\ calls' = Append(calls, Waiting)

(* The effects of the first render send the first request. *)
Mount ==
    /\ mounted = "new"
    /\ mounted' = "yes"
    /\ SendRequest(live)

(* The timeout fires: sendRequest, then the reference is dropped. *)
PollFires ==
    /\ live > 0
    /\ IF running
         THEN /\ timer' = FALSE /\ live' = live - 1
              /\ UNCHANGED <<running, calls, state, retRef>>
         ELSE SendRequest(live - 1)
    /\ UNCHANGED mounted

(* The server answers a request with data, or fails it. *)
Reply(i, d) ==
    /\ calls[i] = Waiting
    /\ calls' = [calls EXCEPT ![i] = Replied(d)]
    /\ UNCHANGED <<mounted, running, state, retRef, timer, live>>

Fail(i) ==
    /\ calls[i] = Waiting
    /\ calls' = [calls EXCEPT ![i] = Failed]
    /\ UNCHANGED <<mounted, running, state, retRef, timer, live>>

(* A variant that takes no data yet for nothing to poll. *)
TriggerPollOnData(ret) == ~ret.error /\ ret.data # NoData /\ ShouldPoll(ret.data)

(* What afterRequest decides from the copy of the state. *)
TriggerPoll(ret) == ~ret.error /\ (ret.data = NoData \/ ShouldPoll(ret.data))

ScheduleAnyway(ret) ==
    IF TriggerPoll(ret)
      THEN timer' = TRUE /\ live' = live + 1
      ELSE UNCHANGED <<timer, live>>

(* scheduleNextPoll: one timeout at most, none once unmounted. *)
ScheduleNextPoll(ret) ==
    IF TriggerPoll(ret) /\ ~timer /\ mounted = "yes"
      THEN timer' = TRUE /\ live' = live + 1
      ELSE UNCHANGED <<timer, live>>

(* The state after an answer: error and data replace each other. *)
Settled(call) ==
    IF call.status = "replied"
      THEN [isLoading |-> FALSE, data |-> call.data, error |-> FALSE]
      ELSE [isLoading |-> FALSE, data |-> NoData, error |-> TRUE]

(* sendRequest after its await.  Only a mounted page is rendered. *)
Receive(i) ==
    /\ calls[i] # Waiting
    /\ calls' = RemoveAt(calls, i)
    /\ state' = IF mounted = "yes" THEN Settled(calls[i]) ELSE state
    /\ retRef' \in IF mounted = "yes" THEN {state, state'} ELSE {retRef}
    /\ running' = FALSE
    /\ ScheduleNextPoll(retRef')
    /\ UNCHANGED mounted

(* The page is left.  Cancelling rejects the request in flight. *)
Unmount ==
    /\ mounted = "yes"
    /\ mounted' = "gone"
    /\ calls' = IF running THEN [i \in DOMAIN calls |-> Failed] ELSE calls
    /\ running' = FALSE
    /\ CancelNextPoll(live)
    /\ UNCHANGED <<state, retRef>>

-----------------------------------------------------------------------------
(* The reference knows every timeout the browser holds, and a page that    *)
(* was left holds none.                                                    *)
NoStrayTimer == live = (IF timer THEN 1 ELSE 0) /\ (mounted = "gone" => live = 0)

(* Polling goes on while the page shows something unfinished: either a     *)
(* request or a timeout is there, although the decision to poll may be     *)
(* taken on the state before the answer.                                   *)
PollingContinues ==
    mounted = "yes" /\ ~state.error
        /\ (state.data = NoData \/ ShouldPoll(state.data))
    => running \/ timer
=============================================================================
