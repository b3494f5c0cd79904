------------------------ MODULE LogSearchPageProofs ------------------------
(***************************************************************************)
(* Proofs about the page of a log search, for every set of tasks and every *)
(* number of failing requests and retries.                                 *)
(***************************************************************************)
EXTENDS LogSearchPage, SequenceLemmas, TLAPS

TimerTypes == timer \in BOOLEAN /\ live \in Nat

TimerInv == TimerTypes /\ NoStrayTimer

(* sendRequest drops the timeout the page knows, if it has not fired. *)
LEMMA SendCancels ==
    ASSUME TimerTypes, NEW armed \in 0..1, armed = 1 => timer, SendRequest(armed)
    PROVE  timer' = FALSE /\ live' = 0
  BY DEF SendRequest, CancelNextPoll, TimerTypes

(* Without a timeout and without a reference to one all is well. *)
LEMMA NoTimeout == timer = FALSE /\ live = 0 => TimerInv
  <1> SUFFICES ASSUME timer = FALSE, live = 0 PROVE TimerInv
    OBVIOUS
  <1>1. timer \in BOOLEAN
    BY Zenon
  <1>2. ~timer
    BY Zenon
  <1>3. live = IF timer THEN 1 ELSE 0
    BY <1>2, Zenon
  <1>4. live \in Nat
    OBVIOUS
  <1> QED
    BY <1>1, <1>3, <1>4 DEF TimerInv, TimerTypes, NoStrayTimer

LEMMA TimerInvInit == Init => TimerInv
  <1>1. Init => timer = FALSE /\ live = 0
    BY DEF Init, RequestInit
  <1> QED
    BY <1>1, NoTimeout

LEMMA TimerInvNext == TimerInv /\ [Next]_vars => TimerInv'
  <1> SUFFICES ASSUME TimerInv, [Next]_vars PROVE TimerInv'
    OBVIOUS
  <1> USE DEF TimerInv
  <1>1. CASE FlushEffects
    BY <1>1 DEF FlushEffects, TimerTypes, NoStrayTimer
  <1>2. CASE Mount
    <2>1. SendRequest(live) /\ mounted' = "yes"
      BY <1>2 DEF Mount
    <2>2. TimerTypes /\ live \in 0..1 /\ (live = 1 => timer)
      BY DEF TimerTypes, NoStrayTimer
    <2>3. timer' = FALSE /\ live' = 0
      BY <2>1, <2>2, SendCancels
    <2> QED
      BY <2>1, <2>3 DEF TimerTypes, NoStrayTimer
  <1>3. CASE PollFires
    <2>1. live = 1 /\ timer /\ mounted # "gone" /\ mounted' = mounted
      BY <1>3 DEF PollFires, TimerTypes, NoStrayTimer
    <2>2. timer' = FALSE /\ live' = 0
      <3>1. CASE running
        BY <1>3, <2>1, <3>1 DEF PollFires
      <3>2. CASE ~running
        <4>1. SendRequest(live - 1) /\ live - 1 = 0
          BY <1>3, <2>1, <3>2 DEF PollFires
        <4> QED
          BY <2>1, <4>1, SendCancels
      <3> QED
        BY <3>1, <3>2
    <2> QED
      BY <2>2 DEF TimerTypes, NoStrayTimer
  <1>4. CASE Unmount
    <2>1. CancelNextPoll(live) /\ live = (IF timer THEN 1 ELSE 0)
      BY <1>4 DEF Unmount, NoStrayTimer
    <2>2. timer' = FALSE /\ live' = 0
      BY <2>1 DEF CancelNextPoll, TimerTypes
    <2> QED
      BY <2>2 DEF TimerTypes, NoStrayTimer
  <1>5. ASSUME NEW i \in DOMAIN calls, Receive(i) PROVE TimerInv'
    <2>1. ScheduleNextPoll(retRef') /\ mounted' = mounted
      BY <1>5 DEF Receive
    <2>2. CASE TriggerPoll(retRef') /\ ~timer /\ mounted = "yes"
      <3>1. timer' = TRUE /\ live' = live + 1
        BY <2>1, <2>2 DEF ScheduleNextPoll
      <3>2. live' = 1
        BY <2>2, <3>1 DEF NoStrayTimer
      <3> QED
        BY <2>1, <2>2, <3>1, <3>2 DEF TimerTypes, NoStrayTimer
    <2>3. CASE ~(TriggerPoll(retRef') /\ ~timer /\ mounted = "yes")
      <3>1. UNCHANGED <<timer, live>>
        BY <2>1, <2>3 DEF ScheduleNextPoll
      <3> QED
        BY <2>1, <3>1 DEF TimerTypes, NoStrayTimer
    <2> QED
      BY <2>2, <2>3
  <1>6. CASE UNCHANGED <<mounted, timer, live>>
    BY <1>6 DEF TimerTypes, NoStrayTimer
  <1>7. ASSUME NEW i \in DOMAIN calls, Reply(i, server) \/ Fail(i)
        PROVE  UNCHANGED <<mounted, timer, live>>
    BY <1>7 DEF Reply, Fail
  <1>8. CASE HookStep
    BY <1>1, <1>2, <1>3, <1>4, <1>5, <1>6, <1>7, <1>8 DEF HookStep
  <1>9. CASE RequestFails
    BY <1>6, <1>7, <1>9 DEF RequestFails
  <1>10. ASSUME \/ \E t \in Tasks : TaskEnds(t) \/ HandleCheck(t)
                \/ HandleCancel \/ HandleRetry \/ CancelArrives \/ RetryArrives
         PROVE  UNCHANGED <<mounted, timer, live>>
    BY <1>10 DEF TaskEnds, HandleCheck, HandleCancel, HandleRetry, CancelArrives,
                 RetryArrives, requestVars
  <1>11. CASE UNCHANGED vars
    BY <1>6, <1>11 DEF vars
  <1> QED
    BY <1>6, <1>8, <1>9, <1>10, <1>11 DEF Next

(* The page never holds a timeout it does not know of, and none once it    *)
(* was left, whatever is answered, fails or is polled in between.          *)
THEOREM TimersAreKnown == Spec => []NoStrayTimer
  <1>1. TimerInv => NoStrayTimer
    BY DEF TimerInv
  <1> QED
    BY <1>1, TimerInvInit, TimerInvNext, PTL DEF Spec

-----------------------------------------------------------------------------
(* DownloadsFinished is inductive together with: whatever the page was     *)
(* told to be finished, or is being told, is finished on the server.       *)
TaskStates == {"running", "finished", "error"}

Answers == [Tasks -> TaskStates]

Honest(d) == \A t \in DOMAIN d : d[t] = "finished" => t \in Tasks /\ server[t] = "finished"

HonestCalls == {Waiting, Failed} \cup {Replied(d) : d \in {e \in Answers : Honest(e)}}

DataInv ==
    /\ server \in Answers
    /\ calls \in Seq(HonestCalls)
    /\ Honest(state.data)
    /\ checked \subseteq Tasks /\ DownloadsFinished

(* No step of the server takes back that a task finished. *)
LEMMA FinishedStays ==
    ASSUME DataInv,
           \/ \E t \in Tasks : TaskEnds(t)
           \/ CancelArrives \/ RetryArrives
    PROVE  /\ server' \in Answers
           /\ \A t \in Tasks : server[t] = "finished" => server'[t] = "finished"
           /\ UNCHANGED <<calls, state, checked>>
  <1>1. CASE \E t \in Tasks : TaskEnds(t)
    BY <1>1 DEF TaskEnds, DataInv, Answers, TaskStates, requestVars
  <1>2. CASE CancelArrives
    BY <1>2 DEF CancelArrives, DataInv, Answers, TaskStates, requestVars
  <1>3. CASE RetryArrives
    BY <1>3 DEF RetryArrives, Retried, DataInv, Answers, TaskStates, requestVars
  <1> QED
    BY <1>1, <1>2, <1>3

(* What was honest stays so, for data and for answers on their way. *)
LEMMA HonestStays ==
    ASSUME \A t \in Tasks : server[t] = "finished" => server'[t] = "finished"
    PROVE  /\ \A d : Honest(d) => \A t \in DOMAIN d :
                d[t] = "finished" => t \in Tasks /\ server'[t] = "finished"
           /\ HonestCalls \subseteq HonestCalls'
  <1>1. \A d : Honest(d) => \A t \in DOMAIN d :
           d[t] = "finished" => t \in Tasks /\ server'[t] = "finished"
    BY DEF Honest
  <1> QED
    BY <1>1 DEF HonestCalls, Honest, Waiting, Failed, Replied

LEMMA ServerStep ==
    ASSUME DataInv,
           \/ \E t \in Tasks : TaskEnds(t)
           \/ CancelArrives \/ RetryArrives
    PROVE  DataInv'
  <1>1. /\ server' \in Answers
        /\ \A t \in Tasks : server[t] = "finished" => server'[t] = "finished"
        /\ UNCHANGED <<calls, state, checked>>
    BY FinishedStays
  <1>2. Honest(state.data)'
    BY <1>1, HonestStays DEF DataInv, Honest
  <1>3. calls' \in Seq(HonestCalls')
    <2>1. HonestCalls \subseteq HonestCalls'
      BY <1>1, HonestStays
    <2> QED
      BY <1>1, <2>1 DEF DataInv
  <1>4. checked' \subseteq Tasks /\ DownloadsFinished'
    BY <1>1 DEF DataInv, DownloadsFinished
  <1> QED
    BY <1>1, <1>2, <1>3, <1>4 DEF DataInv

(* A step that leaves the server alone keeps answers and data honest. *)
LEMMA ServerAlone ==
    ASSUME server' = server
    PROVE  /\ HonestCalls' = HonestCalls
           /\ \A d : Honest(d) => \A t \in DOMAIN d :
                d[t] = "finished" => t \in Tasks /\ server'[t] = "finished"
  BY DEF HonestCalls, Honest

LEMMA SendStep ==
    ASSUME DataInv, NEW armed, SendRequest(armed), UNCHANGED pageVars
    PROVE  DataInv'
  <1>1. /\ calls' = Append(calls, Waiting) /\ state'.data = state.data
        /\ server' = server /\ checked' = checked
    BY DEF SendRequest, Sending, pageVars
  <1>2. calls' \in Seq(HonestCalls')
    <2>1. Waiting \in HonestCalls /\ HonestCalls' = HonestCalls
      BY <1>1, ServerAlone DEF HonestCalls
    <2> QED
      BY <1>1, <2>1 DEF DataInv
  <1> QED
    BY <1>1, <1>2 DEF DataInv, Honest, DownloadsFinished

(* An answer that arrives, be it data, an error or a cancellation. *)
LEMMA ReceiveStep ==
    ASSUME DataInv, NEW i \in DOMAIN calls, Receive(i), UNCHANGED pageVars
    PROVE  DataInv'
  <1>1. /\ calls' = RemoveAt(calls, i) /\ server' = server /\ checked' = checked
        /\ state' = Settled(calls[i]) \/ state' = state
    BY DEF Receive, pageVars
  <1>2. HonestCalls' = HonestCalls
    BY <1>1, ServerAlone
  <1>3. calls' \in Seq(HonestCalls')
    BY <1>1, <1>2, RemoveAtFacts DEF DataInv
  <1>4. Honest(Settled(calls[i]).data)
    <2>1. calls[i] \in HonestCalls
      BY DEF DataInv
    <2>2. CASE calls[i].status = "replied"
      <3>1. PICK d \in Answers : Honest(d) /\ calls[i] = Replied(d)
        BY <2>1, <2>2 DEF HonestCalls, Waiting, Failed
      <3>2. Settled(calls[i]).data = d
        BY <2>2, <3>1 DEF Settled, Replied
      <3> QED
        BY <3>1, <3>2
    <2>3. CASE calls[i].status # "replied"
      <3>1. Settled(calls[i]).data = NoTasks
        BY <2>3 DEF Settled
      <3> QED
        BY <3>1 DEF Honest, NoTasks
    <2> QED
      BY <2>2, <2>3
  <1>5. Honest(state.data)'
    BY <1>1, <1>4 DEF DataInv, Honest
  <1> QED
    BY <1>1, <1>3, <1>5 DEF DataInv, DownloadsFinished

(* Requests that are answered, fail or are cancelled. *)
LEMMA CallStep ==
    ASSUME DataInv, server' = server, state' = state, checked' = checked,
           \/ \E i \in DOMAIN calls :
                \E c \in {Failed, Replied(server)} : calls' = [calls EXCEPT ![i] = c]
           \/ calls' = [i \in DOMAIN calls |-> Failed]
           \/ calls' = calls
    PROVE  DataInv'
  <1>1. HonestCalls' = HonestCalls /\ Failed \in HonestCalls
    BY ServerAlone DEF HonestCalls
  <1>2. Replied(server) \in HonestCalls
    <2>1. server \in Answers /\ Honest(server)
      BY DEF DataInv, Honest, Answers
    <2> QED
      BY <2>1 DEF HonestCalls
  <1>3. calls' \in Seq(HonestCalls)
    <2>1. calls \in Seq(HonestCalls)
      BY DEF DataInv
    <2>2. CASE \E i \in DOMAIN calls :
                 \E c \in {Failed, Replied(server)} : calls' = [calls EXCEPT ![i] = c]
      BY <1>1, <1>2, <2>1, <2>2
    <2>3. CASE calls' = [i \in DOMAIN calls |-> Failed]
      <3>1. DOMAIN calls = 1..Len(calls) /\ Len(calls) \in Nat
        BY <2>1
      <3>2. calls' \in [1..Len(calls) -> HonestCalls]
        BY <1>1, <2>3, <3>1
      <3> QED
        BY <3>1, <3>2
    <2> QED
      BY <2>1, <2>2, <2>3
  <1> QED
    BY <1>1, <1>3 DEF DataInv, Honest, DownloadsFinished

LEMMA DataInvInit == Init => DataInv
  <1> SUFFICES ASSUME Init PROVE DataInv
    OBVIOUS
  <1>1. server \in Answers /\ checked = {}
    BY DEF Init, Answers, TaskStates
  <1>2. calls \in Seq(HonestCalls)
    BY DEF Init, RequestInit
  <1>3. state.data = NoTasks
    BY DEF Init, RequestInit, Fresh
  <1> QED
    BY <1>1, <1>2, <1>3 DEF DataInv, Honest, NoTasks, DownloadsFinished

LEMMA DataInvNext == DataInv /\ [Next]_vars => DataInv'
  <1> SUFFICES ASSUME DataInv, [Next]_vars PROVE DataInv'
    OBVIOUS
  <1>1. CASE HookStep
    <2>1. UNCHANGED pageVars /\ server' = server /\ checked' = checked
      BY <1>1 DEF HookStep, pageVars
    <2>2. CASE FlushEffects
      BY <2>1, <2>2, CallStep DEF FlushEffects
    <2>3. CASE Mount
      BY <2>1, <2>3, SendStep DEF Mount
    <2>4. CASE PollFires
      <3>1. CASE running
        BY <2>1, <2>4, <3>1, CallStep DEF PollFires
      <3>2. CASE ~running
        BY <2>1, <2>4, <3>2, SendStep DEF PollFires
      <3> QED
        BY <3>1, <3>2
    <2>5. CASE Unmount
      BY <2>1, <2>5, CallStep DEF Unmount
    <2>6. ASSUME NEW i \in DOMAIN calls, Receive(i) PROVE DataInv'
      BY <2>1, <2>6, ReceiveStep
    <2>7. ASSUME NEW i \in DOMAIN calls, Reply(i, server) PROVE DataInv'
      BY <2>1, <2>7, CallStep DEF Reply
    <2> QED
      BY <1>1, <2>2, <2>3, <2>4, <2>5, <2>6, <2>7 DEF HookStep
  <1>2. CASE RequestFails
    <2>1. PICK i \in DOMAIN calls : Fail(i)
      BY <1>2 DEF RequestFails
    <2>2. server' = server /\ checked' = checked
      BY <1>2 DEF RequestFails
    <2> QED
      BY <2>1, <2>2, CallStep DEF Fail
  <1>3. ASSUME NEW t \in Tasks, HandleCheck(t) PROVE DataInv'
    <2>1. server[t] = "finished"
      BY <1>3 DEF HandleCheck, Checkable, DataInv, Honest
    <2>2. /\ UNCHANGED <<calls, state, server>>
          /\ checked' = checked \ {t} \/ checked' = checked \cup {t}
      BY <1>3 DEF HandleCheck, requestVars
    <2>3. checked' \subseteq Tasks /\ DownloadsFinished'
      BY <2>1, <2>2 DEF DataInv, DownloadsFinished
    <2>4. calls' \in Seq(HonestCalls')
      BY <2>2, ServerAlone DEF DataInv
    <2> QED
      BY <2>2, <2>3, <2>4 DEF DataInv, Honest
  <1>4. CASE HandleCancel \/ HandleRetry
    <2>1. UNCHANGED <<calls, state, server>> /\ checked' = {}
      BY <1>4 DEF HandleCancel, HandleRetry, requestVars
    <2>2. calls' \in Seq(HonestCalls')
      BY <2>1, ServerAlone DEF DataInv
    <2> QED
      BY <2>1, <2>2 DEF DataInv, Honest, DownloadsFinished
  <1>5. CASE UNCHANGED vars
    BY <1>5, CallStep DEF vars
  <1> QED
    BY <1>1, <1>2, <1>3, <1>4, <1>5, ServerStep DEF Next

(* Every task that is checked for download is finished on the server, even *)
(* while cancels, retries and answers about the past are on their way.     *)
THEOREM OnlyFinishedDownloads == Spec => []DownloadsFinished
  <1>1. DataInv => DownloadsFinished
    BY DEF DataInv
  <1> QED
    BY <1>1, DataInvInit, DataInvNext, PTL DEF Spec

-----------------------------------------------------------------------------
(* PollsUntilTheEnd rests on two facts.  A mounted page has at most one    *)
(* request on its way, and none unless running is set.  And without a      *)
(* retry the server never leaves the end once it came to it, so that an    *)
(* answer newer than an ended state says the same: afterRequest may then   *)
(* decide on the state before the answer.                                  *)
Ended(d) == d # NoTasks /\ ~NotFinished(d)

OneCall ==
    /\ running \in BOOLEAN /\ mounted \in {"new", "yes", "gone"}
    /\ mounted = "new" => calls = <<>> /\ live = 0
    /\ mounted = "yes" => Len(calls) <= 1 /\ (running = FALSE => calls = <<>>)
    /\ mounted = "yes" /\ running => state.error = FALSE

AnswersInOrder ==
    /\ "retry" \notin posts
    /\ Ended(state.data) => ~NotFinished(server)
    /\ \A i \in DOMAIN calls : calls[i].status = "replied" =>
         /\ Ended(calls[i].data) => ~NotFinished(server)
         /\ Ended(state.data) => ~NotFinished(calls[i].data)

PollInv ==
    /\ TimerInv /\ DataInv /\ OneCall
    /\ retries \in Nat /\ state.data \in Answers \cup {NoTasks}
    /\ retries = 0 => AnswersInOrder
    /\ PollsUntilTheEnd

(* A request that is sent is the only one, and waits for its answer. *)
LEMMA SendPolls ==
    ASSUME PollInv, TimerInv', NEW armed, SendRequest(armed), mounted' = "yes",
           mounted \in {"new", "yes"}, UNCHANGED pageVars
    PROVE  PollInv'
  <1>1. /\ calls = <<>> /\ calls' = Append(calls, Waiting)
        /\ state'.data = state.data /\ state'.error = FALSE
        /\ running' = TRUE /\ server' = server /\ posts' = posts /\ retries' = retries
    BY DEF SendRequest, Sending, pageVars, PollInv, OneCall
  <1>2. DataInv'
    BY SendStep DEF PollInv
  <1>3. Len(calls') = 1 /\ DOMAIN calls' = {1} /\ calls'[1] = Waiting
    BY <1>1
  <1>4. OneCall'
    BY <1>1, <1>3 DEF OneCall
  <1>5. (retries = 0 => AnswersInOrder)'
    BY <1>1, <1>3 DEF PollInv, AnswersInOrder, Waiting
  <1>6. PollsUntilTheEnd'
    BY <1>1 DEF PollsUntilTheEnd, PollingContinues
  <1> QED
    BY <1>1, <1>2, <1>4, <1>5, <1>6 DEF PollInv, Answers

(* The answer that arrives: either it decides itself whether to poll, or   *)
(* the state before it does, which then had not ended either.              *)
LEMMA ReceivePolls ==
    ASSUME PollInv, TimerInv', NEW i \in DOMAIN calls, Receive(i), UNCHANGED pageVars
    PROVE  PollInv'
  <1>1. /\ calls' = RemoveAt(calls, i) /\ mounted' = mounted /\ running' = FALSE
        /\ server' = server /\ posts' = posts /\ retries' = retries
        /\ ScheduleNextPoll(retRef')
    BY DEF Receive, pageVars
  <1>2. DataInv'
    BY ReceiveStep DEF PollInv
  <1>3. /\ calls \in Seq(HonestCalls) /\ calls' \in Seq(HonestCalls)
        /\ Len(calls') = Len(calls) - 1
        /\ \A k \in DOMAIN calls' : \E j \in DOMAIN calls : calls'[k] = calls[j]
    BY <1>1, RemoveAtFacts DEF PollInv, DataInv
  <1>4. CASE mounted # "yes"
    <2>1. state' = state
      BY <1>4 DEF Receive
    <2>2. mounted # "new"
      BY <1>3 DEF PollInv, OneCall
    <2>3. OneCall'
      <3>1. mounted' \in {"new", "yes", "gone"} /\ mounted' # "new" /\ mounted' # "yes"
        BY <1>1, <1>4, <2>2 DEF PollInv, OneCall
      <3>2. running' \in BOOLEAN
        BY <1>1, Zenon
      <3> QED
        BY <3>1, <3>2, Zenon DEF OneCall
    <2>4. (retries = 0 => AnswersInOrder)'
      BY <1>1, <1>3, <2>1 DEF PollInv, AnswersInOrder
    <2>5. PollsUntilTheEnd'
      BY <1>1, <1>4 DEF PollsUntilTheEnd, PollingContinues
    <2> QED
      BY <1>1, <1>2, <2>1, <2>3, <2>4, <2>5 DEF PollInv, Answers
  <1>5. CASE mounted = "yes"
    <2>1. /\ state' = Settled(calls[i]) /\ retRef' \in {state, state'}
          /\ running = TRUE /\ state.error = FALSE
      <3>1. calls # <<>>
        BY <1>3
      <3> QED
        BY <1>5, <3>1 DEF Receive, PollInv, OneCall
    <2>2. calls' = <<>>
      BY <1>3, <1>5 DEF PollInv, OneCall
    <2>3. OneCall'
      <3>1. Len(calls') <= 1 /\ mounted' = "yes" /\ mounted' # "new"
        BY <1>1, <1>5, <2>2
      <3>2. running' \in BOOLEAN /\ ~running'
        BY <1>1, Zenon
      <3> QED
        BY <2>2, <3>1, <3>2, Zenon DEF OneCall
    <2>4. CASE calls[i].status # "replied"
      <3>1. state'.data = NoTasks /\ state'.error = TRUE
        BY <2>1, <2>4 DEF Settled
      <3>2. (retries = 0 => AnswersInOrder)'
        BY <1>1, <2>2, <3>1 DEF PollInv, AnswersInOrder, Ended
      <3>3. PollsUntilTheEnd'
        BY <3>1 DEF PollsUntilTheEnd, PollingContinues
      <3> QED
        BY <1>1, <1>2, <2>3, <3>1, <3>2, <3>3 DEF PollInv
    <2>5. CASE calls[i].status = "replied"
      <3>1. PICK d \in Answers : calls[i] = Replied(d)
        BY <1>3, <2>5 DEF HonestCalls, Waiting, Failed
      <3>2. state'.data = d /\ state'.error = FALSE /\ calls[i].data = d
        BY <2>1, <2>5, <3>1 DEF Settled, Replied
      <3>3. (retries = 0 => AnswersInOrder)'
        BY <1>1, <2>2, <2>5, <3>2 DEF PollInv, AnswersInOrder
      <3>4. ASSUME retries = 0, d = NoTasks \/ NotFinished(d)
            PROVE  timer' = TRUE
        <4>1. state.data = NoTasks \/ NotFinished(state.data)
          <5>1. CASE NotFinished(d)
            BY <2>5, <3>2, <3>4, <5>1 DEF PollInv, AnswersInOrder, Ended
          <5>2. CASE d = NoTasks
            <6>1. DOMAIN d = Tasks /\ DOMAIN d = {}
              BY <3>1, <5>2 DEF Answers, NoTasks
            <6>2. \A e \in Answers : e = NoTasks
              BY <6>1 DEF Answers, NoTasks
            <6> QED
              BY <6>2 DEF PollInv
          <5> QED
            BY <3>4, <5>1, <5>2
        <4>2. TriggerPoll(retRef')
          BY <2>1, <3>2, <3>4, <4>1 DEF TriggerPoll
        <4> QED
          BY <1>1, <1>5, <4>2 DEF ScheduleNextPoll
      <3>5. PollsUntilTheEnd'
        BY <1>1, <3>2, <3>4 DEF PollsUntilTheEnd, PollingContinues
      <3> QED
        BY <1>1, <1>2, <2>3, <3>2, <3>3, <3>5 DEF PollInv, Answers
    <2> QED
      BY <2>4, <2>5
  <1> QED
    BY <1>4, <1>5

(* Requests that are answered or fail, the page being left, and effects:   *)
(* nothing of the hook's state but calls changes while the page is there.  *)
LEMMA CallPolls ==
    ASSUME PollInv, TimerInv', DataInv', state' = state, server' = server, posts' = posts,
           retries' = retries,
           \/ /\ UNCHANGED <<mounted, running, timer, live>>
              /\ \/ calls' = calls
                 \/ \E i \in DOMAIN calls :
                      \E c \in {Failed, Replied(server)} : calls' = [calls EXCEPT ![i] = c]
           \/ /\ mounted' = "gone" /\ running' = FALSE
              /\ calls' = calls \/ calls' = [i \in DOMAIN calls |-> Failed]
    PROVE  PollInv'
  <1>1. /\ DOMAIN calls' = DOMAIN calls
        /\ \A k \in DOMAIN calls :
             calls'[k] = calls[k] \/ calls'[k] = Failed \/ calls'[k] = Replied(server)
    BY DEF PollInv, DataInv
  <1>2. (retries = 0 => AnswersInOrder)'
    <2> SUFFICES ASSUME retries = 0 PROVE AnswersInOrder'
      OBVIOUS
    <2>1. AnswersInOrder
      BY DEF PollInv
    <2>2. ASSUME NEW k \in DOMAIN calls', calls'[k].status = "replied"
          PROVE  /\ Ended(calls'[k].data) => ~NotFinished(server)
                 /\ Ended(state.data) => ~NotFinished(calls'[k].data)
      <3>1. CASE calls'[k] = calls[k]
        BY <1>1, <2>1, <2>2, <3>1 DEF AnswersInOrder
      <3>2. CASE calls'[k] = Replied(server)
        <4>1. calls'[k].data = server
          BY <3>2 DEF Replied
        <4> QED
          BY <2>1, <4>1 DEF AnswersInOrder, Ended
      <3>3. calls'[k] # Failed
        BY <2>2 DEF Failed
      <3> QED
        BY <1>1, <3>1, <3>2, <3>3
    <2> QED
      BY <2>1, <2>2 DEF AnswersInOrder
  <1>3. OneCall'
    <2>1. calls \in Seq(HonestCalls) /\ calls' \in Seq(HonestCalls')
      BY DEF PollInv, DataInv
    <2>2. Len(calls') = Len(calls)
      BY <1>1, <2>1
    <2>3. calls = <<>> => calls' = <<>>
      BY <1>1, <2>1
    <2>4. Len(calls) <= 1 => Len(calls') <= 1
      BY <2>2
    <2>5. CASE UNCHANGED <<mounted, running, timer, live>>
      BY <2>3, <2>4, <2>5, Zenon DEF PollInv, OneCall
    <2>6. CASE mounted' = "gone" /\ running' = FALSE
      <3>1. running' \in BOOLEAN
        BY <2>6, Zenon
      <3>2. mounted' \in {"new", "yes", "gone"} /\ mounted' # "new" /\ mounted' # "yes"
        BY <2>6
      <3> QED
        BY <3>1, <3>2, Zenon DEF OneCall
    <2> QED
      BY <2>5, <2>6
  <1>4. PollsUntilTheEnd'
    BY DEF PollInv, PollsUntilTheEnd, PollingContinues
  <1> QED
    BY <1>2, <1>3, <1>4 DEF PollInv, Answers

(* Without a retry no step of the server starts a task again. *)
LEMMA ServerPolls ==
    ASSUME PollInv, TimerInv',
           \/ \E t \in Tasks : TaskEnds(t)
           \/ CancelArrives \/ RetryArrives
    PROVE  PollInv'
  <1>1. DataInv'
    BY ServerStep DEF PollInv
  <1>2. UNCHANGED requestVars /\ retries' = retries /\ posts' \subseteq posts
    BY DEF TaskEnds, CancelArrives, RetryArrives
  <1>3. ASSUME retries = 0 PROVE ~NotFinished(server) => ~NotFinished(server')
    <2>1. server \in Answers /\ "retry" \notin posts
      BY <1>3 DEF PollInv, DataInv, AnswersInOrder
    <2>2. CASE \E t \in Tasks : TaskEnds(t)
      BY <2>1, <2>2 DEF TaskEnds, NotFinished, Some, Answers
    <2>3. CASE CancelArrives
      BY <2>1, <2>3 DEF CancelArrives, NotFinished, Some, Answers
    <2>4. ~RetryArrives
      BY <2>1 DEF RetryArrives
    <2> QED
      BY <2>2, <2>3, <2>4
  <1>4. (retries = 0 => AnswersInOrder)'
    BY <1>2, <1>3 DEF PollInv, AnswersInOrder, requestVars
  <1> QED
    BY <1>1, <1>2, <1>4 DEF PollInv, OneCall, PollsUntilTheEnd, PollingContinues,
                            requestVars, Answers

LEMMA PollInvInit == Init => PollInv
  <1> SUFFICES ASSUME Init PROVE PollInv
    OBVIOUS
  <1>1. /\ mounted = "new" /\ running = FALSE /\ calls = <<>> /\ state.data = NoTasks /\ live = 0
        /\ posts = {} /\ retries = 0
    BY DEF Init, RequestInit, Fresh
  <1>2. OneCall
    BY <1>1 DEF OneCall
  <1>3. AnswersInOrder
    BY <1>1 DEF AnswersInOrder, Ended
  <1>4. PollsUntilTheEnd
    BY <1>1 DEF PollsUntilTheEnd, PollingContinues
  <1> QED
    BY <1>1, <1>2, <1>3, <1>4, DataInvInit, TimerInvInit DEF PollInv

LEMMA PollInvNext == PollInv /\ [Next]_vars => PollInv'
  <1> SUFFICES ASSUME PollInv, [Next]_vars PROVE PollInv'
    OBVIOUS
  <1>1. DataInv' /\ TimerInv'
    BY DataInvNext, TimerInvNext DEF PollInv
  <1>2. CASE HookStep
    <2>1. UNCHANGED pageVars /\ server' = server /\ posts' = posts /\ retries' = retries
      BY <1>2 DEF HookStep, pageVars
    <2>2. CASE FlushEffects
      BY <1>1, <2>1, <2>2, CallPolls DEF FlushEffects
    <2>3. CASE Mount
      BY <1>1, <2>1, <2>3, SendPolls DEF Mount
    <2>4. CASE PollFires
      <3>1. CASE running
        BY <1>1, <2>1, <2>4, <3>1 DEF PollFires, PollInv, OneCall, AnswersInOrder,
                                      PollsUntilTheEnd, PollingContinues, Answers
      <3>2. CASE ~running /\ mounted = "yes"
        BY <1>1, <2>1, <2>4, <3>2, SendPolls DEF PollFires
      <3>3. mounted = "yes"
        <4>1. live > 0 /\ live # 0
          BY <2>4 DEF PollFires, PollInv, TimerInv, TimerTypes
        <4> QED
          BY <4>1 DEF PollInv, OneCall, TimerInv, NoStrayTimer
      <3> QED
        BY <3>1, <3>2, <3>3
    <2>5. CASE Unmount
      BY <1>1, <2>1, <2>5, CallPolls DEF Unmount
    <2>6. ASSUME NEW i \in DOMAIN calls, Receive(i) PROVE PollInv'
      BY <1>1, <2>1, <2>6, ReceivePolls
    <2>7. ASSUME NEW i \in DOMAIN calls, Reply(i, server) PROVE PollInv'
      BY <1>1, <2>1, <2>7, CallPolls DEF Reply
    <2> QED
      BY <1>2, <2>2, <2>3, <2>4, <2>5, <2>6, <2>7 DEF HookStep
  <1>3. CASE RequestFails
    <2>1. PICK i \in DOMAIN calls : Fail(i)
      BY <1>3 DEF RequestFails
    <2> QED
      BY <1>1, <1>3, <2>1, CallPolls DEF Fail, RequestFails
  <1>4. ASSUME NEW t \in Tasks, HandleCheck(t) PROVE PollInv'
    BY <1>1, <1>4, CallPolls DEF HandleCheck, requestVars
  <1>5. CASE HandleCancel
    BY <1>1, <1>5 DEF HandleCancel, requestVars, PollInv, OneCall, AnswersInOrder,
                      PollsUntilTheEnd, PollingContinues, Answers
  <1>6. CASE HandleRetry
    <2>1. retries' \in Nat /\ retries' # 0 /\ UNCHANGED requestVars
      BY <1>6 DEF HandleRetry, PollInv
    <2> QED
      BY <1>1, <2>1 DEF PollInv, OneCall, PollsUntilTheEnd, requestVars, Answers
  <1>7. CASE UNCHANGED vars
    BY <1>1, <1>7, CallPolls DEF vars
  <1> QED
    BY <1>1, <1>2, <1>3, <1>4, <1>5, <1>6, <1>7, ServerPolls DEF Next

(* As long as nothing was retried, a page that shows something unfinished  *)
(* and no error has a request on its way or a timeout that will send one,  *)
(* although afterRequest may decide on the state before the answer.        *)
THEOREM PollingGoesOn == Spec => []PollsUntilTheEnd
  <1>1. PollInv => PollsUntilTheEnd
    BY DEF PollInv
  <1> QED
    BY <1>1, PollInvInit, PollInvNext, PTL DEF Spec
=============================================================================
