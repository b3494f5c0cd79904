--------------------------- MODULE LogSearchPage ---------------------------
(***************************************************************************)
(* The page of a log search (LogSearchDetail with the sidebar              *)
(* SearchProgress): it polls the tasks of the group, offers the finished   *)
(* ones for download and posts cancel and retry.  The server is the        *)
(* environment; LogSearch models it.                                       *)
(***************************************************************************)
EXTENDS Naturals, Sequences

CONSTANTS
    Tasks,          \* tasks of the group
    MaxErrors,      \* bound on failing requests
    MaxRetries      \* bound on retries

NoTasks == [t \in {} |-> "running"]

VARIABLES
    mounted, running, calls, state, retRef, timer, live,
    server,     \* state of each task
    posts,      \* cancel and retry requests on their way
    checked,    \* checkedKeys of the sidebar
    errors, retries

vars == <<mounted, running, calls, state, retRef, timer, live,
          server, posts, checked, errors, retries>>
requestVars == <<mounted, running, calls, state, retRef, timer, live>>
pageVars == <<server, posts, checked, errors, retries>>

Some(tasks, s) == \E t \in DOMAIN tasks : tasks[t] = s

(* isFinished of the page, negated. *)
NotFinished(tasks) == Some(tasks, "running")

INSTANCE ClientRequest WITH NoData <- NoTasks, ShouldPoll <- NotFinished

Init ==
    /\ RequestInit
    /\ server = [t \in Tasks |-> "running"]
    /\ posts = {}
    /\ checked = {}
    /\ errors = 0 /\ retries = 0

(* The steps of the hook. *)
HookStep ==
    /\ FlushEffects \/ Mount \/ PollFires \/ Unmount
         \/ (\E i \in DOMAIN calls : Receive(i) \/ Reply(i, server))
    /\ UNCHANGED pageVars

RequestFails ==
    /\ errors < MaxErrors
    /\ \E i \in DOMAIN calls : Fail(i)
    /\ errors' = errors + 1
    /\ UNCHANGED <<server, posts, checked, retries>>

(* A task of the server ends. *)
TaskEnds(t) ==
    /\ server[t] = "running"
    /\ \E s \in {"finished", "error"} : server' = [server EXCEPT ![t] = s]
    /\ UNCHANGED <<requestVars, posts, checked, errors, retries>>

CheckableAlways(t) == mounted = "yes" /\ t \in DOMAIN state.data

(* getLeafNodes: only a finished task has a checkbox. *)
Checkable(t) ==
    /\ mounted = "yes" /\ t \in DOMAIN state.data
    /\ state.data[t] = "finished"

(* handleCheck. *)
HandleCheck(t) ==
    /\ Checkable(t)
    /\ checked' = IF t \in checked THEN checked \ {t} ELSE checked \cup {t}
    /\ UNCHANGED <<requestVars, server, posts, errors, retries>>

(* handleCancel and handleRetry, confirmed: the request is sent, and the   *)
(* sidebar is mounted anew with nothing checked.                           *)
HandleCancel ==
    /\ mounted = "yes" /\ Some(state.data, "running")
    /\ posts' = posts \cup {"cancel"}
    /\ checked' = {}
    /\ UNCHANGED <<requestVars, server, errors, retries>>

HandleRetry ==
    /\ retries < MaxRetries
    /\ mounted = "yes"
    /\ Some(state.data, "error") /\ ~Some(state.data, "running")
    /\ posts' = posts \cup {"retry"}
    /\ checked' = {}
    /\ retries' = retries + 1
    /\ UNCHANGED <<requestVars, server, errors>>

(* What the server makes of a retry: failed tasks run again. *)
Retried(tasks) ==
    [t \in Tasks |-> IF tasks[t] = "error" THEN "running" ELSE tasks[t]]

CancelArrives ==
    /\ "cancel" \in posts
    /\ posts' = posts \ {"cancel"}
    /\ server' = [t \in Tasks |->
                    IF server[t] = "running" THEN "error" ELSE server[t]]
    /\ UNCHANGED <<requestVars, checked, errors, retries>>

(* A retry is refused while a task runs. *)
RetryArrives ==
    /\ "retry" \in posts
    /\ posts' = posts \ {"retry"}
    /\ server' = IF Some(server, "running") THEN server ELSE Retried(server)
    /\ UNCHANGED <<requestVars, checked, errors, retries>>

Next ==
    \/ HookStep \/ RequestFails
    \/ \E t \in Tasks : TaskEnds(t) \/ HandleCheck(t)
    \/ HandleCancel \/ HandleRetry \/ CancelArrives \/ RetryArrives

Spec == Init /\ [][Next]_vars

(* The browser runs effects and timeouts, the server answers, tasks end.   *)
Fairness ==
    /\ WF_vars(Mount /\ UNCHANGED pageVars)
    /\ WF_vars(PollFires /\ UNCHANGED pageVars)
    /\ WF_vars((\E i \in DOMAIN calls : Receive(i) \/ Reply(i, server))
                 /\ UNCHANGED pageVars)
    /\ WF_vars(\E t \in Tasks : TaskEnds(t))

FairSpec == Spec /\ Fairness

-----------------------------------------------------------------------------
(* The download request names finished tasks only: what is checked stays   *)
(* finished on the server, whatever is retried or cancelled meanwhile.     *)
DownloadsFinished == \A t \in checked : server[t] = "finished"

(* Without a retry, PollingContinues holds of the page.  After one it need *)
(* not: the retry changes what the server says behind a page that has      *)
(* stopped polling.                                                        *)
PollsUntilTheEnd == retries = 0 => PollingContinues

(* A page that stays open and meets neither a failing request nor a retry  *)
(* comes to show how every task ended.                                     *)
PageShowsTheEnd ==
    <>[](mounted = "gone" \/ errors > 0 \/ retries > 0 \/ state.data = server)
=============================================================================
