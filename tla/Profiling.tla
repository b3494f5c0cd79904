----------------------------- MODULE Profiling -----------------------------
(***************************************************************************)
(* The profiling service: a loop that starts groups of tasks, for requests *)
(* and by itself when automatic collection is on, goroutines that run the  *)
(* tasks, and requests that cancel and delete groups, which know a group   *)
(* by its rows only.  One action is one SQL statement with what is around  *)
(* it.                                                                     *)
(*                                                                         *)
(* exclusiveExecute never has a last group to cancel, since nothing        *)
(* assigns lastTaskGroup, and an automatic request names no type and so    *)
(* has no task.  gorm's Save writes the row also when it is gone.          *)
(***************************************************************************)
EXTENDS DynamicConfig, FiniteSets

CONSTANTS
    Groups,     \* group identifiers
    Tasks,      \* a task for each target and type of a request
    Clients,    \* requests that start a group
    Enders,     \* requests that cancel or delete one
    NoGroup

ASSUME ProfilingAssumption == NoGroup \notin Groups

VARIABLES
    groupRow,   \* state in profiling_task_groups, "none" without a row
    taskRow,    \* state in profiling_tasks
    goroutine,  \* what became of a task of this process: "none", "created",
                \* "running", "stopped" by cancel, or the state it ended in
    starting,   \* startGroup: the group, the tasks to create, who asked
    sessions,   \* sessionCh
    answer,     \* what each client was told
    ender,      \* pc and group of each cancel or delete request
    used,       \* group identifiers taken so far
    waiters     \* groups whose goroutine waits for the tasks to end

profilingVars == <<groupRow, taskRow, goroutine, starting, sessions, answer,
                   ender, used, waiters>>

NotStarting == [group |-> NoGroup, left |-> {}, client |-> "auto", bad |-> FALSE]
Loop == starting = NotStarting

ProfilingInit ==
    /\ groupRow = [g \in Groups |-> "none"]
    /\ taskRow = [g \in Groups |-> [t \in Tasks |-> "none"]]
    /\ goroutine = [g \in Groups |-> [t \in Tasks |-> "none"]]
    /\ starting = NotStarting
    /\ sessions = <<>>
    /\ answer = [c \in Clients |-> "none"]
    /\ ender = [e \in Enders |-> [pc |-> "idle", group |-> NoGroup, delete |-> FALSE]]
    /\ used = {} /\ waiters = {}

(* handleStartGroup up to its select, and its timeout. *)
HandleStartGroup(c) ==
    /\ answer[c] = "none" /\ budget.requests
    /\ "profiling" \in ToSet(channels)    \* serviceLoop has made sessionCh
    /\ answer' = [answer EXCEPT ![c] = "wait"]
    /\ sessions' = Append(sessions, c)
    /\ UNCHANGED <<configVars, groupRow, taskRow, goroutine, starting, ender, used,
                   waiters>>

StartTimeout(c) ==
    /\ answer[c] = "wait"
    /\ answer' = [answer EXCEPT ![c] = "timeout"]
    /\ UNCHANGED <<configVars, groupRow, taskRow, goroutine, starting, sessions,
                   ender, used,
                   waiters>>

Answered(c, what) ==
    answer' = IF c \in Clients /\ answer[c] = "wait"
                THEN [answer EXCEPT ![c] = what] ELSE answer

(* startGroup: the row of the group. *)
StartGroup(c, tasks, bad) ==
    \E g \in Groups \ used :
        /\ used' = used \cup {g}
        /\ groupRow' = [groupRow EXCEPT ![g] = "running"]
        /\ starting' = [group |-> g, left |-> tasks, client |-> c, bad |-> bad]

(* serviceLoop takes a configuration, or the timer of the automatic        *)
(* collection fires. *)
LoopConfig ==
    /\ Loop
    /\ Take("profiling")
    /\ IF Head(queue["profiling"]).profiling = "on" /\ used # Groups
         THEN StartGroup("auto", {}, FALSE)
         ELSE UNCHANGED <<groupRow, starting, used>>
    /\ UNCHANGED <<taskRow, goroutine, sessions, answer, ender, waiters>>

LoopTimer ==
    /\ Loop /\ seen["profiling"] # None /\ seen["profiling"].profiling = "on"
    /\ StartGroup("auto", {}, FALSE)
    /\ UNCHANGED <<configVars, taskRow, goroutine, sessions, answer, ender, waiters>>

(* handleRequest with automatic collection on. *)
RequestIgnored ==
    /\ Loop /\ sessions # <<>>
    /\ seen["profiling"] # None /\ seen["profiling"].profiling = "on"
    /\ sessions' = Tail(sessions)
    /\ Answered(Head(sessions), "ignored")
    /\ UNCHANGED <<configVars, groupRow, taskRow, goroutine, starting, ender, used,
                   waiters>>

(* handleRequest otherwise.  A type that is not known is found when the    *)
(* tasks are created. *)
RequestStarts ==
    /\ Loop /\ sessions # <<>>
    /\ seen["profiling"] # None /\ seen["profiling"].profiling # "on"
    /\ sessions' = Tail(sessions)
    /\ \E bad \in BOOLEAN : StartGroup(Head(sessions), Tasks, bad)
    /\ UNCHANGED <<configVars, taskRow, goroutine, answer, ender, waiters>>

(* A request before the first configuration dereferences nil. *)
RequestPanics ==
    /\ Loop /\ sessions # <<>> /\ seen["profiling"] = None
    /\ UNCHANGED profilingVars
    /\ Die

CreateTask(t) ==
    /\ t \in starting.left /\ (starting.bad => starting.left # {t})
    /\ starting' = [starting EXCEPT !.left = @ \ {t}]
    /\ taskRow' = [taskRow EXCEPT ![starting.group][t] = "running"]
    /\ goroutine' = [goroutine EXCEPT ![starting.group][t] = "created"]
    /\ UNCHANGED <<configVars, groupRow, sessions, answer, ender, used,
                   waiters>>

(* The unknown type: startGroup returns although some rows exist. *)
UnknownType ==
    /\ starting.bad /\ starting.left # {}
    /\ starting' = NotStarting
    /\ Answered(starting.client, "error")
    /\ UNCHANGED <<configVars, groupRow, taskRow, goroutine, sessions, ender, used,
                   waiters>>

(* All tasks are created: they run, and the client is answered. *)
Spawn ==
    /\ ~Loop /\ starting.left = {} /\ ~starting.bad
    /\ goroutine' = [goroutine EXCEPT ![starting.group] =
                       [t \in Tasks |-> IF @[t] = "created" THEN "running" ELSE @[t]]]
    /\ waiters' = waiters \cup {starting.group}
    /\ starting' = NotStarting
    /\ Answered(starting.client, "ok")
    /\ UNCHANGED <<configVars, groupRow, taskRow, sessions, ender, used>>

Ended == {"finish", "error", "skipped"}

(* A variant of Task.run that returns without Save when it was cancelled.  *)
TaskRunSilent(g, t) ==
    /\ g \in waiters /\ goroutine[g][t] \in {"running", "stopped"}
    /\ \E s \in Ended :
         /\ goroutine' = [goroutine EXCEPT ![g][t] = s]
         /\ taskRow' = IF goroutine[g][t] = "running"
                         THEN [taskRow EXCEPT ![g][t] = s] ELSE taskRow
    /\ UNCHANGED <<configVars, groupRow, starting, sessions, answer, ender, used,
                   waiters>>

(* Task.run, up to Save. *)
TaskRun(g, t) ==
    /\ g \in waiters /\ goroutine[g][t] \in {"running", "stopped"}
    /\ \E s \in Ended :
         /\ goroutine' = [goroutine EXCEPT ![g][t] = s]
         /\ taskRow' = [taskRow EXCEPT ![g][t] = s]
    /\ UNCHANGED <<configVars, groupRow, starting, sessions, answer, ender, used,
                   waiters>>

(* What the group becomes once its tasks have ended. *)
GroupState(ends) ==
    IF "error" \notin ends THEN "finish"
    ELSE IF "finish" \in ends THEN "partial" ELSE "error"

(* A variant that does not wait for the tasks, and the goroutine that does. *)
AllEndedSkipped(g) == TRUE
AllEnded(g) == \A t \in Tasks : goroutine[g][t] \in Ended \cup {"none"}

GroupEnds(g) ==
    /\ g \in waiters /\ AllEnded(g)
    /\ waiters' = waiters \ {g}
    /\ groupRow' = [groupRow EXCEPT ![g] =
                      GroupState({goroutine[g][t] : t \in Tasks})]
    /\ UNCHANGED <<configVars, taskRow, goroutine, starting, sessions, answer,
                   ender, used>>

-----------------------------------------------------------------------------
(* cancelGroup: the running rows are read and their tasks stopped; then it *)
(* polls until no row is running.                                          *)
CancelGroup(e, g, delete) ==
    /\ ender[e].pc = "idle" /\ g \in used /\ budget.requests
    /\ ender' = [ender EXCEPT ![e] = [pc |-> "wait", group |-> g, delete |-> delete]]
    /\ goroutine' = [goroutine EXCEPT ![g] = [t \in Tasks |->
                       IF taskRow[g][t] = "running" /\ @[t] \in {"created", "running"}
                         THEN "stopped" ELSE @[t]]]
    /\ UNCHANGED <<configVars, groupRow, taskRow, starting, sessions, answer, used,
                   waiters>>

NoneRunning(g) == \A t \in Tasks : taskRow[g][t] # "running"

CancelReturns(e) ==
    /\ ender[e].pc = "wait" /\ NoneRunning(ender[e].group)
    /\ ender' = [ender EXCEPT ![e].pc = IF ender[e].delete THEN "tasks" ELSE "done"]
    /\ UNCHANGED <<configVars, groupRow, taskRow, goroutine, starting, sessions,
                   answer, used, waiters>>

(* deleteGroup after it has cancelled: the tasks, then the group. *)
DeleteTasks(e) ==
    /\ ender[e].pc = "tasks"
    /\ taskRow' = [taskRow EXCEPT ![ender[e].group] = [t \in Tasks |-> "none"]]
    /\ ender' = [ender EXCEPT ![e].pc = "group"]
    /\ UNCHANGED <<configVars, groupRow, goroutine, starting, sessions, answer,
                   used, waiters>>

DeleteGroup(e) ==
    /\ ender[e].pc = "group"
    /\ groupRow' = [groupRow EXCEPT ![ender[e].group] = "none"]
    /\ ender' = [ender EXCEPT ![e].pc = "done"]
    /\ UNCHANGED <<configVars, taskRow, goroutine, starting, sessions, answer,
                   used, waiters>>

EnderStep(e) == CancelReturns(e) \/ DeleteTasks(e) \/ DeleteGroup(e)

LoopStep ==
    \/ LoopConfig \/ LoopTimer \/ RequestIgnored \/ RequestStarts \/ RequestPanics
    \/ (\E t \in Tasks : CreateTask(t)) \/ UnknownType \/ Spawn

ClientStep ==
    \/ \E c \in Clients : HandleStartGroup(c) \/ StartTimeout(c)
    \/ \E e \in Enders, g \in Groups, d \in BOOLEAN : CancelGroup(e, g, d)

(* Only the rows survive a restart. *)
ProfilingReboot ==
    /\ goroutine' = [g \in Groups |-> [t \in Tasks |-> "none"]]
    /\ starting' = NotStarting
    /\ sessions' = <<>>
    /\ answer' = [c \in Clients |-> IF answer[c] = "wait" THEN "lost" ELSE answer[c]]
    /\ ender' = [e \in Enders |-> [pc |-> "idle", group |-> NoGroup, delete |-> FALSE]]
    /\ waiters' = {}
    /\ UNCHANGED <<groupRow, taskRow, used>>

-----------------------------------------------------------------------------
(* A group that is listed as ended has no task listed as running, and its  *)
(* state sums up its tasks as they are listed, wherever the process died   *)
(* and whoever cancelled.  (A deleted group has no rows to sum up.)        *)
GroupSumsUpTasks ==
    \A g \in Groups : groupRow[g] \notin {"none", "running"} =>
        /\ NoneRunning(g)
        /\ (\A t \in Tasks : taskRow[g][t] \in Ended) =>
               groupRow[g] = GroupState({taskRow[g][t] : t \in Tasks})

(* A row that says running with nothing behind it. *)
Abandoned(g) ==
    \E t \in Tasks :
        /\ taskRow[g][t] = "running"
        /\ \/ goroutine[g][t] = "none"
           \/ goroutine[g][t] \in {"created", "stopped"} /\ g # starting.group
                /\ g \notin waiters

(* The process that has started a group keeps the rows it lists as running *)
(* alive: only a restart, or a request with an unknown type, abandons one. *)
CancelReturnsFor(e) ==
    ender[e].pc = "wait" ~> (ender[e].pc # "wait" \/ ~up
                               \/ Abandoned(ender[e].group))
=============================================================================
