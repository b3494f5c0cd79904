----------------------------- MODULE LogSearch -----------------------------
(***************************************************************************)
(* The log search service (pkg/apiserver/logsearch): the HTTP handlers     *)
(* that create, retry, cancel and delete task groups, the scheduler's map  *)
(* of running groups, and the goroutines that run a group and its tasks.   *)
(*                                                                         *)
(* One action is one step on shared state: a SQL statement, an access to   *)
(* the scheduler's sync.Map, an operation on the group's directory.        *)
(* Goroutines interleave freely between them.  gorm's Save is an upsert    *)
(* (UPDATE, and INSERT when no row matched), so saving a deleted row       *)
(* brings it back.                                                         *)
(*                                                                         *)
(* The data is reduced to what the properties tell apart: whether a store  *)
(* path is set, whether its file exists, how many preview rows there are.  *)
(* A row's Error column is set exactly when its State is "error", so rows  *)
(* carry State only.  A task is named by its group and target: a request   *)
(* names each instance once.                                               *)
(***************************************************************************)
EXTENDS Naturals, FiniteSets

CONSTANTS Groups,                   \* ids the group table can hand out
          NoGroup,                  \* the group of a handler that serves nobody
          Targets,                  \* the instances a request may name
          TiKV,                     \* the targets that also have a slow log
          Handlers,                 \* HTTP requests in progress at once
          Ops,                      \* the kinds of request clients make
          TaskMaxPreviewLines,
          TaskGroupMaxPreviewLines,
          MaxStarts,                \* bound: no retry of a group started this often
          MaxRestarts               \* bound on process restarts

ASSUME LogSearchAssumption ==
  /\ NoGroup \notin Groups
  /\ TiKV \subseteq Targets
  /\ IsFiniteSet(Targets)
  /\ Ops \subseteq {"create", "retry", "cancel", "delete"}
  /\ TaskMaxPreviewLines \in Nat
  /\ TaskGroupMaxPreviewLines \in Nat
  /\ MaxStarts \in Nat
  /\ MaxRestarts \in Nat

VARIABLES groupState,        \* State of each row of log_search_task_groups
          groupDir,          \* whether the row's LogStoreDir is set
          taskRow,           \* log_search_tasks: one row per group and target
          previews,          \* number of log_previews rows of each task
          used,              \* ids already handed out (AUTOINCREMENT)
          dirs,              \* group directories on disk
          files,             \* log files on disk: <<group, target, kind>>
          runningTaskGroups, \* keys of the scheduler's sync.Map
          starts,            \* TaskGroup objects stored in the map so far
          run,               \* the latest TaskGroup object of each group
          work,              \* the Task objects of that TaskGroup
          handler,           \* the HTTP handlers
          restarts           \* process restarts so far

dbVars    == <<groupState, groupDir, taskRow, previews, used>>
diskVars  == <<dirs, files>>
schedVars == <<runningTaskGroups, starts, run, work>>
vars      == <<dbVars, diskVars, schedVars, handler, restarts>>

-----------------------------------------------------------------------------
(* Records.                                                                *)

TaskModel == [state : {"absent", "running", "finished", "error"},
              log : BOOLEAN, slow : BOOLEAN]
NoTask    == [state |-> "absent", log |-> FALSE, slow |-> FALSE]
NewTask   == [state |-> "running", log |-> FALSE, slow |-> FALSE]

(* A TaskGroup object: the statement SyncRun is at, whether its model's    *)
(* LogStoreDir is set, its tasks and maxPreviewLinesPerTask.               *)
TaskGroup == [pc : {"none", "registered", "mkdir", "saveDir", "tasks", "save", "unregister"},
              dir : BOOLEAN, tasks : SUBSET Targets, cap : Nat]
NoRun     == [pc |-> "none", dir |-> FALSE, tasks |-> {}, cap |-> 0]

(* A Task object.  lines is previewLogLinesCount of the current search;    *)
(* got records that the node has sent a line of the normal log.            *)
Task   == [pc : {"none", "open", "recv", "clean", "save", "done"},
           model : TaskModel, err : BOOLEAN, kind : {"log", "slow"},
           lines : Nat, got : BOOLEAN, cancelled : BOOLEAN]
NoWork == [pc |-> "none", model |-> NoTask, err |-> FALSE, kind |-> "log",
           lines |-> 0, got |-> FALSE, cancelled |-> FALSE]

(* A handler in progress: the statement it is at and its locals.           *)
HandlerPCs == {"insertTasks", "start", "init", "findTasks", "saveGroup", "saveTasks",
               "abort", "abortAll", "rmDir", "rmPreviews", "rmTasks", "rmGroup"}
Handler    == [pc : HandlerPCs \cup {"idle"}, g : Groups \cup {NoGroup}, dir : BOOLEAN,
               todo : SUBSET Targets, models : [Targets -> TaskModel], gen : Nat]
Idle       == [pc |-> "idle", g |-> NoGroup, dir |-> FALSE, todo |-> {},
               models |-> [t \in Targets |-> NoTask], gen |-> 0]

(* The tasks a map of task models holds.                                   *)
TasksOf(models) == {t \in Targets : models[t].state # "absent"}

(* The next values of one handler, TaskGroup object or Task object.        *)
SetHandler(h, r) == handler' = [handler EXCEPT ![h] = r]
SetRun(g, r)     == run' = [run EXCEPT ![g] = r]
SetWork(g, t, w) == work' = [work EXCEPT ![g][t] = w]

(* A handler answers its request.                                          *)
Answer(h) == SetHandler(h, Idle)

(* A handler moves on to statement pc with its locals unchanged.           *)
Goto(h, pc) == SetHandler(h, [handler[h] EXCEPT !.pc = pc])

-----------------------------------------------------------------------------
(* CreateTaskGroup.                                                        *)

CreateTaskGroup(h) ==
  /\ "create" \in Ops
  /\ handler[h].pc = "idle"
  /\ \E g \in Groups \ used, ts \in (SUBSET Targets) \ {{}} :
       /\ groupState' = [groupState EXCEPT ![g] = "running"]
       /\ used' = used \cup {g}
       /\ SetHandler(h, [Idle EXCEPT
            !.pc = "insertTasks", !.g = g, !.todo = ts,
            !.models = [t \in Targets |-> IF t \in ts THEN NewTask ELSE NoTask]])
  /\ UNCHANGED <<groupDir, taskRow, previews, diskVars, schedVars, restarts>>

InsertTask(h) ==
  /\ handler[h].pc = "insertTasks"
  /\ \E t \in handler[h].todo :
       /\ taskRow' = [taskRow EXCEPT ![handler[h].g][t] = NewTask]
       /\ SetHandler(h, [handler[h] EXCEPT
            !.todo = handler[h].todo \ {t},
            !.pc = IF handler[h].todo = {t} THEN "start" ELSE "insertTasks"])
  /\ UNCHANGED <<groupState, groupDir, previews, used, diskVars, schedVars, restarts>>

-----------------------------------------------------------------------------
(* RetryTask.                                                              *)

RetryTask(h) ==
  /\ "retry" \in Ops
  /\ handler[h].pc = "idle"
  /\ \E g \in Groups :
       /\ groupState[g] = "finished"
       /\ starts[g] < MaxStarts
       /\ SetHandler(h, [Idle EXCEPT !.pc = "findTasks", !.g = g, !.dir = groupDir[g]])
  /\ UNCHANGED <<dbVars, diskVars, schedVars, restarts>>

(* The error tasks of the group, with Error and State already reset in     *)
(* memory; without one the request is answered at once.                    *)
FailedTasks(g) ==
  [t \in Targets |-> IF taskRow[g][t].state = "error"
                     THEN [taskRow[g][t] EXCEPT !.state = "running"]
                     ELSE NoTask]

FindFailedTasks(h) ==
  /\ handler[h].pc = "findTasks"
  /\ LET models == FailedTasks(handler[h].g) IN
     IF TasksOf(models) = {}
     THEN Answer(h)
     ELSE SetHandler(h, [handler[h] EXCEPT !.models = models, !.todo = TasksOf(models),
                                           !.pc = "saveGroup"])
  /\ UNCHANGED <<dbVars, diskVars, schedVars, restarts>>

ResetGroupForgotten(h) ==
  /\ handler[h].pc = "saveGroup"
  /\ Goto(h, "saveTasks")
  /\ UNCHANGED <<dbVars, diskVars, schedVars, restarts>>

ResetGroup(h) ==
  /\ handler[h].pc = "saveGroup"
  /\ groupState' = [groupState EXCEPT ![handler[h].g] = "running"]
  /\ groupDir' = [groupDir EXCEPT ![handler[h].g] = handler[h].dir]
  /\ Goto(h, "saveTasks")
  /\ UNCHANGED <<taskRow, previews, used, diskVars, schedVars, restarts>>

ResetTask(h) ==
  /\ handler[h].pc = "saveTasks"
  /\ \E t \in handler[h].todo :
       /\ taskRow' = [taskRow EXCEPT ![handler[h].g][t] = handler[h].models[t]]
       /\ SetHandler(h, [handler[h] EXCEPT
            !.todo = handler[h].todo \ {t},
            !.pc = IF handler[h].todo = {t} THEN "start" ELSE "saveTasks"])
  /\ UNCHANGED <<groupState, groupDir, previews, used, diskVars, schedVars, restarts>>

-----------------------------------------------------------------------------
(* AsyncStart, called by both.                                             *)

PreviewLinesPerTask(n) ==
  IF TaskGroupMaxPreviewLines \div n > TaskMaxPreviewLines
  THEN TaskMaxPreviewLines
  ELSE TaskGroupMaxPreviewLines \div n

(* LoadOrStore finds no object of the group.                               *)
AlwaysStarts(g) == TRUE
NotRegistered(g) == g \notin runningTaskGroups

(* LoadOrStore.  A group that is already in the map is not started, and    *)
(* the request is answered 200 all the same.                               *)
AsyncStart(h) ==
  /\ handler[h].pc = "start"
  /\ LET g == handler[h].g IN
     IF ~NotRegistered(g)
     THEN Answer(h) /\ UNCHANGED schedVars
     ELSE /\ runningTaskGroups' = runningTaskGroups \cup {g}
          /\ starts' = [starts EXCEPT ![g] = @ + 1]
          /\ SetRun(g, [NoRun EXCEPT
               !.pc = "registered", !.dir = handler[h].dir,
               !.cap = PreviewLinesPerTask(Cardinality(TasksOf(handler[h].models)))])
          /\ work' = [work EXCEPT ![g] = [t \in Targets |-> NoWork]]
          /\ Goto(h, "init")
  /\ UNCHANGED <<dbVars, diskVars, restarts>>

(* InitTasks, and the spawn of the group's goroutine.                      *)
InitTasks(h) ==
  /\ handler[h].pc = "init"
  /\ LET g == handler[h].g
         ts == TasksOf(handler[h].models)
     IN /\ SetRun(g, [run[g] EXCEPT !.tasks = ts, !.pc = "mkdir"])
        /\ work' = [work EXCEPT ![g] =
             [t \in Targets |-> IF t \in ts
                                THEN [NoWork EXCEPT !.pc = "open", !.model = handler[h].models[t]]
                                ELSE NoWork]]
  /\ Answer(h)
  /\ UNCHANGED <<dbVars, diskVars, runningTaskGroups, starts, restarts>>

-----------------------------------------------------------------------------
(* CancelTask.                                                             *)

CancelTask(h) ==
  /\ "cancel" \in Ops
  /\ handler[h].pc = "idle"
  /\ \E g \in Groups :
       /\ groupState[g] = "running"
       /\ SetHandler(h, [Idle EXCEPT !.pc = "abort", !.g = g])
  /\ UNCHANGED <<dbVars, diskVars, schedVars, restarts>>

(* Load of the group's object; the request is answered 200 without one.    *)
AsyncAbort(h) ==
  /\ handler[h].pc = "abort"
  /\ IF handler[h].g \in runningTaskGroups
     THEN SetHandler(h, [handler[h] EXCEPT !.pc = "abortAll", !.gen = starts[handler[h].g]])
     ELSE Answer(h)
  /\ UNCHANGED <<dbVars, diskVars, schedVars, restarts>>

(* Only one of the tasks is aborted.                                       *)
AbortOne(g) ==
  {CHOOSE t \in Targets : run[g].tasks # {} => t \in run[g].tasks}

(* The tasks AbortAll iterates over.                                       *)
AbortedTasks(g) == run[g].tasks

(* Cancels the contexts of the object loaded, which may be an earlier      *)
(* object of the group by now, or one whose tasks are not there yet.       *)
AbortAll(h) ==
  /\ handler[h].pc = "abortAll"
  /\ LET g == handler[h].g IN
     IF handler[h].gen = starts[g]
     THEN work' = [work EXCEPT ![g] =
            [t \in Targets |-> IF t \in AbortedTasks(g)
                               THEN [work[g][t] EXCEPT !.cancelled = TRUE]
                               ELSE work[g][t]]]
     ELSE UNCHANGED work
  /\ Answer(h)
  /\ UNCHANGED <<dbVars, diskVars, runningTaskGroups, starts, run, restarts>>

-----------------------------------------------------------------------------
(* DeleteTaskGroup and TaskGroupModel.Delete.                              *)

(* A row DeleteTaskGroup accepts: state != running.                        *)
DeletableAnyState(g) == groupState[g] # "absent"
Deletable(g) == groupState[g] = "finished"

DeleteTaskGroup(h) ==
  /\ "delete" \in Ops
  /\ handler[h].pc = "idle"
  /\ \E g \in Groups :
       /\ Deletable(g)
       /\ SetHandler(h, [Idle EXCEPT !.pc = "rmDir", !.g = g, !.dir = groupDir[g]])
  /\ UNCHANGED <<dbVars, diskVars, schedVars, restarts>>

RemoveDir(h) ==
  /\ handler[h].pc = "rmDir"
  /\ IF handler[h].dir
     THEN /\ dirs' = dirs \ {handler[h].g}
          /\ files' = {f \in files : f[1] # handler[h].g}
     ELSE UNCHANGED diskVars
  /\ Goto(h, "rmPreviews")
  /\ UNCHANGED <<dbVars, schedVars, restarts>>

DeletePreviews(h) ==
  /\ handler[h].pc = "rmPreviews"
  /\ previews' = [previews EXCEPT ![handler[h].g] = [t \in Targets |-> 0]]
  /\ Goto(h, "rmTasks")
  /\ UNCHANGED <<groupState, groupDir, taskRow, used, diskVars, schedVars, restarts>>

DeleteTasksForgotten(h) ==
  /\ handler[h].pc = "rmTasks"
  /\ Goto(h, "rmGroup")
  /\ UNCHANGED <<dbVars, diskVars, schedVars, restarts>>

DeleteTasks(h) ==
  /\ handler[h].pc = "rmTasks"
  /\ taskRow' = [taskRow EXCEPT ![handler[h].g] = [t \in Targets |-> NoTask]]
  /\ Goto(h, "rmGroup")
  /\ UNCHANGED <<groupState, groupDir, previews, used, diskVars, schedVars, restarts>>

DeleteGroup(h) ==
  /\ handler[h].pc = "rmGroup"
  /\ groupState' = [groupState EXCEPT ![handler[h].g] = "absent"]
  /\ groupDir' = [groupDir EXCEPT ![handler[h].g] = FALSE]
  /\ Answer(h)
  /\ UNCHANGED <<taskRow, previews, used, diskVars, schedVars, restarts>>

-----------------------------------------------------------------------------
(* TaskGroup.SyncRun and the goroutine around it.                          *)

(* MkdirAll; when it fails the model keeps the LogStoreDir it had and is   *)
(* not saved.                                                              *)
MakeDir(g) ==
  /\ run[g].pc = "mkdir"
  /\ \/ /\ dirs' = dirs \cup {g}
        /\ SetRun(g, [run[g] EXCEPT !.dir = TRUE, !.pc = "saveDir"])
     \/ /\ g \notin dirs
        /\ SetRun(g, [run[g] EXCEPT !.pc = "tasks"])
        /\ UNCHANGED dirs
  /\ UNCHANGED <<dbVars, files, runningTaskGroups, starts, work, handler, restarts>>

SaveDirForgotten(g) ==
  /\ run[g].pc = "saveDir"
  /\ SetRun(g, [run[g] EXCEPT !.pc = "tasks"])
  /\ UNCHANGED <<dbVars, diskVars, runningTaskGroups, starts, work, handler, restarts>>

SaveDir(g) ==
  /\ run[g].pc = "saveDir"
  /\ groupState' = [groupState EXCEPT ![g] = "running"]
  /\ groupDir' = [groupDir EXCEPT ![g] = TRUE]
  /\ SetRun(g, [run[g] EXCEPT !.pc = "tasks"])
  /\ UNCHANGED <<taskRow, previews, used, diskVars, runningTaskGroups, starts, work, handler, restarts>>

WaitTasks(g) ==
  /\ run[g].pc = "tasks"
  /\ \A t \in run[g].tasks : work[g][t].pc = "done"
  /\ SetRun(g, [run[g] EXCEPT !.pc = "save"])
  /\ UNCHANGED <<dbVars, diskVars, runningTaskGroups, starts, work, handler, restarts>>

SaveFinishedAsError(g) ==
  /\ run[g].pc = "save"
  /\ groupState' = [groupState EXCEPT ![g] =
       IF \E t \in run[g].tasks : work[g][t].err THEN "error" ELSE "finished"]
  /\ groupDir' = [groupDir EXCEPT ![g] = run[g].dir]
  /\ SetRun(g, [run[g] EXCEPT !.pc = "unregister"])
  /\ UNCHANGED <<taskRow, previews, used, diskVars, runningTaskGroups, starts, work, handler, restarts>>

SaveFinished(g) ==
  /\ run[g].pc = "save"
  /\ groupState' = [groupState EXCEPT ![g] = "finished"]
  /\ groupDir' = [groupDir EXCEPT ![g] = run[g].dir]
  /\ SetRun(g, [run[g] EXCEPT !.pc = "unregister"])
  /\ UNCHANGED <<taskRow, previews, used, diskVars, runningTaskGroups, starts, work, handler, restarts>>

Unregister(g) ==
  /\ run[g].pc = "unregister"
  /\ runningTaskGroups' = runningTaskGroups \ {g}
  /\ SetRun(g, NoRun)
  /\ UNCHANGED <<dbVars, diskVars, starts, work, handler, restarts>>

-----------------------------------------------------------------------------
(* Task.SyncRun and searchLog.                                             *)

TaskAt(g, t, pc) ==
  /\ run[g].pc = "tasks"
  /\ t \in run[g].tasks
  /\ work[g][t].pc = pc

WithPathOneKind(w) ==
  IF w.lines = 0 THEN w.model ELSE [w.model EXCEPT !.slow = TRUE]

(* The store path a search has set when its stream ends: only once a       *)
(* preview line was kept.                                                  *)
WithPath(w) ==
  IF w.lines = 0 THEN w.model
  ELSE IF w.kind = "log" THEN [w.model EXCEPT !.log = TRUE]
                         ELSE [w.model EXCEPT !.slow = TRUE]

(* SearchLog is called and the zip file created in the group's directory.  *)
OpenLog(g, t) ==
  /\ TaskAt(g, t, "open")
  /\ run[g].dir
  /\ g \in dirs
  /\ files' = files \cup {<<g, t, work[g][t].kind>>}
  /\ SetWork(g, t, [work[g][t] EXCEPT !.pc = "recv", !.lines = 0, !.model.state = "running"])
  /\ UNCHANGED <<dbVars, dirs, runningTaskGroups, starts, run, handler, restarts>>

(* The dial or the call fails, or there is no directory to create the file *)
(* in.                                                                     *)
OpenLogFails(g, t) ==
  /\ TaskAt(g, t, "open")
  /\ SetWork(g, t, [work[g][t] EXCEPT !.err = TRUE, !.pc = "clean"])
  /\ UNCHANGED <<dbVars, diskVars, runningTaskGroups, starts, run, handler, restarts>>

KeptOffByOne(g, w) == w.lines + 1 < run[g].cap

(* Whether the next line of a search becomes a preview row.                *)
Kept(g, w) == w.lines < run[g].cap

(* A line arrives; the first maxPreviewLinesPerTask become preview rows.   *)
RecvLine(g, t) ==
  /\ TaskAt(g, t, "recv")
  /\ LET w == work[g][t]
         kept == Kept(g, w)
     IN /\ previews' = IF kept THEN [previews EXCEPT ![g][t] = @ + 1] ELSE previews
        /\ SetWork(g, t, [w EXCEPT !.lines = IF kept THEN w.lines + 1 ELSE w.lines,
                                   !.got = w.got \/ w.kind = "log"])
  /\ UNCHANGED <<groupState, groupDir, taskRow, used, diskVars,
                 runningTaskGroups, starts, run, handler, restarts>>

RecvErrorKeepsData(g, t) ==
  /\ TaskAt(g, t, "recv")
  /\ SetWork(g, t, [work[g][t] EXCEPT !.model = WithPath(work[g][t]),
                                      !.err = TRUE, !.pc = "save"])
  /\ UNCHANGED <<dbVars, diskVars, runningTaskGroups, starts, run, handler, restarts>>

(* The stream ends with an error: the node's, or that of the cancelled     *)
(* context.                                                                *)
RecvError(g, t) ==
  /\ TaskAt(g, t, "recv")
  /\ SetWork(g, t, [work[g][t] EXCEPT !.model = WithPath(work[g][t]),
                                      !.err = TRUE, !.pc = "clean"])
  /\ UNCHANGED <<dbVars, diskVars, runningTaskGroups, starts, run, handler, restarts>>

(* A line cannot be written to the file: no store path is set.             *)
WriteError(g, t) ==
  /\ TaskAt(g, t, "recv")
  /\ SetWork(g, t, [work[g][t] EXCEPT !.err = TRUE, !.pc = "clean"])
  /\ UNCHANGED <<dbVars, diskVars, runningTaskGroups, starts, run, handler, restarts>>

(* io.EOF: the next search, or the end of the task.                        *)
RecvEOF(g, t) ==
  /\ TaskAt(g, t, "recv")
  /\ SetWork(g, t, [work[g][t] EXCEPT
       !.model = WithPath(work[g][t]),
       !.kind = IF t \in TiKV THEN "slow" ELSE "log",
       !.pc = IF work[g][t].kind = "log" /\ t \in TiKV THEN "open" ELSE "save"])
  /\ UNCHANGED <<dbVars, diskVars, runningTaskGroups, starts, run, handler, restarts>>

(* RemoveDataAndPreview: the normal log's file and path, and the preview   *)
(* rows.  The slow log's file and path stay.                               *)
RemoveDataAndPreview(g, t) ==
  /\ TaskAt(g, t, "clean")
  /\ files' = IF work[g][t].model.log THEN files \ {<<g, t, "log">>} ELSE files
  /\ previews' = [previews EXCEPT ![g][t] = 0]
  /\ SetWork(g, t, [work[g][t] EXCEPT !.model.log = FALSE, !.pc = "save"])
  /\ UNCHANGED <<groupState, groupDir, taskRow, used, dirs,
                 runningTaskGroups, starts, run, handler, restarts>>

SaveTask(g, t) ==
  /\ TaskAt(g, t, "save")
  /\ LET final == IF work[g][t].err THEN "error" ELSE "finished"
         model == [work[g][t].model EXCEPT !.state = final]
     IN /\ taskRow' = [taskRow EXCEPT ![g][t] = model]
        /\ SetWork(g, t, [work[g][t] EXCEPT !.model = model, !.pc = "done"])
  /\ UNCHANGED <<groupState, groupDir, previews, used, diskVars,
                 runningTaskGroups, starts, run, handler, restarts>>

-----------------------------------------------------------------------------
(* The process dies and starts again: NewService cleans up every group in  *)
(* the table (cleanupAllTasks) before anything else runs.                  *)

CrashRestart ==
  /\ restarts < MaxRestarts
  /\ restarts' = restarts + 1
  /\ LET known == {g \in Groups : groupState[g] # "absent"}
         gone  == {g \in known : groupDir[g]}
     IN /\ dirs' = dirs \ gone
        /\ files' = {f \in files : f[1] \notin gone}
        /\ previews' = [g \in Groups |-> IF g \in known THEN [t \in Targets |-> 0] ELSE previews[g]]
        /\ taskRow' = [g \in Groups |-> IF g \in known THEN [t \in Targets |-> NoTask] ELSE taskRow[g]]
  /\ groupState' = [g \in Groups |-> "absent"]
  /\ groupDir' = [g \in Groups |-> FALSE]
  /\ runningTaskGroups' = {}
  /\ run' = [g \in Groups |-> NoRun]
  /\ work' = [g \in Groups |-> [t \in Targets |-> NoWork]]
  /\ handler' = [h \in Handlers |-> Idle]
  /\ UNCHANGED <<used, starts>>

-----------------------------------------------------------------------------
Init ==
  /\ groupState = [g \in Groups |-> "absent"]
  /\ groupDir = [g \in Groups |-> FALSE]
  /\ taskRow = [g \in Groups |-> [t \in Targets |-> NoTask]]
  /\ previews = [g \in Groups |-> [t \in Targets |-> 0]]
  /\ used = {}
  /\ dirs = {}
  /\ files = {}
  /\ runningTaskGroups = {}
  /\ starts = [g \in Groups |-> 0]
  /\ run = [g \in Groups |-> NoRun]
  /\ work = [g \in Groups |-> [t \in Targets |-> NoWork]]
  /\ handler = [h \in Handlers |-> Idle]
  /\ restarts = 0

(* A request arrives.                                                      *)
Request(h) ==
  \/ CreateTaskGroup(h) \/ RetryTask(h) \/ CancelTask(h) \/ DeleteTaskGroup(h)

(* A handler takes its next step.                                          *)
HandlerStep(h) ==
  \/ InsertTask(h)
  \/ FindFailedTasks(h) \/ ResetGroup(h) \/ ResetTask(h)
  \/ AsyncStart(h) \/ InitTasks(h)
  \/ AsyncAbort(h) \/ AbortAll(h)
  \/ RemoveDir(h) \/ DeletePreviews(h) \/ DeleteTasks(h) \/ DeleteGroup(h)

(* The goroutine of a group takes its next step.                           *)
GroupStep(g) ==
  MakeDir(g) \/ SaveDir(g) \/ WaitTasks(g) \/ SaveFinished(g) \/ Unregister(g)

(* The goroutine of a task takes its next step.                            *)
TaskStep(g, t) ==
  \/ OpenLog(g, t) \/ OpenLogFails(g, t)
  \/ RecvLine(g, t) \/ RecvError(g, t) \/ WriteError(g, t) \/ RecvEOF(g, t)
  \/ RemoveDataAndPreview(g, t) \/ SaveTask(g, t)

Next ==
  \/ \E h \in Handlers : Request(h) \/ HandlerStep(h)
  \/ \E g \in Groups : GroupStep(g) \/ \E t \in Targets : TaskStep(g, t)
  \/ CrashRestart

(* Steps a goroutine takes without waiting for the remote node.  A stream  *)
(* whose context is cancelled fails without the node's help.               *)
LocalTaskStep(g, t) ==
  \/ OpenLog(g, t) \/ OpenLogFails(g, t)
  \/ RemoveDataAndPreview(g, t) \/ SaveTask(g, t)
  \/ work[g][t].cancelled /\ RecvError(g, t)

(* Goroutines are scheduled; requests, restarts and remote nodes owe us    *)
(* nothing (searchLog sets no timeout).                                    *)
Fairness ==
  /\ \A h \in Handlers : WF_vars(HandlerStep(h))
  /\ \A g \in Groups : WF_vars(GroupStep(g))
  /\ \A g \in Groups, t \in Targets : WF_vars(LocalTaskStep(g, t))

Spec == Init /\ [][Next]_vars
FairSpec == Spec /\ Fairness

-----------------------------------------------------------------------------
(* Properties.                                                             *)

DbTypeOK ==
  /\ groupState \in [Groups -> {"absent", "running", "finished"}]
  /\ groupDir \in [Groups -> BOOLEAN]
  /\ taskRow \in [Groups -> [Targets -> TaskModel]]
  /\ previews \in [Groups -> [Targets -> Nat]]
  /\ used \subseteq Groups

DiskTypeOK ==
  /\ dirs \subseteq Groups
  /\ files \subseteq Groups \X Targets \X {"log", "slow"}

SchedTypeOK ==
  /\ runningTaskGroups \subseteq Groups
  /\ starts \in [Groups -> Nat]
  /\ run \in [Groups -> TaskGroup]
  /\ work \in [Groups -> [Targets -> Task]]

HandlerTypeOK ==
  /\ handler \in [Handlers -> Handler]
  /\ \A h \in Handlers : handler[h].pc # "idle" => handler[h].g \in Groups

(* Every variable keeps its type; a handler in progress serves a group.    *)
TypeOK == DbTypeOK /\ DiskTypeOK /\ SchedTypeOK /\ HandlerTypeOK /\ restarts \in Nat

(* InitTasks never meets a group whose tasks are already there, the case   *)
(* in which it panics ("task is already initialized"), and no two requests *)
(* initialise the same TaskGroup.                                          *)
InitTasksOnce ==
  \A h \in Handlers : handler[h].pc = "init" =>
    /\ run[handler[h].g].pc = "registered"
    /\ run[handler[h].g].tasks = {}
    /\ \A k \in Handlers \ {h} : handler[k].pc = "init" => handler[k].g # handler[h].g

(* A goroutine of task t of group g may still write its row or its files.  *)
Active(g, t) == work[g][t].pc \notin {"none", "done"}

(* AsyncStart never replaces the TaskGroup of a group while goroutines of  *)
(* the previous one may still write the group's rows and files, however    *)
(* many retries are in flight.                                             *)
NoRunReplaced ==
  [][\A g \in Groups : starts'[g] # starts[g] =>
       run[g].pc = "none" /\ \A t \in Targets : ~Active(g, t)]_vars

(* Once a task of a listed group has failed, none of its lines stay in the *)
(* preview (RemoveDataAndPreview), whatever retries, deletions and         *)
(* restarts happen meanwhile.                                              *)
FailedTaskHasNoPreview ==
  \A g \in Groups, t \in Targets :
    groupState[g] # "absent" /\ taskRow[g][t].state = "error" /\ ~Active(g, t)
      => previews[g][t] = 0

(* A task that finished and was sent lines of the normal log has its       *)
(* LogStorePath set, so that DownloadLogs can serve them.                  *)
ReceivedLogIsKept ==
  \A g \in Groups, t \in Targets :
    work[g][t].pc = "done" /\ ~work[g][t].err /\ work[g][t].got => work[g][t].model.log

(* The file DownloadLogs serves for a task: the normal log, or else the    *)
(* slow log.                                                               *)
DownloadFile(g, t) == <<g, t, IF taskRow[g][t].log THEN "log" ELSE "slow">>

(* While requests come one at a time, a finished task with a store path    *)
(* can be downloaded: the file is there unless the group is being deleted. *)
DownloadReady ==
  \A g \in Groups, t \in Targets :
    taskRow[g][t].state = "finished" /\ (taskRow[g][t].log \/ taskRow[g][t].slow)
      => \/ DownloadFile(g, t) \in files
         \/ \E h \in Handlers : handler[h].g = g /\ handler[h].pc \in {"rmPreviews", "rmTasks"}

(* While requests come one at a time, preview rows belong to a task row    *)
(* and task rows to a group row, through partial deletions and restarts.   *)
NoOrphanRows ==
  \A g \in Groups, t \in Targets :
    /\ previews[g][t] > 0 => taskRow[g][t].state # "absent"
    /\ taskRow[g][t].state # "absent" => groupState[g] # "absent"

(* While requests come one at a time, every log file on disk is in the     *)
(* directory of a group row, so that a deletion or the cleanup of the next *)
(* start will remove it.                                                   *)
NoLeakedFile ==
  \A f \in files : groupState[f[1]] # "absent" /\ groupDir[f[1]]

(* While requests come one at a time, a group whose goroutine runs is      *)
(* listed as running, so that it can be cancelled but not retried or       *)
(* deleted.                                                                *)
LiveGroupListedRunning ==
  \A g \in Groups :
    run[g].pc \in {"registered", "mkdir", "saveDir", "tasks", "save"} => groupState[g] = "running"

(* A group whose row was deleted comes back only by a retry that had found *)
(* the row before: by the retry's own Save, or by that of the goroutine it *)
(* started.  However creations, cancels, deletions and restarts overlap,   *)
(* the goroutine of a new group never brings its row back.                 *)
OnlyRetryRevives ==
  [][\A g \in used :
       groupState[g] = "absent" /\ groupState'[g] # "absent" =>
         \/ \E h \in Handlers : handler[h].g = g /\ handler[h].pc = "saveGroup"
         \/ run[g].pc \in {"saveDir", "save"} /\ starts[g] > 1]_vars

(* An abort that reached the group's tasks ends the group, whatever the    *)
(* remote nodes do: every stream is cancelled, every task is saved and the *)
(* group leaves the scheduler.                                             *)
CancelEndsRun ==
  \A h \in Handlers, g \in Groups :
    (/\ handler[h].pc = "abortAll" /\ handler[h].g = g /\ handler[h].gen = starts[g]
     /\ run[g].pc \in {"mkdir", "saveDir", "tasks"})
      ~> (run[g].pc = "none")

(* A group listed as running has a goroutine, or a request that is about   *)
(* to start one: nothing but that goroutine will ever mark it finished.    *)
RunningGroupHasRun ==
  \A g \in Groups :
    groupState[g] = "running" =>
      run[g].pc # "none" \/ \E h \in Handlers : handler[h].g = g

(* When a cancel request that found its group in the scheduler's map is    *)
(* answered, and the group is still there, each task listed as running has *)
(* had its context cancelled.                                              *)
CancelReachesTasks ==
  [][\A h \in Handlers, t \in Targets :
       (/\ handler[h].pc = "abortAll" /\ handler'[h].pc = "idle"
        /\ handler[h].g \in runningTaskGroups
        /\ restarts' = restarts /\ taskRow[handler[h].g][t].state = "running")
         => work'[handler[h].g][t].cancelled]_vars
=============================================================================
