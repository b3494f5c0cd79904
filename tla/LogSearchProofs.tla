-------------------------- MODULE LogSearchProofs --------------------------
(***************************************************************************)
(* Theorems about LogSearch for any number of groups, targets and          *)
(* concurrent requests.                                                    *)
(***************************************************************************)
EXTENDS LogSearch, FiniteSetTheorems, TLAPS

(* A request that will start a group has at least one task for it, and     *)
(* never holds a model in state "error".                                   *)
RequestOK(r) ==
  /\ r.pc \in {"insertTasks", "saveGroup", "saveTasks", "start", "init"}
       => TasksOf(r.models) # {}
  /\ \A t \in Targets : r.models[t].state # "error"

RequestInv == \A h \in Handlers : RequestOK(handler[h])

(* The scheduler's map holds exactly the groups that have a live object;   *)
(* the tasks of that object are missing until InitTasks, and their         *)
(* goroutines are over before SyncRun returns.                             *)
MapInv ==
  \A g \in Groups :
    /\ g \in runningTaskGroups <=> run[g].pc # "none"
    /\ run[g].pc = "registered" => run[g].tasks = {}
    /\ \A t \in Targets : Active(g, t) => /\ t \in run[g].tasks
                                          /\ run[g].pc \in {"mkdir", "saveDir", "tasks"}

(* Nothing exists for an id that was not handed out.                       *)
UsedInv ==
  /\ \A h \in Handlers : handler[h].pc # "idle" => handler[h].g \in used
  /\ \A h \in Handlers : handler[h].pc = "idle" => handler[h].g = NoGroup
  /\ \A g \in Groups :
       /\ run[g].pc # "none" => g \in used
       /\ groupState[g] # "absent" => g \in used
       /\ \A t \in Targets : taskRow[g][t].state # "absent" => g \in used

(* An error is set only on the way out of a task, and the preview rows of  *)
(* the task are gone when the error is saved.                              *)
ErrorInv ==
  \A g \in Groups, t \in Targets :
    /\ work[g][t].pc \in {"open", "recv"} => ~work[g][t].err
    /\ work[g][t].pc = "save" /\ work[g][t].err => previews[g][t] = 0

(* A failed task that has preview rows nevertheless.  A restart can leave  *)
(* one behind, when the group's row was deleted while a retry ran.         *)
Dirty(g, t) ==
  taskRow[g][t].state = "error" /\ ~Active(g, t) /\ previews[g][t] # 0

(* Such a row belongs to a group that is deleted and that nobody handles,  *)
(* so that nothing will list it again.                                     *)
DirtyInv ==
  \A g \in Groups, t \in Targets : Dirty(g, t) =>
    /\ groupState[g] = "absent"
    /\ run[g].pc = "none"
    /\ \A h \in Handlers : handler[h].g # g

IInv == TypeOK /\ RequestInv /\ MapInv /\ InitTasksOnce /\ UsedInv /\ ErrorInv /\ DirtyInv

-----------------------------------------------------------------------------
(* Types of the records, and of the functions that hold them.              *)

(* The constants of the model have the types of their records.             *)
LEMMA RecordTypes ==
  /\ NoTask \in TaskModel /\ NewTask \in TaskModel
  /\ Idle \in Handler /\ NoRun \in TaskGroup /\ NoWork \in Task
<1>1. NoTask \in TaskModel /\ NewTask \in TaskModel
  BY DEF NoTask, NewTask, TaskModel
<1>2. Idle \in Handler
  BY <1>1 DEF Idle, Handler
<1>3. NoRun \in TaskGroup
  BY DEF NoRun, TaskGroup
<1>4. NoWork \in Task
  BY <1>1 DEF NoWork, Task
<1> QED
  BY <1>1, <1>2, <1>3, <1>4

(* Replacing one handler's record keeps the handlers' type and touches no  *)
(* other handler.                                                          *)
LEMMA HandlerUpdate ==
  ASSUME HandlerTypeOK, NEW h \in Handlers, NEW r \in Handler,
         r.pc # "idle" => r.g \in Groups, SetHandler(h, r)
  PROVE  /\ HandlerTypeOK'
         /\ handler'[h] = r
         /\ \A k \in Handlers : k # h => handler'[k] = handler[k]
  BY DEF HandlerTypeOK, SetHandler

(* The same for the TaskGroup object of one group.                         *)
LEMMA RunUpdate ==
  ASSUME run \in [Groups -> TaskGroup], NEW g \in Groups, NEW r \in TaskGroup, SetRun(g, r)
  PROVE  /\ run' \in [Groups -> TaskGroup]
         /\ run'[g] = r
         /\ \A k \in Groups : k # g => run'[k] = run[k]
  BY DEF SetRun

(* The same for one Task object.                                           *)
LEMMA WorkUpdate ==
  ASSUME work \in [Groups -> [Targets -> Task]], NEW g \in Groups, NEW t \in Targets,
         NEW w \in Task, SetWork(g, t, w)
  PROVE  /\ work' \in [Groups -> [Targets -> Task]]
         /\ work'[g][t] = w
         /\ \A k \in Groups, u \in Targets : <<k, u>> # <<g, t>> => work'[k][u] = work[k][u]
  BY DEF SetWork

(* The cap AsyncStart computes is a number, because a group that is        *)
(* started has tasks.                                                      *)
LEMMA CapType ==
  ASSUME NEW n \in Nat \ {0}
  PROVE  PreviewLinesPerTask(n) \in Nat
  BY LogSearchAssumption DEF PreviewLinesPerTask

(* AsyncStart divides by the number of tasks it was given: it is never 0.  *)
LEMMA StartedTasks ==
  ASSUME RequestInv, NEW h \in Handlers, handler[h].pc = "start"
  PROVE  Cardinality(TasksOf(handler[h].models)) \in Nat \ {0}
<1>1. TasksOf(handler[h].models) \subseteq Targets /\ TasksOf(handler[h].models) # {}
  BY DEF RequestInv, RequestOK, TasksOf
<1>2. IsFiniteSet(TasksOf(handler[h].models))
  BY <1>1, LogSearchAssumption, FS_Subset
<1> QED
  BY <1>1, <1>2, FS_CardinalityType, FS_EmptySet

(* What a step of handler h does to the handlers: it answers its request,  *)
(* goes on for the same group, or takes a request for a group that is in   *)
(* the table or that it creates; only AsyncStart leads to InitTasks.       *)
Effect(h, r) ==
  \/ r = Idle
  \/ /\ handler[h].pc # "idle" /\ r.pc # "idle"
     /\ r.g = handler[h].g
     /\ r.pc = "init" => AsyncStart(h) /\ NotRegistered(handler[h].g)
  \/ /\ handler[h].pc = "idle" /\ r.pc \notin {"idle", "init"}
     /\ r.g \in Groups
     /\ groupState[r.g] # "absent" \/ (r.g \notin used /\ r.g \in used')

(* A step that sets its handler to a good record has the effect            *)
(* HandlerEffect states.                                                   *)
LEMMA EffectSuffices ==
  ASSUME TypeOK, NEW h \in Handlers, NEW r \in Handler, SetHandler(h, r),
         Effect(h, r), RequestOK(r)
  PROVE  /\ HandlerTypeOK'
         /\ Effect(h, handler'[h])
         /\ RequestOK(handler'[h])
         /\ \A k \in Handlers : k # h => handler'[k] = handler[k]
<1>1. r.pc # "idle" => r.g \in Groups
  BY DEF Effect, Idle, TypeOK, HandlerTypeOK
<1> QED
  BY <1>1, HandlerUpdate DEF TypeOK

(* Every step of a handler has such an effect, and leaves the other        *)
(* handlers alone.                                                         *)
LEMMA HandlerEffect ==
  ASSUME TypeOK, RequestInv, NEW h \in Handlers, Request(h) \/ HandlerStep(h)
  PROVE  /\ HandlerTypeOK'
         /\ Effect(h, handler'[h])
         /\ RequestOK(handler'[h])
         /\ \A k \in Handlers : k # h => handler'[k] = handler[k]
<1>0. SUFFICES \E r \in Handler : SetHandler(h, r) /\ Effect(h, r) /\ RequestOK(r)
  BY EffectSuffices
<1> DEFINE Good(r) == SetHandler(h, r) /\ Effect(h, r) /\ RequestOK(r)
<1>1. Idle \in Handler /\ RequestOK(Idle) /\ Idle.pc = "idle" /\ Effect(h, Idle)
  BY RecordTypes DEF Idle, RequestOK, NoTask, Effect
<1>2. ASSUME Answer(h) PROVE Good(Idle)
  BY <1>1, <1>2 DEF Answer
<1>3. handler[h] \in Handler /\ RequestOK(handler[h])
  BY DEF TypeOK, HandlerTypeOK, RequestInv
<1>4. ASSUME CreateTaskGroup(h) PROVE \E r \in Handler : Good(r)
  <2>1. PICK g \in Groups \ used, ts \in (SUBSET Targets) \ {{}} :
          /\ used' = used \cup {g}
          /\ SetHandler(h, [Idle EXCEPT
               !.pc = "insertTasks", !.g = g, !.todo = ts,
               !.models = [t \in Targets |-> IF t \in ts THEN NewTask ELSE NoTask]])
    BY <1>4 DEF CreateTaskGroup
  <2> DEFINE m == [t \in Targets |-> IF t \in ts THEN NewTask ELSE NoTask]
             r == [Idle EXCEPT !.pc = "insertTasks", !.g = g, !.todo = ts, !.models = m]
  <2>2. m \in [Targets -> TaskModel]
    BY RecordTypes
  <2>3. TasksOf(m) = ts /\ \A t \in Targets : m[t].state # "error"
    BY DEF TasksOf, NewTask, NoTask
  <2> HIDE DEF m
  <2>4. r \in Handler /\ r.pc = "insertTasks" /\ r.g = g /\ r.models = m
    BY <1>1, <2>2 DEF Idle, Handler, HandlerPCs
  <2>5. handler[h].pc = "idle"
    BY <1>4 DEF CreateTaskGroup
  <2>6. SetHandler(h, r)
    BY <2>1 DEF m
  <2> HIDE DEF r
  <2>7. Effect(h, r)
    BY <2>1, <2>4, <2>5 DEF Effect
  <2>8. RequestOK(r)
    <3>1. ts # {}
      OBVIOUS
    <3>2. TasksOf(r.models) # {} /\ \A t \in Targets : r.models[t].state # "error"
      BY <2>3, <2>4, <3>1
    <3> QED
      BY <3>2 DEF RequestOK
  <2> QED
    BY <2>4, <2>6, <2>7, <2>8
<1>5. ASSUME RetryTask(h) \/ DeleteTaskGroup(h) \/ CancelTask(h) PROVE \E r \in Handler : Good(r)
  <2>1. PICK g \in Groups, pc \in {"findTasks", "rmDir", "abort"}, dir \in BOOLEAN :
          /\ handler[h].pc = "idle" /\ groupState[g] # "absent"
          /\ \/ SetHandler(h, [Idle EXCEPT !.pc = pc, !.g = g, !.dir = dir])
             \/ SetHandler(h, [Idle EXCEPT !.pc = pc, !.g = g])
    <3>1. \A g \in Groups : groupDir[g] \in BOOLEAN
      BY DEF TypeOK, DbTypeOK
    <3>2. CASE RetryTask(h)
      BY <3>1, <3>2 DEF RetryTask
    <3>3. CASE DeleteTaskGroup(h)
      BY <3>1, <3>3 DEF DeleteTaskGroup, Deletable
    <3>4. CASE CancelTask(h)
      BY <3>4 DEF CancelTask
    <3> QED
      BY <1>5, <3>2, <3>3, <3>4
  <2> DEFINE r1 == [Idle EXCEPT !.pc = pc, !.g = g, !.dir = dir]
             r2 == [Idle EXCEPT !.pc = pc, !.g = g]
  <2>2. /\ r1 \in Handler /\ r1.pc = pc /\ r1.g = g /\ r1.models = Idle.models
        /\ r2 \in Handler /\ r2.pc = pc /\ r2.g = g /\ r2.models = Idle.models
    BY <1>1 DEF Idle, Handler, HandlerPCs
  <2>3. SetHandler(h, r1) \/ SetHandler(h, r2)
    BY <2>1
  <2> HIDE DEF r1, r2
  <2>4. RequestOK(r1) /\ RequestOK(r2)
    BY <1>1, <2>2 DEF RequestOK
  <2> QED
    BY <2>1, <2>2, <2>3, <2>4 DEF Effect
<1>6. ASSUME InsertTask(h) \/ ResetTask(h) PROVE \E r \in Handler : Good(r)
  <2>1. PICK t \in Targets, pc \in {"insertTasks", "saveTasks", "start"} :
          /\ handler[h].pc \in {"insertTasks", "saveTasks"}
          /\ SetHandler(h, [handler[h] EXCEPT !.todo = handler[h].todo \ {t}, !.pc = pc])
    BY <1>3, <1>6 DEF InsertTask, ResetTask, Handler
  <2> DEFINE r == [handler[h] EXCEPT !.todo = handler[h].todo \ {t}, !.pc = pc]
  <2>2. r \in Handler /\ r.pc = pc /\ r.g = handler[h].g /\ r.models = handler[h].models
    BY <1>3 DEF Handler, HandlerPCs
  <2>3. SetHandler(h, r)
    BY <2>1
  <2> HIDE DEF r
  <2> QED
    BY <1>3, <2>1, <2>2, <2>3 DEF Effect, RequestOK
<1>7. ASSUME FindFailedTasks(h), ~Answer(h) PROVE \E r \in Handler : Good(r)
  <2> DEFINE m == FailedTasks(handler[h].g)
  <2>1. handler[h].g \in Groups
    BY <1>7 DEF FindFailedTasks, TypeOK, HandlerTypeOK
  <2>2. \A t \in Targets : taskRow[handler[h].g][t] \in TaskModel
    BY <2>1 DEF TypeOK, DbTypeOK
  <2>3. m \in [Targets -> TaskModel] /\ \A t \in Targets : m[t].state # "error"
    BY <2>2, RecordTypes DEF FailedTasks, TaskModel, NoTask
  <2>4. TasksOf(m) \in SUBSET Targets
    BY DEF TasksOf
  <2>5. /\ handler[h].pc = "findTasks" /\ TasksOf(m) # {}
        /\ SetHandler(h, [handler[h] EXCEPT !.models = m, !.todo = TasksOf(m), !.pc = "saveGroup"])
    BY <1>7 DEF FindFailedTasks
  <2> HIDE DEF m
  <2> DEFINE r == [handler[h] EXCEPT !.models = m, !.todo = TasksOf(m), !.pc = "saveGroup"]
  <2>6. r \in Handler /\ r.pc = "saveGroup" /\ r.g = handler[h].g /\ r.models = m
    BY <1>3, <2>3, <2>4 DEF Handler, HandlerPCs
  <2>7. SetHandler(h, r)
    BY <2>5
  <2> HIDE DEF r
  <2> QED
    BY <2>3, <2>5, <2>6, <2>7 DEF Effect, RequestOK
<1>8. ASSUME AsyncAbort(h), ~Answer(h) PROVE \E r \in Handler : Good(r)
  <2> DEFINE r == [handler[h] EXCEPT !.pc = "abortAll", !.gen = starts[handler[h].g]]
  <2>1. handler[h].g \in Groups /\ handler[h].pc = "abort"
    BY <1>8 DEF AsyncAbort, TypeOK, HandlerTypeOK
  <2>2. r \in Handler /\ r.pc = "abortAll" /\ r.g = handler[h].g /\ r.models = handler[h].models
    BY <1>3, <2>1 DEF Handler, HandlerPCs, TypeOK, SchedTypeOK
  <2>3. SetHandler(h, r)
    BY <1>8 DEF AsyncAbort
  <2> HIDE DEF r
  <2> QED
    BY <1>3, <2>1, <2>2, <2>3 DEF Effect, RequestOK
<1>9. ASSUME ResetGroup(h) \/ AsyncStart(h) \/ RemoveDir(h) \/ DeletePreviews(h) \/ DeleteTasks(h),
             ~Answer(h)
      PROVE  \E r \in Handler : Good(r)
  <2>1. PICK pc \in {"saveTasks", "init", "rmPreviews", "rmTasks", "rmGroup"} :
          /\ Goto(h, pc)
          /\ handler[h].pc # "idle"
          /\ pc = "saveTasks" => handler[h].pc = "saveGroup"
          /\ pc = "init" => handler[h].pc = "start" /\ AsyncStart(h) /\ NotRegistered(handler[h].g)
    BY <1>9 DEF ResetGroup, AsyncStart, RemoveDir, DeletePreviews, DeleteTasks
  <2> DEFINE r == [handler[h] EXCEPT !.pc = pc]
  <2>2. r \in Handler /\ r.pc = pc /\ r.g = handler[h].g /\ r.models = handler[h].models
    BY <1>3 DEF Handler, HandlerPCs
  <2>3. SetHandler(h, r)
    BY <2>1 DEF Goto
  <2> HIDE DEF r
  <2> QED
    BY <1>3, <2>1, <2>2, <2>3 DEF Effect, RequestOK
<1>10. ASSUME InitTasks(h) \/ AbortAll(h) \/ DeleteGroup(h) PROVE Answer(h)
  BY <1>10 DEF InitTasks, AbortAll, DeleteGroup
<1> HIDE DEF Good
<1>11. \E r \in Handler : Good(r)
  BY <1>1, <1>2, <1>4, <1>5, <1>6, <1>7, <1>8, <1>9, <1>10 DEF Request, HandlerStep
<1> QED
  BY <1>0, <1>11 DEF Good

(* What a step of task t of group g does: it works for a live group; an    *)
(* error leads to the removal of the preview rows, which leads to the save *)
(* of the row.                                                             *)
TaskFate(g, t) ==
  LET old == work[g][t] new == work'[g][t] IN
  \/ /\ old.pc \in {"open", "recv"} /\ new.pc \in {"open", "recv"}
     /\ new.err = old.err
     /\ UNCHANGED taskRow
     /\ \A k \in Groups, u \in Targets : <<k, u>> # <<g, t>> => previews'[k][u] = previews[k][u]
  \/ /\ old.pc \in {"open", "recv"} /\ new.pc = "clean"
     /\ UNCHANGED <<taskRow, previews>>
  \/ /\ old.pc = "recv" /\ new.pc = "save"
     /\ new.err = old.err
     /\ UNCHANGED <<taskRow, previews>>
  \/ /\ old.pc = "clean" /\ new.pc = "save"
     /\ UNCHANGED taskRow
     /\ previews'[g][t] = 0
     /\ \A k \in Groups, u \in Targets : <<k, u>> # <<g, t>> => previews'[k][u] = previews[k][u]
  \/ /\ old.pc = "save" /\ new.pc = "done"
     /\ UNCHANGED previews
     /\ taskRow'[g][t].state = IF old.err THEN "error" ELSE "finished"
     /\ \A k \in Groups, u \in Targets : <<k, u>> # <<g, t>> => taskRow'[k][u] = taskRow[k][u]

(* Every step of a task's goroutine has one of these effects and touches   *)
(* no other task.                                                          *)
LEMMA TaskEffect ==
  ASSUME TypeOK, NEW g \in Groups, NEW t \in Targets, TaskStep(g, t)
  PROVE  /\ work' \in [Groups -> [Targets -> Task]]
         /\ TaskFate(g, t)
         /\ \A k \in Groups, u \in Targets : <<k, u>> # <<g, t>> => work'[k][u] = work[k][u]
         /\ run[g].pc = "tasks" /\ t \in run[g].tasks
         /\ UNCHANGED <<groupState, used, runningTaskGroups, starts, run, handler>>
<1> DEFINE w == work[g][t]
<1>1. w \in Task
  BY DEF TypeOK, SchedTypeOK
<1>2. WithPath(w) \in TaskModel
  BY <1>1 DEF Task, TaskModel, WithPath
<1>3. work \in [Groups -> [Targets -> Task]]
  BY DEF TypeOK, SchedTypeOK
<1> HIDE DEF w
<1>4. ASSUME OpenLog(g, t) PROVE SetWork(g, t, [w EXCEPT !.pc = "recv", !.lines = 0, !.model.state = "running"])
  BY <1>4 DEF OpenLog, w
<1>5. ASSUME OpenLogFails(g, t) \/ WriteError(g, t)
      PROVE  SetWork(g, t, [w EXCEPT !.err = TRUE, !.pc = "clean"])
  BY <1>5 DEF OpenLogFails, WriteError, w
<1>6. ASSUME RecvLine(g, t)
      PROVE  SetWork(g, t, [w EXCEPT !.lines = IF Kept(g, w) THEN w.lines + 1 ELSE w.lines,
                                     !.got = w.got \/ w.kind = "log"])
  BY <1>6 DEF RecvLine, w
<1>7. ASSUME RecvError(g, t)
      PROVE  SetWork(g, t, [w EXCEPT !.model = WithPath(w), !.err = TRUE, !.pc = "clean"])
  BY <1>7 DEF RecvError, w
<1>8. ASSUME RecvEOF(g, t)
      PROVE  SetWork(g, t, [w EXCEPT !.model = WithPath(w),
                                     !.kind = IF t \in TiKV THEN "slow" ELSE "log",
                                     !.pc = IF w.kind = "log" /\ t \in TiKV THEN "open" ELSE "save"])
  BY <1>8 DEF RecvEOF, w
<1>9. ASSUME RemoveDataAndPreview(g, t) PROVE SetWork(g, t, [w EXCEPT !.model.log = FALSE, !.pc = "save"])
  BY <1>9 DEF RemoveDataAndPreview, w
<1>10. ASSUME SaveTask(g, t)
       PROVE  SetWork(g, t, [w EXCEPT !.model = [w.model EXCEPT !.state = IF w.err THEN "error" ELSE "finished"],
                                      !.pc = "done"])
  BY <1>10 DEF SaveTask, w
<1>11. /\ [w EXCEPT !.pc = "recv", !.lines = 0, !.model.state = "running"] \in Task
       /\ [w EXCEPT !.err = TRUE, !.pc = "clean"] \in Task
  BY <1>1 DEF Task, TaskModel
<1>14. [w EXCEPT !.lines = IF Kept(g, w) THEN w.lines + 1 ELSE w.lines,
                 !.got = w.got \/ w.kind = "log"] \in Task
  <2>1. (IF Kept(g, w) THEN w.lines + 1 ELSE w.lines) \in Nat
    BY <1>1 DEF Task
  <2>2. (w.got \/ w.kind = "log") \in BOOLEAN
    OBVIOUS
  <2> QED
    BY <1>1, <2>1, <2>2 DEF Task
<1>12. /\ [w EXCEPT !.model = WithPath(w), !.err = TRUE, !.pc = "clean"] \in Task
       /\ [w EXCEPT !.model = WithPath(w),
                    !.kind = IF t \in TiKV THEN "slow" ELSE "log",
                    !.pc = IF w.kind = "log" /\ t \in TiKV THEN "open" ELSE "save"] \in Task
  BY <1>1, <1>2 DEF Task
<1>13. /\ [w EXCEPT !.model.log = FALSE, !.pc = "save"] \in Task
       /\ [w EXCEPT !.model = [w.model EXCEPT !.state = IF w.err THEN "error" ELSE "finished"],
                    !.pc = "done"] \in Task
  BY <1>1 DEF Task, TaskModel
<1> DEFINE Set(r) == r \in Task /\ SetWork(g, t, r)
<1> DEFINE Others == \A k \in Groups, u \in Targets : <<k, u>> # <<g, t>> => work'[k][u] = work[k][u]
<1>15. ASSUME NEW r, Set(r)
       PROVE  work' \in [Groups -> [Targets -> Task]] /\ work'[g][t] = r /\ Others
  BY <1>3, <1>15, WorkUpdate
<1>16. /\ previews \in [Groups -> [Targets -> Nat]]
       /\ taskRow \in [Groups -> [Targets -> TaskModel]]
  BY DEF TypeOK, DbTypeOK
<1>17. /\ run[g].pc = "tasks" /\ t \in run[g].tasks
       /\ UNCHANGED <<groupState, used, runningTaskGroups, starts, run, handler>>
  BY DEF TaskStep, TaskAt, OpenLog, OpenLogFails, RecvLine, RecvError, WriteError, RecvEOF,
         RemoveDataAndPreview, SaveTask, dbVars
<1>18. ASSUME OpenLog(g, t) PROVE work' \in [Groups -> [Targets -> Task]] /\ TaskFate(g, t) /\ Others
  <2>1. [w EXCEPT !.pc = "recv", !.lines = 0, !.model.state = "running"].pc = "recv"
        /\ [w EXCEPT !.pc = "recv", !.lines = 0, !.model.state = "running"].err = w.err
    BY <1>1 DEF Task
  <2> QED
    BY <1>4, <1>11, <1>15, <1>18, <2>1 DEF OpenLog, TaskAt, TaskFate, dbVars, w
<1>19. ASSUME OpenLogFails(g, t) \/ WriteError(g, t)
       PROVE  work' \in [Groups -> [Targets -> Task]] /\ TaskFate(g, t) /\ Others
  <2>1. [w EXCEPT !.err = TRUE, !.pc = "clean"].pc = "clean"
    BY <1>1 DEF Task
  <2> QED
    BY <1>5, <1>11, <1>15, <1>19, <2>1 DEF OpenLogFails, WriteError, TaskAt, TaskFate, dbVars, w
<1>20. ASSUME RecvLine(g, t) PROVE work' \in [Groups -> [Targets -> Task]] /\ TaskFate(g, t) /\ Others
  <2> DEFINE r == [w EXCEPT !.lines = IF Kept(g, w) THEN w.lines + 1 ELSE w.lines,
                            !.got = w.got \/ w.kind = "log"]
  <2>1. r.pc = w.pc /\ r.err = w.err
    BY <1>1 DEF Task
  <2>2. Set(r)
    BY <1>6, <1>14, <1>20
  <2>3. w.pc = "recv" /\ UNCHANGED taskRow
    BY <1>20 DEF RecvLine, TaskAt, w
  <2>4. \A k \in Groups, u \in Targets : <<k, u>> # <<g, t>> => previews'[k][u] = previews[k][u]
    BY <1>16, <1>20 DEF RecvLine
  <2> HIDE DEF r
  <2> QED
    BY <1>15, <2>1, <2>2, <2>3, <2>4 DEF TaskFate, w
<1>21. ASSUME RecvError(g, t) PROVE work' \in [Groups -> [Targets -> Task]] /\ TaskFate(g, t) /\ Others
  <2>1. [w EXCEPT !.model = WithPath(w), !.err = TRUE, !.pc = "clean"].pc = "clean"
    BY <1>1 DEF Task
  <2> QED
    BY <1>7, <1>12, <1>15, <1>21, <2>1 DEF RecvError, TaskAt, TaskFate, dbVars, w
<1>22. ASSUME RecvEOF(g, t) PROVE work' \in [Groups -> [Targets -> Task]] /\ TaskFate(g, t) /\ Others
  <2> DEFINE r == [w EXCEPT !.model = WithPath(w),
                            !.kind = IF t \in TiKV THEN "slow" ELSE "log",
                            !.pc = IF w.kind = "log" /\ t \in TiKV THEN "open" ELSE "save"]
  <2>1. r.pc \in {"open", "save"} /\ r.err = w.err
    BY <1>1 DEF Task
  <2>2. Set(r)
    BY <1>8, <1>12, <1>22
  <2>3. w.pc = "recv" /\ UNCHANGED <<taskRow, previews>>
    BY <1>22 DEF RecvEOF, TaskAt, dbVars, w
  <2> HIDE DEF r
  <2> QED
    BY <1>15, <2>1, <2>2, <2>3 DEF TaskFate, w
<1>23. ASSUME RemoveDataAndPreview(g, t)
       PROVE  work' \in [Groups -> [Targets -> Task]] /\ TaskFate(g, t) /\ Others
  <2> DEFINE r == [w EXCEPT !.model.log = FALSE, !.pc = "save"]
  <2>1. r.pc = "save"
    BY <1>1 DEF Task
  <2>2. Set(r)
    BY <1>9, <1>13, <1>23
  <2>3. /\ w.pc = "clean" /\ UNCHANGED taskRow
        /\ previews'[g][t] = 0
        /\ \A k \in Groups, u \in Targets : <<k, u>> # <<g, t>> => previews'[k][u] = previews[k][u]
    BY <1>16, <1>23 DEF RemoveDataAndPreview, TaskAt, w
  <2> HIDE DEF r
  <2> QED
    BY <1>15, <2>1, <2>2, <2>3 DEF TaskFate, w
<1>24. ASSUME SaveTask(g, t) PROVE work' \in [Groups -> [Targets -> Task]] /\ TaskFate(g, t) /\ Others
  <2> DEFINE m == [w.model EXCEPT !.state = IF w.err THEN "error" ELSE "finished"]
             r == [w EXCEPT !.model = m, !.pc = "done"]
  <2>1. m.state = (IF w.err THEN "error" ELSE "finished") /\ r.pc = "done"
    BY <1>1 DEF Task, TaskModel
  <2>2. Set(r)
    BY <1>10, <1>13, <1>24
  <2>3. w.pc = "save" /\ UNCHANGED previews /\ taskRow' = [taskRow EXCEPT ![g][t] = m]
    BY <1>24 DEF SaveTask, TaskAt, w
  <2> HIDE DEF r, m
  <2>4. /\ taskRow'[g][t] = m
        /\ \A k \in Groups, u \in Targets : <<k, u>> # <<g, t>> => taskRow'[k][u] = taskRow[k][u]
    BY <1>16, <2>3
  <2> QED
    BY <1>15, <2>1, <2>2, <2>3, <2>4 DEF TaskFate, w
<1> HIDE DEF Others
<1>25. work' \in [Groups -> [Targets -> Task]] /\ TaskFate(g, t) /\ Others
  BY <1>18, <1>19, <1>20, <1>21, <1>22, <1>23, <1>24 DEF TaskStep
<1> QED
  BY <1>17, <1>25 DEF Others

(* Answering a request frees its handler.                                  *)
LEMMA AnswerEffect ==
  ASSUME HandlerTypeOK, NEW h \in Handlers, Answer(h)
  PROVE  handler'[h] = Idle /\ \A k \in Handlers : k # h => handler'[k] = handler[k]
  BY RecordTypes, HandlerUpdate DEF Answer, Idle

(* A handler that moves on is at the statement it moved to.                *)
LEMMA GotoEffect ==
  ASSUME HandlerTypeOK, NEW h \in Handlers, NEW pc \in HandlerPCs, Goto(h, pc)
  PROVE  handler'[h].pc = pc
<1>1. handler[h] \in Handler
  BY DEF HandlerTypeOK
<1> QED
  BY <1>1 DEF Goto, SetHandler, Handler, HandlerTypeOK

(* Only AsyncStart, InitTasks and AbortAll touch the scheduler.            *)
LEMMA SchedUnchanged ==
  ASSUME NEW h \in Handlers, Request(h) \/ HandlerStep(h)
  PROVE  AsyncStart(h) \/ InitTasks(h) \/ AbortAll(h) \/ UNCHANGED schedVars
  BY DEF Request, HandlerStep, CreateTaskGroup, RetryTask, CancelTask, DeleteTaskGroup, InsertTask,
         FindFailedTasks, ResetGroup, ResetTask, AsyncAbort, RemoveDir, DeletePreviews,
         DeleteTasks, DeleteGroup

(* AbortAll cancels contexts: it moves no goroutine and changes nothing    *)
(* else of a task.                                                         *)
SameTask(v, w) ==
  /\ v.pc = w.pc /\ v.err = w.err
  /\ v.model = w.model /\ v.kind = w.kind
  /\ v.lines = w.lines /\ v.got = w.got

LEMMA AbortEffect ==
  ASSUME TypeOK, NEW h \in Handlers, AbortAll(h)
  PROVE  /\ UNCHANGED <<runningTaskGroups, run>>
         /\ \A g \in Groups, t \in Targets : SameTask(work'[g][t], work[g][t])
<1> DEFINE g == handler[h].g
           new == [t \in Targets |-> IF t \in AbortedTasks(g)
                                     THEN [work[g][t] EXCEPT !.cancelled = TRUE]
                                     ELSE work[g][t]]
<1>1. g \in Groups
  BY DEF TypeOK, HandlerTypeOK, AbortAll
<1>2. \A t \in Targets : work[g][t] \in Task
  BY <1>1 DEF TypeOK, SchedTypeOK
<1>3. \A t \in Targets : SameTask(new[t], work[g][t])
  BY <1>2 DEF Task, SameTask
<1>4. /\ work' = [work EXCEPT ![g] = new] \/ UNCHANGED work
      /\ UNCHANGED <<runningTaskGroups, run>>
  BY DEF AbortAll
<1>5. work \in [Groups -> [Targets -> Task]]
  BY DEF TypeOK, SchedTypeOK
<1>6. \A k \in Groups, t \in Targets : SameTask(work[k][t], work[k][t])
  BY DEF SameTask
<1> HIDE DEF g, new
<1> QED
  BY <1>1, <1>3, <1>4, <1>5, <1>6

(* What a step of the goroutine of group g does to its object.             *)
GroupFate(g) ==
  \/ /\ run[g].pc \in {"mkdir", "saveDir"} /\ run'[g].pc \in {"saveDir", "tasks"}
     /\ run'[g].tasks = run[g].tasks
     /\ UNCHANGED runningTaskGroups
  \/ /\ run[g].pc = "tasks" /\ run'[g].pc = "save"
     /\ \A t \in run[g].tasks : work[g][t].pc = "done"
     /\ run'[g].tasks = run[g].tasks
     /\ UNCHANGED runningTaskGroups
  \/ /\ run[g].pc = "save" /\ run'[g].pc = "unregister"
     /\ run'[g].tasks = run[g].tasks
     /\ UNCHANGED runningTaskGroups
  \/ /\ run[g].pc = "unregister" /\ run'[g].pc = "none"
     /\ runningTaskGroups' = runningTaskGroups \ {g}

(* Every step of a group's goroutine has one of these effects and touches  *)
(* no other group.                                                         *)
LEMMA GroupEffect ==
  ASSUME TypeOK, NEW g \in Groups, GroupStep(g)
  PROVE  /\ GroupFate(g)
         /\ \A k \in Groups : k # g => run'[k] = run[k]
         /\ \A k \in Groups : k # g => groupState'[k] = groupState[k]
         /\ UNCHANGED <<taskRow, previews, used, starts, work, handler>>
<1>1. run[g] \in TaskGroup /\ run \in [Groups -> TaskGroup]
  BY DEF TypeOK, SchedTypeOK
<1>2. groupState \in [Groups -> {"absent", "running", "finished"}]
  BY DEF TypeOK, DbTypeOK
<1>3. /\ UNCHANGED <<taskRow, previews, used, starts, work, handler>>
      /\ \A k \in Groups : k # g => groupState'[k] = groupState[k]
  BY <1>2 DEF GroupStep, MakeDir, SaveDir, WaitTasks, SaveFinished, Unregister, dbVars
<1>4. ASSUME NEW r, SetRun(g, r) PROVE run'[g] = r /\ \A k \in Groups : k # g => run'[k] = run[k]
  BY <1>1, <1>4 DEF SetRun
<1>5. \A pc \in {"tasks", "save", "unregister"} :
        LET r == [run[g] EXCEPT !.pc = pc] IN r.pc = pc /\ r.tasks = run[g].tasks
  BY <1>1 DEF TaskGroup
<1>6. LET r == [run[g] EXCEPT !.dir = TRUE, !.pc = "saveDir"]
      IN r.pc = "saveDir" /\ r.tasks = run[g].tasks
  BY <1>1 DEF TaskGroup
<1>7. CASE MakeDir(g)
  BY <1>3, <1>4, <1>5, <1>6, <1>7 DEF MakeDir, GroupFate
<1>8. CASE SaveDir(g)
  BY <1>3, <1>4, <1>5, <1>8 DEF SaveDir, GroupFate
<1>9. CASE WaitTasks(g)
  BY <1>3, <1>4, <1>5, <1>9 DEF WaitTasks, GroupFate
<1>10. CASE SaveFinished(g)
  BY <1>3, <1>4, <1>5, <1>10 DEF SaveFinished, GroupFate
<1>11. CASE Unregister(g)
  BY <1>3, <1>4, <1>11 DEF Unregister, GroupFate, NoRun
<1> QED
  BY <1>7, <1>8, <1>9, <1>10, <1>11 DEF GroupStep

(* Every step keeps the types of the scheduler's objects.                  *)
LEMMA SchedType ==
  ASSUME TypeOK, RequestInv, [Next]_vars
  PROVE  SchedTypeOK'
<1> SUFFICES ASSUME ~(UNCHANGED schedVars) PROVE SchedTypeOK'
  BY DEF TypeOK, SchedTypeOK, schedVars
<1>0. SchedTypeOK /\ HandlerTypeOK
  BY DEF TypeOK
<1>1. ASSUME NEW h \in Handlers, AsyncStart(h) PROVE SchedTypeOK'
  <2> DEFINE g == handler[h].g
             n == Cardinality(TasksOf(handler[h].models))
             r == [NoRun EXCEPT !.pc = "registered", !.dir = handler[h].dir,
                                !.cap = PreviewLinesPerTask(n)]
  <2>1. handler[h] \in Handler /\ g \in Groups
    BY <1>0, <1>1 DEF HandlerTypeOK, AsyncStart
  <2>2. PreviewLinesPerTask(n) \in Nat
    BY <1>1, StartedTasks, CapType DEF AsyncStart
  <2>3. r \in TaskGroup
    BY <2>1, <2>2 DEF NoRun, TaskGroup, Handler
  <2>4. /\ runningTaskGroups' = runningTaskGroups \cup {g}
        /\ starts' = [starts EXCEPT ![g] = @ + 1]
        /\ SetRun(g, r)
        /\ work' = [work EXCEPT ![g] = [t \in Targets |-> NoWork]]
    BY <1>1 DEF AsyncStart
  <2> HIDE DEF g, r
  <2>5. run' \in [Groups -> TaskGroup]
    BY <1>0, <2>1, <2>3, <2>4, RunUpdate DEF SchedTypeOK
  <2>6. starts' \in [Groups -> Nat]
    BY <1>0, <2>1, <2>4 DEF SchedTypeOK
  <2>7. work' \in [Groups -> [Targets -> Task]]
    BY <1>0, <2>1, <2>4, RecordTypes DEF SchedTypeOK
  <2> QED
    BY <1>0, <2>1, <2>4, <2>5, <2>6, <2>7 DEF SchedTypeOK
<1>2. ASSUME NEW h \in Handlers, InitTasks(h) PROVE SchedTypeOK'
  <2> DEFINE g == handler[h].g
             ts == TasksOf(handler[h].models)
             new == [t \in Targets |-> IF t \in ts
                                       THEN [NoWork EXCEPT !.pc = "open", !.model = handler[h].models[t]]
                                       ELSE NoWork]
  <2>1. handler[h] \in Handler /\ g \in Groups /\ run[g] \in TaskGroup
    BY <1>0, <1>2 DEF HandlerTypeOK, SchedTypeOK, InitTasks
  <2>2. ts \in SUBSET Targets
    BY DEF TasksOf
  <2>3. [run[g] EXCEPT !.tasks = ts, !.pc = "mkdir"] \in TaskGroup
    BY <2>1, <2>2 DEF TaskGroup
  <2>4. \A t \in Targets : handler[h].models[t] \in TaskModel
    BY <2>1 DEF Handler
  <2>5. new \in [Targets -> Task]
    BY <2>4, RecordTypes DEF NoWork, Task
  <2>6. /\ SetRun(g, [run[g] EXCEPT !.tasks = ts, !.pc = "mkdir"])
        /\ work' = [work EXCEPT ![g] = new]
        /\ UNCHANGED <<runningTaskGroups, starts>>
    BY <1>2 DEF InitTasks
  <2> HIDE DEF g, ts, new
  <2>7. run' \in [Groups -> TaskGroup]
    BY <1>0, <2>1, <2>3, <2>6, RunUpdate DEF SchedTypeOK
  <2> QED
    BY <1>0, <2>1, <2>5, <2>6, <2>7 DEF SchedTypeOK
<1>3. ASSUME NEW h \in Handlers, AbortAll(h) PROVE SchedTypeOK'
  <2> DEFINE g == handler[h].g
             new == [t \in Targets |-> IF t \in AbortedTasks(g)
                                       THEN [work[g][t] EXCEPT !.cancelled = TRUE]
                                       ELSE work[g][t]]
  <2>1. g \in Groups
    BY <1>0, <1>3 DEF HandlerTypeOK, AbortAll
  <2>2. \A t \in Targets : work[g][t] \in Task
    BY <1>0, <2>1 DEF SchedTypeOK
  <2>3. new \in [Targets -> Task]
    BY <2>2 DEF Task
  <2>4. /\ work' = [work EXCEPT ![g] = new] \/ UNCHANGED work
        /\ UNCHANGED <<runningTaskGroups, starts, run>>
    BY <1>3 DEF AbortAll
  <2> HIDE DEF g, new
  <2> QED
    BY <1>0, <2>1, <2>3, <2>4 DEF SchedTypeOK
<1>4. ASSUME NEW g \in Groups, GroupStep(g) PROVE SchedTypeOK'
  <2>1. run[g] \in TaskGroup
    BY <1>0 DEF SchedTypeOK
  <2>2. PICK r \in TaskGroup : SetRun(g, r)
    <3>1. /\ [run[g] EXCEPT !.dir = TRUE, !.pc = "saveDir"] \in TaskGroup
          /\ \A pc \in {"tasks", "save", "unregister"} : [run[g] EXCEPT !.pc = pc] \in TaskGroup
      BY <2>1 DEF TaskGroup
    <3> QED
      BY <1>4, <3>1, RecordTypes DEF GroupStep, MakeDir, SaveDir, WaitTasks, SaveFinished, Unregister
  <2>3. /\ runningTaskGroups' \subseteq runningTaskGroups
        /\ UNCHANGED <<starts, work>>
    BY <1>4 DEF GroupStep, MakeDir, SaveDir, WaitTasks, SaveFinished, Unregister
  <2> QED
    BY <1>0, <2>2, <2>3, RunUpdate DEF SchedTypeOK
<1>5. ASSUME NEW g \in Groups, NEW t \in Targets, TaskStep(g, t) PROVE SchedTypeOK'
  <2>1. UNCHANGED <<runningTaskGroups, starts, run>>
    BY <1>5 DEF TaskStep, OpenLog, OpenLogFails, RecvLine, RecvError, WriteError, RecvEOF,
                RemoveDataAndPreview, SaveTask
  <2> QED
    BY <1>0, <1>5, <2>1, TaskEffect DEF SchedTypeOK
<1>6. CASE CrashRestart
  BY <1>0, <1>6, RecordTypes DEF CrashRestart, SchedTypeOK
<1>7. ASSUME NEW h \in Handlers, Request(h) \/ HandlerStep(h)
      PROVE  AsyncStart(h) \/ InitTasks(h) \/ AbortAll(h)
  BY <1>7 DEF Request, HandlerStep, CreateTaskGroup, RetryTask, CancelTask, DeleteTaskGroup, InsertTask,
              FindFailedTasks, ResetGroup, ResetTask, AsyncAbort, RemoveDir, DeletePreviews,
              DeleteTasks, DeleteGroup
<1> QED
  BY <1>1, <1>2, <1>3, <1>4, <1>5, <1>6, <1>7 DEF Next, vars

(* Every step keeps the types of the tables.                               *)
LEMMA DbType ==
  ASSUME TypeOK, [Next]_vars
  PROVE  DbTypeOK'
<1> SUFFICES ASSUME ~(UNCHANGED dbVars) PROVE DbTypeOK'
  BY DEF TypeOK, DbTypeOK, dbVars
<1>0. DbTypeOK /\ SchedTypeOK /\ HandlerTypeOK
  BY DEF TypeOK
<1>1. ASSUME NEW h \in Handlers, CreateTaskGroup(h) PROVE DbTypeOK'
  BY <1>0, <1>1 DEF DbTypeOK, CreateTaskGroup
<1>2. ASSUME NEW h \in Handlers, InsertTask(h) \/ ResetTask(h) PROVE DbTypeOK'
  <2>1. handler[h] \in Handler /\ handler[h].g \in Groups
    BY <1>0, <1>2 DEF HandlerTypeOK, InsertTask, ResetTask
  <2>2. PICK t \in Targets, m \in TaskModel : taskRow' = [taskRow EXCEPT ![handler[h].g][t] = m]
    BY <1>2, <2>1, RecordTypes DEF InsertTask, ResetTask, Handler
  <2>3. UNCHANGED <<groupState, groupDir, previews, used>>
    BY <1>2 DEF InsertTask, ResetTask
  <2> QED
    BY <1>0, <2>1, <2>2, <2>3 DEF DbTypeOK
<1>3. ASSUME NEW h \in Handlers, ResetGroup(h) \/ DeleteGroup(h) PROVE DbTypeOK'
  <2>1. handler[h] \in Handler /\ handler[h].g \in Groups
    BY <1>0, <1>3 DEF HandlerTypeOK, ResetGroup, DeleteGroup
  <2>2. handler[h].dir \in BOOLEAN
    BY <2>1 DEF Handler
  <2> QED
    BY <1>0, <1>3, <2>1, <2>2 DEF DbTypeOK, ResetGroup, DeleteGroup
<1>4. ASSUME NEW h \in Handlers, DeletePreviews(h) \/ DeleteTasks(h) PROVE DbTypeOK'
  <2>1. handler[h].g \in Groups
    BY <1>0, <1>4 DEF HandlerTypeOK, DeletePreviews, DeleteTasks
  <2>2. CASE DeletePreviews(h)
    BY <1>0, <2>1, <2>2 DEF DbTypeOK, DeletePreviews
  <2>3. CASE DeleteTasks(h)
    BY <1>0, <2>1, <2>3, RecordTypes DEF DbTypeOK, DeleteTasks
  <2> QED
    BY <1>4, <2>2, <2>3
<1>5. ASSUME NEW g \in Groups, SaveDir(g) \/ SaveFinished(g) PROVE DbTypeOK'
  <2>1. run[g].dir \in BOOLEAN
    BY <1>0 DEF SchedTypeOK, TaskGroup
  <2> QED
    BY <1>0, <1>5, <2>1 DEF DbTypeOK, SaveDir, SaveFinished
<1>6. ASSUME NEW g \in Groups, NEW t \in Targets, RecvLine(g, t) \/ RemoveDataAndPreview(g, t)
      PROVE  DbTypeOK'
  <2>1. PICK n \in Nat : previews' = [previews EXCEPT ![g][t] = n] \/ previews' = previews
    <3>1. previews[g][t] \in Nat
      BY <1>0 DEF DbTypeOK
    <3> QED
      BY <1>6, <3>1 DEF RecvLine, RemoveDataAndPreview
  <2>2. previews' \in [Groups -> [Targets -> Nat]]
    BY <1>0, <2>1 DEF DbTypeOK
  <2>3. UNCHANGED <<groupState, groupDir, taskRow, used>>
    BY <1>6 DEF RecvLine, RemoveDataAndPreview
  <2> QED
    BY <1>0, <2>2, <2>3 DEF DbTypeOK
<1>7. ASSUME NEW g \in Groups, NEW t \in Targets, SaveTask(g, t) PROVE DbTypeOK'
  <2>1. work[g][t].model \in TaskModel
    BY <1>0 DEF SchedTypeOK, Task
  <2>2. PICK m \in TaskModel : taskRow' = [taskRow EXCEPT ![g][t] = m]
    BY <1>7, <2>1 DEF SaveTask, TaskModel
  <2>3. UNCHANGED <<groupState, groupDir, previews, used>>
    BY <1>7 DEF SaveTask
  <2> QED
    BY <1>0, <2>2, <2>3 DEF DbTypeOK
<1>8. CASE CrashRestart
  BY <1>0, <1>8, RecordTypes DEF CrashRestart, DbTypeOK
<1>9. ASSUME NEW h \in Handlers, Request(h) \/ HandlerStep(h)
      PROVE  \/ CreateTaskGroup(h) \/ InsertTask(h) \/ ResetTask(h) \/ ResetGroup(h)
             \/ DeletePreviews(h) \/ DeleteTasks(h) \/ DeleteGroup(h)
  BY <1>9 DEF Request, HandlerStep, RetryTask, CancelTask, DeleteTaskGroup, FindFailedTasks, AsyncStart,
              InitTasks, AsyncAbort, AbortAll, RemoveDir
<1>10. ASSUME NEW g \in Groups, GroupStep(g) PROVE SaveDir(g) \/ SaveFinished(g)
  BY <1>10 DEF GroupStep, MakeDir, WaitTasks, Unregister
<1>11. ASSUME NEW g \in Groups, NEW t \in Targets, TaskStep(g, t)
       PROVE  RecvLine(g, t) \/ RemoveDataAndPreview(g, t) \/ SaveTask(g, t)
  BY <1>11 DEF TaskStep, OpenLog, OpenLogFails, RecvError, WriteError, RecvEOF
<1> QED
  BY <1>1, <1>2, <1>3, <1>4, <1>5, <1>6, <1>7, <1>8, <1>9, <1>10, <1>11 DEF Next, vars

(* Every step keeps the types of the directories and files.                *)
LEMMA DiskType ==
  ASSUME TypeOK, [Next]_vars
  PROVE  DiskTypeOK'
<1> SUFFICES ASSUME ~(UNCHANGED diskVars) PROVE DiskTypeOK'
  BY DEF TypeOK, DiskTypeOK, diskVars
<1>0. DiskTypeOK /\ SchedTypeOK
  BY DEF TypeOK
<1>1. ASSUME NEW h \in Handlers, Request(h) \/ HandlerStep(h) PROVE DiskTypeOK'
  BY <1>0, <1>1 DEF DiskTypeOK, RemoveDir, Request, HandlerStep, CreateTaskGroup, RetryTask, CancelTask,
                    DeleteTaskGroup, InsertTask, FindFailedTasks, ResetGroup, ResetTask, AsyncStart,
                    InitTasks, AsyncAbort, AbortAll, DeletePreviews, DeleteTasks, DeleteGroup
<1>2. ASSUME NEW g \in Groups, GroupStep(g) PROVE DiskTypeOK'
  BY <1>0, <1>2 DEF DiskTypeOK, GroupStep, MakeDir, SaveDir, WaitTasks, SaveFinished, Unregister
<1>3. ASSUME NEW g \in Groups, NEW t \in Targets, TaskStep(g, t) PROVE DiskTypeOK'
  <2>1. work[g][t].kind \in {"log", "slow"}
    BY <1>0 DEF SchedTypeOK, Task
  <2> QED
    BY <1>0, <1>3, <2>1 DEF DiskTypeOK, TaskStep, OpenLog, OpenLogFails, RecvLine, RecvError, WriteError,
                            RecvEOF, RemoveDataAndPreview, SaveTask
<1>4. CASE CrashRestart
  BY <1>0, <1>4 DEF DiskTypeOK, CrashRestart
<1> QED
  BY <1>1, <1>2, <1>3, <1>4 DEF Next, vars

(* Every step keeps TypeOK; RequestInv is needed because AsyncStart        *)
(* divides.                                                                *)
LEMMA TypeStep ==
  ASSUME TypeOK, RequestInv, [Next]_vars
  PROVE  TypeOK'
<1>1. HandlerTypeOK'
  <2>1. CASE UNCHANGED handler
    BY <2>1 DEF TypeOK, HandlerTypeOK
  <2>2. CASE CrashRestart
    BY <2>2, RecordTypes DEF CrashRestart, HandlerTypeOK, Idle
  <2>3. ASSUME NEW g \in Groups, GroupStep(g) \/ \E t \in Targets : TaskStep(g, t)
        PROVE  UNCHANGED handler
    BY <2>3 DEF GroupStep, MakeDir, SaveDir, WaitTasks, SaveFinished, Unregister, TaskStep, OpenLog,
                OpenLogFails, RecvLine, RecvError, WriteError, RecvEOF, RemoveDataAndPreview, SaveTask
  <2> QED
    BY <2>1, <2>2, <2>3, HandlerEffect DEF Next, vars
<1>2. restarts' \in Nat
  <2>1. ASSUME NEW h \in Handlers, Request(h) \/ HandlerStep(h) PROVE UNCHANGED restarts
    BY <2>1 DEF Request, HandlerStep, CreateTaskGroup, RetryTask, CancelTask,
                DeleteTaskGroup, InsertTask, FindFailedTasks, ResetGroup, ResetTask, AsyncStart,
                InitTasks, AsyncAbort, AbortAll, RemoveDir, DeletePreviews, DeleteTasks, DeleteGroup
  <2>2. ASSUME NEW g \in Groups, GroupStep(g) \/ \E t \in Targets : TaskStep(g, t)
        PROVE  UNCHANGED restarts
    BY <2>2 DEF GroupStep, MakeDir, SaveDir, WaitTasks, SaveFinished, Unregister, TaskStep, OpenLog,
                OpenLogFails, RecvLine, RecvError, WriteError, RecvEOF, RemoveDataAndPreview, SaveTask
  <2> QED
    BY <2>1, <2>2 DEF TypeOK, Next, vars, CrashRestart
<1> QED
  BY <1>1, <1>2, DbType, DiskType, SchedType DEF TypeOK

-----------------------------------------------------------------------------
(* The other parts of the invariant.                                       *)

(* Every step keeps RequestInv.                                            *)
LEMMA RequestStep ==
  ASSUME TypeOK, RequestInv, [Next]_vars
  PROVE  RequestInv'
<1>1. ASSUME NEW h \in Handlers, Request(h) \/ HandlerStep(h) PROVE RequestInv'
  <2> SUFFICES ASSUME NEW k \in Handlers PROVE RequestOK(handler'[k])
    BY DEF RequestInv, RequestOK, TasksOf
  <2> QED
    BY <1>1, HandlerEffect DEF RequestInv
<1>2. CASE CrashRestart
  BY <1>2 DEF CrashRestart, RequestInv, RequestOK, Idle, NoTask
<1>3. CASE UNCHANGED handler
  BY <1>3 DEF RequestInv, RequestOK, TasksOf
<1> QED
  BY <1>1, <1>2, <1>3, GroupEffect, TaskEffect DEF Next, vars

(* Every step keeps MapInv: LoadOrStore registers a group only when it has *)
(* no object, and SyncRun waits for its tasks before the map entry is      *)
(* deleted.                                                                *)
LEMMA MapStep ==
  ASSUME TypeOK, RequestInv, MapInv, InitTasksOnce, [Next]_vars
  PROVE  MapInv'
<1>0. SchedTypeOK /\ HandlerTypeOK
  BY DEF TypeOK
<1>1. ASSUME NEW h \in Handlers, AsyncStart(h), ~(UNCHANGED schedVars) PROVE MapInv'
  <2> DEFINE g == handler[h].g
  <2>1. g \in Groups /\ g \notin runningTaskGroups
    BY <1>0, <1>1 DEF HandlerTypeOK, AsyncStart, NotRegistered
  <2>2. PICK r : /\ r.pc = "registered" /\ r.tasks = {}
                 /\ run' = [run EXCEPT ![g] = r]
    BY <1>1 DEF AsyncStart, SetRun, NoRun
  <2>3. /\ runningTaskGroups' = runningTaskGroups \cup {g}
        /\ work' = [work EXCEPT ![g] = [t \in Targets |-> NoWork]]
    BY <1>1 DEF AsyncStart
  <2> HIDE DEF g
  <2> QED
    BY <1>0, <2>1, <2>2, <2>3 DEF MapInv, Active, SchedTypeOK, NoWork
<1>2. ASSUME NEW h \in Handlers, InitTasks(h) PROVE MapInv'
  <2> DEFINE g == handler[h].g
             ts == TasksOf(handler[h].models)
             new == [t \in Targets |-> IF t \in ts
                                       THEN [NoWork EXCEPT !.pc = "open", !.model = handler[h].models[t]]
                                       ELSE NoWork]
  <2>1. g \in Groups /\ run[g].pc = "registered" /\ run[g] \in TaskGroup
    BY <1>0, <1>2 DEF HandlerTypeOK, SchedTypeOK, InitTasks, InitTasksOnce
  <2>2. /\ SetRun(g, [run[g] EXCEPT !.tasks = ts, !.pc = "mkdir"])
        /\ UNCHANGED runningTaskGroups
    BY <1>2 DEF InitTasks
  <2>3. PICK r : r.tasks = ts /\ r.pc = "mkdir" /\ run' = [run EXCEPT ![g] = r]
    BY <2>1, <2>2 DEF SetRun, TaskGroup
  <2>4. work' = [work EXCEPT ![g] = new]
    BY <1>2 DEF InitTasks
  <2>5. \A t \in Targets : t \notin ts => new[t] = NoWork
    OBVIOUS
  <2> HIDE DEF g, ts, new
  <2> QED
    BY <1>0, <2>1, <2>2, <2>3, <2>4, <2>5 DEF MapInv, Active, SchedTypeOK, NoWork
<1>3. ASSUME NEW h \in Handlers, AbortAll(h) PROVE MapInv'
  <2>1. /\ UNCHANGED <<runningTaskGroups, run>>
        /\ \A g \in Groups, t \in Targets : work'[g][t].pc = work[g][t].pc
    BY AbortEffect, <1>3 DEF SameTask
  <2> QED
    BY <2>1 DEF MapInv, Active
<1>4. ASSUME NEW g \in Groups, GroupStep(g) PROVE MapInv'
  BY <1>0, <1>4, GroupEffect DEF MapInv, Active, GroupFate, SchedTypeOK
<1>5. ASSUME NEW g \in Groups, NEW t \in Targets, TaskStep(g, t) PROVE MapInv'
  <2>1. \A k \in Groups, u \in Targets :
          <<k, u>> # <<g, t>> => (Active(k, u)' <=> Active(k, u))
    BY <1>5, TaskEffect DEF Active
  <2>2. UNCHANGED <<run, runningTaskGroups>> /\ run[g].pc = "tasks" /\ t \in run[g].tasks
    BY <1>5, TaskEffect
  <2> QED
    BY <2>1, <2>2 DEF MapInv
<1>6. CASE CrashRestart
  BY <1>6 DEF CrashRestart, MapInv, Active, NoRun, NoWork
<1>7. CASE UNCHANGED schedVars
  BY <1>7 DEF MapInv, Active, schedVars
<1>8. ASSUME NEW h \in Handlers, Request(h) \/ HandlerStep(h)
      PROVE  AsyncStart(h) \/ InitTasks(h) \/ AbortAll(h) \/ UNCHANGED schedVars
  BY <1>8, SchedUnchanged
<1> QED
  BY <1>1, <1>2, <1>3, <1>4, <1>5, <1>6, <1>7, <1>8 DEF Next, vars

(* Every step keeps InitTasksOnce: the request whose LoadOrStore stored    *)
(* the object is the only one that initialises it.                         *)
LEMMA OnceStep ==
  ASSUME TypeOK, RequestInv, MapInv, InitTasksOnce, [Next]_vars
  PROVE  InitTasksOnce'
<1>0. SchedTypeOK /\ HandlerTypeOK
  BY DEF TypeOK
<1>1. ASSUME NEW h \in Handlers, Request(h) \/ HandlerStep(h), handler'[h].pc = "init"
      PROVE  InitTasksOnce'
  <2> DEFINE g == handler[h].g
  <2>1. /\ AsyncStart(h) /\ g \notin runningTaskGroups
        /\ handler'[h].g = g
        /\ \A k \in Handlers : k # h => handler'[k] = handler[k]
    BY <1>1, HandlerEffect DEF Effect, NotRegistered, Idle
  <2>2. g \in Groups
    BY <1>0, <2>1 DEF HandlerTypeOK, AsyncStart
  <2>3. PICK r : /\ r.pc = "registered" /\ r.tasks = {}
                 /\ run' = [run EXCEPT ![g] = r]
    BY <2>1 DEF AsyncStart, SetRun, NoRun, NotRegistered
  <2> HIDE DEF g
  <2>4. run'[g] = r /\ \A k \in Groups : k # g => run'[k] = run[k]
    BY <1>0, <2>2, <2>3 DEF SchedTypeOK
  <2>5. \A k \in Handlers : k # h /\ handler'[k].pc = "init" =>
          /\ handler'[k].g \in Groups /\ handler'[k].g # g
    BY <1>0, <2>1, <2>2 DEF HandlerTypeOK, InitTasksOnce, MapInv
  <2> QED
    BY <2>1, <2>3, <2>4, <2>5 DEF InitTasksOnce
<1>2. ASSUME NEW h \in Handlers, InitTasks(h) PROVE InitTasksOnce'
  <2> DEFINE g == handler[h].g
  <2>1. /\ g \in Groups /\ handler[h].pc = "init" /\ Answer(h)
        /\ SetRun(g, [run[g] EXCEPT !.tasks = TasksOf(handler[h].models), !.pc = "mkdir"])
    BY <1>0, <1>2 DEF HandlerTypeOK, InitTasks
  <2>2. /\ \A k \in Handlers : k # h => handler'[k] = handler[k]
        /\ handler'[h].pc = "idle"
    BY <1>0, <2>1, AnswerEffect DEF Idle
  <2>3. \A k \in Groups : k # g => run'[k] = run[k]
    BY <1>0, <2>1 DEF SetRun, SchedTypeOK
  <2> QED
    BY <1>0, <2>1, <2>2, <2>3 DEF InitTasksOnce, HandlerTypeOK
<1>3. ASSUME NEW h \in Handlers, Request(h) \/ HandlerStep(h), UNCHANGED run, handler'[h].pc # "init"
      PROVE  InitTasksOnce'
  <2>1. \A k \in Handlers : k # h => handler'[k] = handler[k]
    BY <1>3, HandlerEffect
  <2> QED
    BY <1>3, <2>1 DEF InitTasksOnce
<1>4. ASSUME NEW g \in Groups, GroupStep(g) PROVE InitTasksOnce'
  BY <1>0, <1>4, GroupEffect DEF InitTasksOnce, GroupFate, HandlerTypeOK
<1>5. CASE UNCHANGED <<run, handler>>
  BY <1>5 DEF InitTasksOnce
<1>6. CASE CrashRestart
  BY <1>6 DEF CrashRestart, InitTasksOnce, Idle
<1>7. ASSUME NEW h \in Handlers, Request(h) \/ HandlerStep(h)
      PROVE  InitTasks(h) \/ handler'[h].pc = "init" \/ UNCHANGED run
  <2>1. ASSUME AsyncStart(h), ~(UNCHANGED run) PROVE handler'[h].pc = "init"
    <3>1. Goto(h, "init") /\ handler[h].pc # "idle"
      BY <2>1 DEF AsyncStart, schedVars
    <3> QED
      BY <1>0, <3>1, GotoEffect DEF HandlerPCs
  <2>2. ASSUME AbortAll(h) PROVE UNCHANGED run
    BY <2>2 DEF AbortAll
  <2> QED
    BY <1>7, <2>1, <2>2, SchedUnchanged DEF schedVars
<1> QED
  BY <1>1, <1>2, <1>3, <1>4, <1>5, <1>6, <1>7, TaskEffect DEF Next, vars, schedVars

(* What a step of handler h does to the tables: it writes rows of the group*)
(* it serves, or the row of a new group, and never a task's error.         *)
LEMMA TableEffect ==
  ASSUME TypeOK, RequestInv, NEW h \in Handlers, Request(h) \/ HandlerStep(h)
  PROVE  /\ used \subseteq used'
         /\ \A g \in Groups, t \in Targets : taskRow'[g][t] # taskRow[g][t] =>
              handler[h].pc # "idle" /\ g = handler[h].g /\ taskRow'[g][t].state # "error"
         /\ \A g \in Groups, t \in Targets :
              previews'[g][t] # previews[g][t] => previews'[g][t] = 0
         /\ \A g \in Groups : groupState'[g] # groupState[g] =>
              \/ handler[h].pc # "idle" /\ g = handler[h].g
              \/ g \notin used /\ g \in used'
<1> DEFINE UsedKept == used \subseteq used'
           RowsOwned == \A g \in Groups, t \in Targets : taskRow'[g][t] # taskRow[g][t] =>
             handler[h].pc # "idle" /\ g = handler[h].g /\ taskRow'[g][t].state # "error"
           PreviewsCleared == \A g \in Groups, t \in Targets :
             previews'[g][t] # previews[g][t] => previews'[g][t] = 0
           GroupOwned == \A g \in Groups : groupState'[g] # groupState[g] =>
             \/ handler[h].pc # "idle" /\ g = handler[h].g
             \/ g \notin used /\ g \in used'
<1>0. DbTypeOK /\ HandlerTypeOK
  BY DEF TypeOK
<1>1. CASE CreateTaskGroup(h)
  BY <1>0, <1>1 DEF CreateTaskGroup, DbTypeOK
<1>2. ASSUME InsertTask(h) \/ ResetTask(h)
      PROVE  UsedKept /\ RowsOwned /\ PreviewsCleared /\ GroupOwned
  <2>1. handler[h] \in Handler /\ handler[h].pc # "idle"
    BY <1>0, <1>2 DEF HandlerTypeOK, InsertTask, ResetTask
  <2>2. PICK t \in Targets, m \in TaskModel :
          taskRow' = [taskRow EXCEPT ![handler[h].g][t] = m] /\ m.state # "error"
    <3>1. \A t \in handler[h].todo : t \in Targets /\ handler[h].models[t] \in TaskModel
      BY <2>1 DEF Handler
    <3>2. \A t \in Targets : handler[h].models[t].state # "error"
      BY DEF RequestInv, RequestOK
    <3>3. NewTask.state # "error"
      BY DEF NewTask
    <3>4. CASE InsertTask(h)
      BY <3>1, <3>3, <3>4, RecordTypes DEF InsertTask
    <3>5. CASE ResetTask(h)
      BY <3>1, <3>2, <3>5 DEF ResetTask
    <3> QED
      BY <1>2, <3>4, <3>5
  <2>3. UNCHANGED <<groupState, previews, used>>
    BY <1>2 DEF InsertTask, ResetTask
  <2>4. RowsOwned
    BY <1>0, <2>1, <2>2 DEF DbTypeOK
  <2> QED
    BY <2>3, <2>4
<1>3. CASE ResetGroup(h) \/ DeleteGroup(h)
  BY <1>0, <1>3 DEF ResetGroup, DeleteGroup, DbTypeOK
<1>4. CASE DeletePreviews(h)
  BY <1>0, <1>4 DEF DeletePreviews, DbTypeOK
<1>5. ASSUME DeleteTasks(h) PROVE UsedKept /\ RowsOwned /\ PreviewsCleared /\ GroupOwned
  <2>1. handler[h].pc # "idle" /\ UNCHANGED <<groupState, previews, used>>
    BY <1>5 DEF DeleteTasks
  <2>2. taskRow' = [taskRow EXCEPT ![handler[h].g] = [t \in Targets |-> NoTask]]
    BY <1>5 DEF DeleteTasks
  <2>3. NoTask.state # "error"
    BY DEF NoTask
  <2>4. RowsOwned
    BY <1>0, <2>1, <2>2, <2>3 DEF DbTypeOK
  <2> QED
    BY <2>1, <2>4
<1>6. ASSUME \/ RetryTask(h) \/ CancelTask(h) \/ DeleteTaskGroup(h) \/ FindFailedTasks(h)
             \/ AsyncStart(h) \/ InitTasks(h) \/ AsyncAbort(h) \/ AbortAll(h) \/ RemoveDir(h)
      PROVE  UsedKept /\ RowsOwned /\ PreviewsCleared /\ GroupOwned
  <2>1. UNCHANGED <<groupState, taskRow, previews, used>>
    BY <1>6 DEF RetryTask, CancelTask, DeleteTaskGroup, FindFailedTasks, AsyncStart, InitTasks,
                AsyncAbort, AbortAll, RemoveDir, dbVars
  <2> QED
    BY <2>1
<1> QED
  BY <1>1, <1>2, <1>3, <1>4, <1>5, <1>6 DEF Request, HandlerStep

(* Every step keeps UsedInv: all work is on behalf of an id that was       *)
(* handed out.                                                             *)
LEMMA UsedStep ==
  ASSUME TypeOK, RequestInv, UsedInv, [Next]_vars
  PROVE  UsedInv'
<1>0. SchedTypeOK /\ HandlerTypeOK
  BY DEF TypeOK
<1>1. ASSUME NEW h \in Handlers, Request(h) \/ HandlerStep(h) PROVE UsedInv'
  <2>1. used \subseteq used' /\ \A k \in Handlers : k # h => handler'[k] = handler[k]
    BY <1>1, HandlerEffect, TableEffect
  <2>2. /\ handler'[h].pc # "idle" => handler'[h].g \in used'
        /\ handler'[h].pc = "idle" => handler'[h].g = NoGroup
    <3>1. Effect(h, handler'[h])
      BY <1>1, HandlerEffect
    <3>2. CASE handler'[h] = Idle
      BY <3>2 DEF Idle
    <3>3. CASE handler'[h] # Idle
      BY <2>1, <3>1, <3>3 DEF Effect, UsedInv
    <3> QED
      BY <3>2, <3>3
  <2>3. ASSUME NEW g \in Groups, run'[g].pc # "none" PROVE g \in used'
    <3>1. ASSUME AsyncStart(h) \/ InitTasks(h), g = handler[h].g PROVE g \in used
      BY <3>1 DEF AsyncStart, InitTasks, UsedInv
    <3>2. ASSUME AsyncStart(h) \/ InitTasks(h), g # handler[h].g PROVE run'[g] = run[g]
      BY <1>0, <3>2 DEF AsyncStart, InitTasks, SetRun, SchedTypeOK, schedVars
    <3>3. ASSUME AbortAll(h) \/ UNCHANGED schedVars PROVE run'[g] = run[g]
      BY <3>3 DEF AbortAll, schedVars
    <3> QED
      BY <1>1, <2>1, <2>3, <3>1, <3>2, <3>3, SchedUnchanged DEF UsedInv
  <2>4. ASSUME NEW g \in Groups, groupState'[g] # "absent" PROVE g \in used'
    BY <1>1, <2>1, <2>4, TableEffect DEF UsedInv
  <2>5. ASSUME NEW g \in Groups, NEW t \in Targets, taskRow'[g][t].state # "absent"
        PROVE  g \in used'
    BY <1>1, <2>1, <2>5, TableEffect DEF UsedInv
  <2> QED
    BY <2>1, <2>2, <2>3, <2>4, <2>5 DEF UsedInv
<1>2. ASSUME NEW g \in Groups, GroupStep(g) PROVE UsedInv'
  <2>1. run[g].pc # "none" /\ UNCHANGED <<taskRow, used, handler>>
    BY <1>2, GroupEffect DEF GroupFate
  <2>2. \A k \in Groups : k # g => run'[k] = run[k] /\ groupState'[k] = groupState[k]
    BY <1>2, GroupEffect
  <2> QED
    BY <2>1, <2>2 DEF UsedInv
<1>3. ASSUME NEW g \in Groups, NEW t \in Targets, TaskStep(g, t) PROVE UsedInv'
  <2>1. /\ UNCHANGED <<groupState, used, run, handler>>
        /\ run[g].pc = "tasks"
        /\ \A k \in Groups, u \in Targets : <<k, u>> # <<g, t>> => taskRow'[k][u] = taskRow[k][u]
    BY <1>3, TaskEffect DEF TaskFate
  <2> QED
    BY <2>1 DEF UsedInv
<1>4. CASE CrashRestart
  <2>1. /\ UNCHANGED used
        /\ \A g \in Groups : run'[g] = NoRun /\ groupState'[g] = "absent"
        /\ \A h \in Handlers : handler'[h] = Idle
        /\ \A g \in Groups, t \in Targets : taskRow'[g][t] \in {NoTask, taskRow[g][t]}
    BY <1>4 DEF CrashRestart
  <2> QED
    BY <2>1 DEF UsedInv, NoRun, Idle, NoTask
<1>5. CASE UNCHANGED vars
  BY <1>5 DEF UsedInv, vars, dbVars, schedVars
<1> QED
  BY <1>1, <1>2, <1>3, <1>4, <1>5 DEF Next

(* Every step keeps ErrorInv: an error leads through RemoveDataAndPreview. *)
LEMMA ErrorStep ==
  ASSUME TypeOK, RequestInv, ErrorInv, [Next]_vars
  PROVE  ErrorInv'
<1>0. SchedTypeOK /\ HandlerTypeOK
  BY DEF TypeOK
<1>1. ASSUME NEW h \in Handlers, Request(h) \/ HandlerStep(h) PROVE ErrorInv'
  <2> SUFFICES ASSUME NEW g \in Groups, NEW t \in Targets
               PROVE  /\ work'[g][t].pc \in {"open", "recv"} => ~work'[g][t].err
                      /\ work'[g][t].pc = "save" /\ work'[g][t].err => previews'[g][t] = 0
    BY DEF ErrorInv
  <2>1. previews'[g][t] \in {previews[g][t], 0}
    BY <1>1, TableEffect
  <2>2. CASE work'[g][t].pc = work[g][t].pc /\ work'[g][t].err = work[g][t].err
    BY <2>1, <2>2 DEF ErrorInv
  <2>3. CASE work'[g][t].pc \in {"none", "open"} /\ ~work'[g][t].err
    BY <2>3
  <2>4. ASSUME AsyncStart(h) PROVE work'[g][t] \in {NoWork, work[g][t]}
    BY <1>0, <2>4 DEF AsyncStart, SchedTypeOK, schedVars
  <2>5. ASSUME InitTasks(h)
        PROVE  work'[g][t] = work[g][t] \/ (work'[g][t].pc \in {"none", "open"} /\ ~work'[g][t].err)
    <3> DEFINE k == handler[h].g
               new == [u \in Targets |-> IF u \in TasksOf(handler[h].models)
                         THEN [NoWork EXCEPT !.pc = "open", !.model = handler[h].models[u]]
                         ELSE NoWork]
    <3>1. work' = [work EXCEPT ![k] = new]
      BY <2>5 DEF InitTasks
    <3>2. new[t].pc \in {"none", "open"} /\ ~new[t].err
      BY DEF NoWork
    <3> HIDE DEF k, new
    <3> QED
      BY <1>0, <3>1, <3>2 DEF SchedTypeOK
  <2>6. ASSUME AbortAll(h) \/ UNCHANGED schedVars
        PROVE  work'[g][t].pc = work[g][t].pc /\ work'[g][t].err = work[g][t].err
    BY <2>6, AbortEffect DEF schedVars, SameTask
  <2>7. NoWork.pc = "none" /\ ~NoWork.err
    BY DEF NoWork
  <2> QED
    BY <1>1, <2>2, <2>3, <2>4, <2>5, <2>6, <2>7, SchedUnchanged
<1>2. ASSUME NEW g \in Groups, GroupStep(g) PROVE ErrorInv'
  <2>1. UNCHANGED <<work, previews>>
    BY <1>2, GroupEffect
  <2> QED
    BY <2>1 DEF ErrorInv
<1>3. ASSUME NEW g \in Groups, NEW t \in Targets, TaskStep(g, t) PROVE ErrorInv'
  <2> SUFFICES ASSUME NEW k \in Groups, NEW u \in Targets
               PROVE  /\ work'[k][u].pc \in {"open", "recv"} => ~work'[k][u].err
                      /\ work'[k][u].pc = "save" /\ work'[k][u].err => previews'[k][u] = 0
    BY DEF ErrorInv
  <2>1. CASE <<k, u>> # <<g, t>>
    BY <1>3, <2>1, TaskEffect DEF ErrorInv, TaskFate
  <2>2. CASE k = g /\ u = t
    BY <1>3, <2>2, TaskEffect DEF ErrorInv, TaskFate
  <2> QED
    BY <2>1, <2>2
<1>4. CASE CrashRestart
  BY <1>4 DEF CrashRestart, ErrorInv, NoWork
<1>5. CASE UNCHANGED vars
  BY <1>5 DEF ErrorInv, vars, dbVars, schedVars
<1> QED
  BY <1>1, <1>2, <1>3, <1>4, <1>5 DEF Next

(* A handler's step makes no task dirty: a group that AsyncStart registers *)
(* had no active task.                                                     *)
LEMMA HandlerSoils ==
  ASSUME TypeOK, RequestInv, MapInv, InitTasksOnce, NEW h \in Handlers, Request(h) \/ HandlerStep(h),
         NEW g \in Groups, NEW t \in Targets, Dirty(g, t)'
  PROVE  Dirty(g, t)
<1>0. SchedTypeOK /\ HandlerTypeOK
  BY DEF TypeOK
<1>1. taskRow'[g][t] = taskRow[g][t] /\ previews'[g][t] = previews[g][t]
  BY TableEffect DEF Dirty
<1>2. ASSUME AsyncStart(h) PROVE ~Active(g, t)
  <2>1. CASE g = handler[h].g /\ g \notin runningTaskGroups
    BY <2>1 DEF MapInv
  <2>2. CASE g # handler[h].g \/ g \in runningTaskGroups
    <3>1. work'[g][t] = work[g][t]
      BY <1>0, <1>2, <2>2 DEF AsyncStart, NotRegistered, SchedTypeOK, schedVars
    <3> QED
      BY <3>1 DEF Dirty, Active
  <2> QED
    BY <2>1, <2>2
<1>3. ASSUME InitTasks(h), g # handler[h].g PROVE ~Active(g, t)
  <2>1. work'[g][t] = work[g][t]
    BY <1>0, <1>3 DEF InitTasks, SchedTypeOK
  <2> QED
    BY <2>1 DEF Dirty, Active
<1>4. ASSUME InitTasks(h), g = handler[h].g PROVE ~Active(g, t)
  BY <1>4 DEF InitTasks, InitTasksOnce, MapInv
<1>5. ASSUME AbortAll(h) \/ UNCHANGED schedVars PROVE ~Active(g, t)
  BY <1>5, AbortEffect DEF schedVars, SameTask, Dirty, Active
<1> QED
  BY <1>1, <1>2, <1>3, <1>4, <1>5, SchedUnchanged DEF Dirty

(* Every step keeps DirtyInv: a task saved with an error has lost its      *)
(* preview rows, and only a restart can bring a failed task with preview   *)
(* rows to rest.                                                           *)
LEMMA DirtyStep ==
  ASSUME TypeOK, RequestInv, MapInv, InitTasksOnce, UsedInv, ErrorInv, DirtyInv, [Next]_vars
  PROVE  DirtyInv'
<1>0. SchedTypeOK /\ HandlerTypeOK
  BY DEF TypeOK
<1> SUFFICES ASSUME NEW g \in Groups, NEW t \in Targets, Dirty(g, t)'
             PROVE  /\ groupState'[g] = "absent"
                    /\ run'[g].pc = "none"
                    /\ \A h \in Handlers : handler'[h].g # g
  BY DEF DirtyInv
<1> DEFINE Settled == /\ groupState[g] = "absent"
                      /\ run[g].pc = "none"
                      /\ g \in used
                      /\ \A h \in Handlers : handler[h].g # g
<1>1. ASSUME Dirty(g, t) PROVE Settled
  BY <1>1 DEF DirtyInv, UsedInv, Dirty
<1> HIDE DEF Settled
<1>2. ASSUME NEW h \in Handlers, Request(h) \/ HandlerStep(h)
      PROVE  /\ groupState'[g] = "absent"
             /\ run'[g].pc = "none"
             /\ \A k \in Handlers : handler'[k].g # g
  <2>1. Settled
    BY <1>1, <1>2, HandlerSoils
  <2>2. groupState'[g] = "absent"
    BY <1>2, <2>1, TableEffect DEF Settled
  <2>3. run'[g] = run[g]
    <3>1. ASSUME AsyncStart(h) \/ InitTasks(h) PROVE run'[g] = run[g]
      BY <1>0, <2>1, <3>1 DEF AsyncStart, InitTasks, SetRun, SchedTypeOK, schedVars, Settled
    <3>2. ASSUME AbortAll(h) \/ UNCHANGED schedVars PROVE run'[g] = run[g]
      BY <3>2 DEF AbortAll, schedVars
    <3> QED
      BY <1>2, <3>1, <3>2, SchedUnchanged
  <2>4. handler'[h].g # g
    <3>1. Effect(h, handler'[h])
      BY <1>2, HandlerEffect
    <3>2. CASE handler'[h] = Idle
      BY <3>2, LogSearchAssumption DEF Idle
    <3>3. CASE handler'[h] # Idle
      BY <2>1, <3>1, <3>3 DEF Effect, Settled
    <3> QED
      BY <3>2, <3>3
  <2> QED
    BY <1>2, <2>1, <2>2, <2>3, <2>4, HandlerEffect DEF Settled
<1>3. ASSUME NEW k \in Groups, GroupStep(k)
      PROVE  /\ groupState'[g] = "absent"
             /\ run'[g].pc = "none"
             /\ \A h \in Handlers : handler'[h].g # g
  <2>1. Settled
    BY <1>1, <1>3, GroupEffect DEF Dirty, Active
  <2> QED
    BY <1>3, <2>1, GroupEffect DEF GroupFate, Settled
<1>4. ASSUME NEW k \in Groups, NEW u \in Targets, TaskStep(k, u)
      PROVE  /\ groupState'[g] = "absent"
             /\ run'[g].pc = "none"
             /\ \A h \in Handlers : handler'[h].g # g
  <2>1. CASE <<k, u>> # <<g, t>>
    <3>1. Dirty(g, t)
      BY <1>4, <2>1, TaskEffect DEF TaskFate, Dirty, Active
    <3> QED
      BY <1>1, <1>4, <3>1, TaskEffect DEF Settled
  <2>2. CASE k = g /\ u = t
    BY <1>4, <2>2, TaskEffect DEF TaskFate, Dirty, Active, ErrorInv
  <2> QED
    BY <2>1, <2>2
<1>5. CASE CrashRestart
  BY <1>5, LogSearchAssumption DEF CrashRestart, NoRun, Idle
<1>6. CASE UNCHANGED vars
  <2>1. Settled
    BY <1>1, <1>6 DEF Dirty, Active, vars, dbVars, schedVars
  <2> QED
    BY <1>6, <2>1 DEF Settled, vars, dbVars, schedVars
<1> QED
  BY <1>2, <1>3, <1>4, <1>5, <1>6 DEF Next

-----------------------------------------------------------------------------
(* The invariant holds, and what follows from it.                          *)

(* The invariant holds of an empty database.                               *)
LEMMA InitIInv == Init => IInv
<1> SUFFICES ASSUME Init PROVE IInv
  OBVIOUS
<1>1. TypeOK
  BY RecordTypes DEF Init, TypeOK, DbTypeOK, DiskTypeOK, SchedTypeOK, HandlerTypeOK, Idle
<1>2. RequestInv
  BY DEF Init, RequestInv, RequestOK, Idle, NoTask
<1>3. MapInv /\ InitTasksOnce /\ ErrorInv
  BY DEF Init, MapInv, InitTasksOnce, ErrorInv, Active, NoRun, NoWork, Idle
<1>4. UsedInv
  BY DEF Init, UsedInv, NoRun, NoTask, Idle
<1>5. DirtyInv
  BY DEF Init, DirtyInv, Dirty, NoTask
<1> QED
  BY <1>1, <1>2, <1>3, <1>4, <1>5 DEF IInv

(* Every step keeps the invariant.                                         *)
LEMMA NextIInv == IInv /\ [Next]_vars => IInv'
<1> SUFFICES ASSUME IInv, [Next]_vars PROVE IInv'
  OBVIOUS
<1>1. TypeOK /\ RequestInv /\ MapInv /\ InitTasksOnce /\ UsedInv /\ ErrorInv /\ DirtyInv
  BY DEF IInv
<1> QED
  BY <1>1, TypeStep, RequestStep, MapStep, OnceStep, UsedStep, ErrorStep, DirtyStep DEF IInv

(* The invariant holds in every reachable state of the service, for any    *)
(* numbers of groups, instances and concurrent requests.                   *)
THEOREM InductiveInvariant == Spec => []IInv
  BY InitIInv, NextIInv, PTL DEF Spec

(* Every variable keeps its type. In particular the division in AsyncStart *)
(* always has a positive divisor, and a request in progress serves a group *)
(* of the table.                                                           *)
THEOREM TypeCorrect == Spec => []TypeOK
<1>1. IInv => TypeOK
  BY DEF IInv
<1> QED
  BY <1>1, InductiveInvariant, PTL

(* InitTasks never panics with "task is already initialized", however many *)
(* create and retry requests race for the same group: LoadOrStore lets one *)
(* of them through.                                                        *)
THEOREM TasksInitialisedOnce == Spec => []InitTasksOnce
<1>1. IInv => InitTasksOnce
  BY DEF IInv
<1> QED
  BY <1>1, InductiveInvariant, PTL

(* A failed task of a listed group has no preview rows once its goroutine  *)
(* is over (RemoveDataAndPreview before Save), through all interleavings   *)
(* of retries, cancellations, deletions and restarts.                      *)
THEOREM FailedTasksAreClean == Spec => []FailedTaskHasNoPreview
<1>1. IInv => FailedTaskHasNoPreview
  BY DEF IInv, DirtyInv, Dirty, FailedTaskHasNoPreview
<1> QED
  BY <1>1, InductiveInvariant, PTL

(* AsyncStart stores a new TaskGroup only when no goroutine of an earlier  *)
(* one can still write the group's rows and files: SyncRun returns after   *)
(* its last task, and the map entry is deleted after SyncRun.              *)
THEOREM RunsNeverReplaced == Spec => NoRunReplaced
<1> DEFINE Fresh == \A g \in Groups : starts'[g] # starts[g] =>
                      run[g].pc = "none" /\ \A t \in Targets : ~Active(g, t)
<1>1. IInv /\ [Next]_vars => [Fresh]_vars
  <2> SUFFICES ASSUME IInv, Next, NEW g \in Groups, starts'[g] # starts[g]
               PROVE  run[g].pc = "none" /\ \A t \in Targets : ~Active(g, t)
    BY DEF vars
  <2>1. TypeOK /\ MapInv /\ SchedTypeOK
    BY DEF IInv, TypeOK
  <2>2. PICK h \in Handlers : AsyncStart(h)
    <3>1. \A h \in Handlers : (InitTasks(h) \/ AbortAll(h)) => UNCHANGED starts
      BY DEF InitTasks, AbortAll
    <3>2. CrashRestart => UNCHANGED starts
      BY DEF CrashRestart
    <3> QED
      BY <2>1, <3>1, <3>2, SchedUnchanged, GroupEffect, TaskEffect DEF Next, schedVars
  <2>3. g = handler[h].g /\ g \notin runningTaskGroups
    BY <2>1, <2>2 DEF AsyncStart, NotRegistered, SchedTypeOK, schedVars
  <2> QED
    BY <2>1, <2>3 DEF MapInv
<1> QED
  BY <1>1, InductiveInvariant, PTL DEF Spec, NoRunReplaced

-----------------------------------------------------------------------------
(* Requests that come one at a time.  The group's goroutines still run     *)
(* beside the request that is served, and the process may die anywhere.    *)

OneRequest == \A h, k \in Handlers : h = k

(* The group's goroutine may still save its row.                           *)
Live(g) == run[g].pc \in {"registered", "mkdir", "saveDir", "tasks", "save"}

(* The store paths set in a task's model name files on disk.               *)
PathsOK(g, t, m) ==
  /\ m.log => <<g, t, "log">> \in files
  /\ m.slow => <<g, t, "slow">> \in files

(* A deletion has removed the directory and not yet the task rows.         *)
Clearing(g) ==
  \E h \in Handlers : handler[h].g = g /\ handler[h].pc \in {"rmPreviews", "rmTasks"}

(* A live group is listed as running, and its object knows the directory   *)
(* its row names.                                                          *)
RunPart(g) ==
  /\ Live(g) => groupState[g] = "running"
  /\ run[g].pc = "saveDir" => run[g].dir
  /\ run[g].pc \in {"registered", "mkdir", "tasks", "save"} => (run[g].dir <=> groupDir[g])
  /\ groupDir[g] => groupState[g] # "absent"

(* A task's preview rows, row, Task object and files agree: only a         *)
(* finished row has the path of a normal log, and the row of a task whose  *)
(* goroutine runs says so.                                                 *)
TaskPart(g, t) ==
  /\ previews[g][t] # 0 => taskRow[g][t].state # "absent"
  /\ taskRow[g][t].state # "absent" => groupState[g] # "absent"
  /\ taskRow[g][t].state # "finished" => ~taskRow[g][t].log
  /\ taskRow[g][t].state = "absent" => ~taskRow[g][t].slow
  /\ PathsOK(g, t, taskRow[g][t]) \/ Clearing(g)
  /\ Active(g, t) => taskRow[g][t].state = "running" /\ PathsOK(g, t, work[g][t].model)
  /\ work[g][t].pc = "recv" => <<g, t, work[g][t].kind>> \in files
  /\ work[g][t].pc = "save" /\ work[g][t].err => ~work[g][t].model.log

(* What a request has read is still so: the group's state and directory,   *)
(* the models it will start, and how far a deletion has come.              *)
RequestPart(h) ==
  LET r == handler[h] IN
  /\ r.pc \in {"insertTasks", "saveTasks", "start", "init"} => groupState[r.g] = "running"
  /\ r.pc \in {"findTasks", "saveGroup", "rmDir", "rmPreviews", "rmTasks", "rmGroup"}
       => groupState[r.g] = "finished"
  /\ r.pc \notin {"idle", "init", "abort", "abortAll"} => ~Live(r.g)
  /\ r.pc \in {"insertTasks", "findTasks", "saveGroup", "saveTasks", "start", "rmDir"}
       => (r.dir <=> groupDir[r.g])
  /\ r.pc \in {"rmPreviews", "rmTasks", "rmGroup"} => \A f \in files : f[1] # r.g
  /\ \A t \in Targets :
     /\ r.pc \in {"rmTasks", "rmGroup"} => previews[r.g][t] = 0
     /\ r.pc = "rmGroup" => taskRow[r.g][t].state = "absent"
     /\ r.pc \in {"insertTasks", "saveGroup", "saveTasks", "start", "init"} =>
        /\ r.models[t].state \in {"absent", "running"}
        /\ ~r.models[t].log
        /\ PathsOK(r.g, t, r.models[t])
        /\ t \in r.todo => r.models[t].state = "running"
        /\ r.models[t].state = "running" => t \in r.todo \/ taskRow[r.g][t].state = "running"
     /\ r.pc \in {"start", "init"} => t \notin r.todo

(* The invariant of the service while requests come one at a time.         *)
SInv == /\ \A g \in Groups : RunPart(g)
        /\ \A g \in Groups, t \in Targets : TaskPart(g, t)
        /\ \A h \in Handlers : RequestPart(h)
        /\ NoLeakedFile

(* A task whose row, files and goroutine a step leaves alone keeps its     *)
(* part of the invariant.                                                  *)
LEMMA TaskFrame ==
  ASSUME NEW g \in Groups, NEW t \in Targets, TaskPart(g, t),
         taskRow'[g][t] = taskRow[g][t], previews'[g][t] = previews[g][t],
         work'[g][t].pc = work[g][t].pc, work'[g][t].err = work[g][t].err,
         work'[g][t].model = work[g][t].model, work'[g][t].kind = work[g][t].kind,
         groupState[g] # "absent" => groupState'[g] # "absent",
         \A kind \in {"log", "slow"} : <<g, t, kind>> \in files => <<g, t, kind>> \in files',
         work[g][t].kind \in {"log", "slow"},
         Clearing(g) => Clearing(g)'
  PROVE  TaskPart(g, t)'
<1>1. Active(g, t)' <=> Active(g, t)
  BY DEF Active
<1> QED
  BY <1>1 DEF TaskPart, PathsOK

(* A step of a task keeps what holds of it, and touches the files of no    *)
(* other task; it creates a file only when its group has a directory.      *)
LEMMA TaskPartKept ==
  ASSUME TypeOK, ErrorInv, NEW g \in Groups, NEW t \in Targets,
         RunPart(g), TaskPart(g, t), TaskStep(g, t)
  PROVE  /\ TaskPart(g, t)'
         /\ \A f \in files : f[1] # g \/ f[2] # t => f \in files'
         /\ \A f \in files' : f \in files \/ (f[1] = g /\ f[2] = t /\ run[g].dir)
         /\ UNCHANGED groupDir
<1> DEFINE w == work[g][t]
<1>0. PICK n : n = work'[g][t]
  OBVIOUS
<1>1. w \in Task /\ work \in [Groups -> [Targets -> Task]]
  BY DEF TypeOK, SchedTypeOK
<1>2. w.model \in TaskModel /\ w.kind \in {"log", "slow"} /\ WithPath(w) \in TaskModel
  BY <1>1 DEF Task, TaskModel, WithPath
<1>3. /\ previews \in [Groups -> [Targets -> Nat]]
      /\ taskRow \in [Groups -> [Targets -> TaskModel]]
      /\ files \subseteq Groups \X Targets \X {"log", "slow"}
  BY DEF TypeOK, DbTypeOK, DiskTypeOK
<1>4. /\ run[g].pc = "tasks" /\ UNCHANGED <<groupState, groupDir, run, handler>>
      /\ groupState[g] = "running"
      /\ Active(g, t) /\ taskRow[g][t].state = "running" /\ PathsOK(g, t, w.model)
  <2>1. run[g].pc = "tasks" /\ Active(g, t)
    BY DEF TaskStep, TaskAt, OpenLog, OpenLogFails, RecvLine, RecvError, WriteError, RecvEOF,
           RemoveDataAndPreview, SaveTask, Active
  <2>2. UNCHANGED <<groupState, groupDir, run, handler>>
    BY DEF TaskStep, OpenLog, OpenLogFails, RecvLine, RecvError, WriteError, RecvEOF,
           RemoveDataAndPreview, SaveTask, dbVars
  <2> QED
    BY <2>1, <2>2 DEF RunPart, Live, TaskPart
<1>5. ASSUME NEW r, SetWork(g, t, r) PROVE n = r
  BY <1>0, <1>1, <1>5 DEF SetWork
<1>6. taskRow[g][t].log = FALSE /\ (PathsOK(g, t, taskRow[g][t]) \/ Clearing(g)) /\ (Clearing(g)' <=> Clearing(g))
  <2>1. taskRow[g][t] \in TaskModel
    BY <1>3
  <2> QED
    BY <1>0, <1>4, <2>1 DEF TaskPart, Clearing, TaskModel
<1> HIDE DEF w
<1>7. ASSUME OpenLog(g, t) PROVE TaskPart(g, t)' /\ files' = files \cup {<<g, t, w.kind>>} /\ run[g].dir
  <2>1. n = [w EXCEPT !.pc = "recv", !.lines = 0, !.model.state = "running"]
    BY <1>5, <1>7 DEF OpenLog, w
  <2>2. /\ n.pc = "recv" /\ n.kind = w.kind
        /\ n.model.log = w.model.log /\ n.model.slow = w.model.slow
    BY <1>1, <1>2, <2>1 DEF Task, TaskModel
  <2>3. UNCHANGED <<taskRow, previews>> /\ files' = files \cup {<<g, t, w.kind>>} /\ run[g].dir
    BY <1>7 DEF OpenLog, dbVars, w
  <2>4. PathsOK(g, t, work[g][t].model)' /\ (PathsOK(g, t, taskRow[g][t]) => PathsOK(g, t, taskRow[g][t])')
    BY <1>0, <1>4, <2>2, <2>3 DEF PathsOK
  <2> QED
    BY <1>0, <1>4, <1>6, <2>2, <2>3, <2>4 DEF TaskPart, Active
<1>8. ASSUME OpenLogFails(g, t) \/ WriteError(g, t) \/ RecvError(g, t)
      PROVE TaskPart(g, t)' /\ files' = files
  <2>1. n = [w EXCEPT !.err = TRUE, !.pc = "clean"] \/
        (w.pc = "recv" /\ n = [w EXCEPT !.model = WithPath(w), !.err = TRUE, !.pc = "clean"])
    BY <1>5, <1>8 DEF OpenLogFails, WriteError, RecvError, TaskAt, w
  <2>2. n.pc = "clean" /\ (n.model = w.model \/ (w.pc = "recv" /\ n.model = WithPath(w)))
    BY <1>1, <2>1 DEF Task
  <2>3. UNCHANGED <<taskRow, previews, files>>
    BY <1>8 DEF OpenLogFails, WriteError, RecvError, dbVars, diskVars
  <2>4. w.pc = "recv" => PathsOK(g, t, WithPath(w))
    BY <1>2, <1>4 DEF PathsOK, WithPath, TaskModel, TaskPart, w
  <2>5. PathsOK(g, t, work[g][t].model)' /\ (PathsOK(g, t, taskRow[g][t]) => PathsOK(g, t, taskRow[g][t])')
    BY <1>0, <1>4, <2>2, <2>3, <2>4 DEF PathsOK
  <2> QED
    BY <1>0, <1>4, <1>6, <2>2, <2>3, <2>5 DEF TaskPart, Active
<1>9. ASSUME RecvLine(g, t) PROVE TaskPart(g, t)' /\ files' = files
  <2>1. n = [w EXCEPT !.lines = IF Kept(g, w) THEN w.lines + 1 ELSE w.lines,
                      !.got = w.got \/ w.kind = "log"]
    BY <1>5, <1>9 DEF RecvLine, w
  <2>2. n.pc = w.pc /\ n.kind = w.kind /\ n.model = w.model /\ n.err = w.err
    BY <1>1, <2>1 DEF Task
  <2>3. UNCHANGED <<taskRow, files>> /\ w.pc = "recv"
    BY <1>9 DEF RecvLine, TaskAt, diskVars, w
  <2>5. PathsOK(g, t, work[g][t].model)' /\ (PathsOK(g, t, taskRow[g][t]) => PathsOK(g, t, taskRow[g][t])')
    BY <1>0, <1>4, <2>2, <2>3 DEF PathsOK
  <2> QED
    BY <1>0, <1>4, <1>6, <2>2, <2>3, <2>5 DEF TaskPart, Active, w
<1>10. ASSUME RecvEOF(g, t) PROVE TaskPart(g, t)' /\ files' = files
  <2>1. n = [w EXCEPT !.model = WithPath(w),
                      !.kind = IF t \in TiKV THEN "slow" ELSE "log",
                      !.pc = IF w.kind = "log" /\ t \in TiKV THEN "open" ELSE "save"]
    BY <1>5, <1>10 DEF RecvEOF, w
  <2>2. n.pc \in {"open", "save"} /\ n.model = WithPath(w) /\ n.err = w.err
    BY <1>1, <2>1 DEF Task
  <2>3. UNCHANGED <<taskRow, previews, files>> /\ w.pc = "recv"
    BY <1>10 DEF RecvEOF, TaskAt, diskVars, dbVars, w
  <2>4. PathsOK(g, t, WithPath(w)) /\ ~w.err
    BY <1>2, <1>4, <2>3 DEF PathsOK, WithPath, TaskModel, TaskPart, ErrorInv, w
  <2>5. PathsOK(g, t, work[g][t].model)' /\ (PathsOK(g, t, taskRow[g][t]) => PathsOK(g, t, taskRow[g][t])')
    BY <1>0, <1>4, <2>2, <2>3, <2>4 DEF PathsOK
  <2> QED
    BY <1>0, <1>4, <1>6, <2>2, <2>3, <2>4, <2>5 DEF TaskPart, Active
<1>11. ASSUME RemoveDataAndPreview(g, t)
       PROVE  /\ TaskPart(g, t)'
              /\ files' = files \/ files' = files \ {<<g, t, "log">>}
  <2>1. n = [w EXCEPT !.model.log = FALSE, !.pc = "save"]
    BY <1>5, <1>11 DEF RemoveDataAndPreview, w
  <2>2. n.pc = "save" /\ n.model.log = FALSE /\ n.model.slow = w.model.slow
    BY <1>1, <1>2, <2>1 DEF Task, TaskModel
  <2>3. /\ UNCHANGED taskRow /\ previews'[g][t] = 0
        /\ files' = files \/ files' = files \ {<<g, t, "log">>}
    BY <1>3, <1>11 DEF RemoveDataAndPreview
  <2>5. PathsOK(g, t, work[g][t].model)' /\ (PathsOK(g, t, taskRow[g][t]) => PathsOK(g, t, taskRow[g][t])')
    BY <1>0, <1>4, <1>6, <2>2, <2>3 DEF PathsOK
  <2> QED
    BY <1>0, <1>4, <1>6, <2>2, <2>3, <2>5 DEF TaskPart, Active
<1>12. ASSUME SaveTask(g, t) PROVE TaskPart(g, t)' /\ files' = files
  <2> DEFINE m == [w.model EXCEPT !.state = IF w.err THEN "error" ELSE "finished"]
  <2>1. n = [w EXCEPT !.model = m, !.pc = "done"] /\ w.pc = "save"
    BY <1>5, <1>12 DEF SaveTask, TaskAt, w
  <2>2. /\ m.state = (IF w.err THEN "error" ELSE "finished")
        /\ m.log = w.model.log /\ m.slow = w.model.slow
    BY <1>2 DEF TaskModel
  <2>3. /\ UNCHANGED <<previews, files>> /\ taskRow' = [taskRow EXCEPT ![g][t] = m]
    BY <1>12 DEF SaveTask, diskVars, w
  <2>4. n.pc = "done"
    BY <1>1, <2>1 DEF Task
  <2>5. w.err => m.log = FALSE
    BY <1>2, <2>1, <2>2 DEF TaskPart, TaskModel, w
  <2> HIDE DEF m
  <2>6. taskRow'[g][t] = m
    BY <1>3, <2>3
  <2>7. PathsOK(g, t, taskRow[g][t])'
    BY <1>0, <1>4, <2>2, <2>3, <2>6 DEF PathsOK
  <2> QED
    BY <1>0, <1>4, <2>2, <2>3, <2>4, <2>5, <2>6, <2>7 DEF TaskPart, Active
<1> QED
  BY <1>3, <1>4, <1>7, <1>8, <1>9, <1>10, <1>11, <1>12 DEF TaskStep

(* A request that a step does not touch stays as it was.                   *)
LEMMA RequestFrame ==
  ASSUME NEW h \in Handlers, NEW g \in Groups, handler[h].g = g, RequestPart(h), handler'[h] = handler[h],
         groupState'[g] = groupState[g], groupDir'[g] = groupDir[g],
         Live(g)' <=> Live(g),
         taskRow'[g] = taskRow[g], previews'[g] = previews[g],
         \A f \in files : f[1] = g => f \in files',
         \A f \in files' : f[1] = g => f \in files
  PROVE  RequestPart(h)'
<1>1. \A t \in Targets : PathsOK(g, t, handler[h].models[t]) => PathsOK(handler[h].g, t, handler[h].models[t])'
  <2> TAKE t \in Targets
  <2> DEFINE a == <<g, t, "log">>
             b == <<g, t, "slow">>
  <2>1. a[1] = g /\ b[1] = g
    OBVIOUS
  <2>2. a \in files => a \in files'
    BY <2>1
  <2>3. b \in files => b \in files'
    BY <2>1
  <2> QED
    BY <2>2, <2>3 DEF PathsOK
<1> QED
  BY <1>1 DEF RequestPart

(* A step of a task keeps the invariant.                                   *)
LEMMA TaskSerial ==
  ASSUME TypeOK, InitTasksOnce, ErrorInv, UsedInv, SInv, NEW g \in Groups, NEW t \in Targets, TaskStep(g, t)
  PROVE  SInv'
<1>1. /\ TaskPart(g, t)'
      /\ \A f \in files : f[1] # g \/ f[2] # t => f \in files'
      /\ \A f \in files' : f \in files \/ (f[1] = g /\ f[2] = t /\ run[g].dir)
      /\ UNCHANGED groupDir
  BY TaskPartKept DEF SInv
<1>2. /\ \A k \in Groups, u \in Targets : <<k, u>> # <<g, t>> =>
           work'[k][u] = work[k][u] /\ taskRow'[k][u] = taskRow[k][u] /\ previews'[k][u] = previews[k][u]
      /\ run[g].pc = "tasks"
      /\ UNCHANGED <<groupState, run, handler>>
  BY TaskEffect DEF TaskFate
<1>3. ASSUME NEW k \in Groups PROVE RunPart(k)'
  BY <1>1, <1>2 DEF SInv, RunPart, Live
<1>4. ASSUME NEW k \in Groups, NEW u \in Targets, <<k, u>> # <<g, t>> PROVE TaskPart(k, u)'
  <2>1. work[k][u].kind \in {"log", "slow"}
    BY DEF TypeOK, SchedTypeOK, Task
  <2>2. \A kind \in {"log", "slow"} : <<k, u, kind>> \in files => <<k, u, kind>> \in files'
    BY <1>1, <1>4
  <2>3. Clearing(k)' <=> Clearing(k)
    BY <1>2 DEF Clearing
  <2> QED
    BY <1>2, <1>4, <2>1, <2>2, <2>3, TaskFrame DEF SInv
<1>5. ASSUME NEW h \in Handlers PROVE RequestPart(h)'
  <2>1. CASE handler[h].g = g
    <3>1. handler[h].pc \in {"idle", "abort", "abortAll"}
      BY <1>2, <2>1 DEF SInv, RequestPart, Live, InitTasksOnce
    <3> QED
      BY <1>2, <3>1 DEF RequestPart
  <2>2. CASE handler[h].pc = "idle"
    BY <1>2, <2>2 DEF RequestPart
  <2>3. CASE handler[h].g # g /\ handler[h].pc # "idle"
    <3> DEFINE k == handler[h].g
    <3>1. k \in Groups /\ k # g
      BY <2>3 DEF TypeOK, HandlerTypeOK
    <3>2. taskRow'[k] = taskRow[k] /\ previews'[k] = previews[k]
      <4>1. taskRow[k] \in [Targets -> TaskModel] /\ previews[k] \in [Targets -> Nat]
        BY <3>1 DEF TypeOK, DbTypeOK
      <4>2. taskRow'[k] \in [Targets -> TaskModel] /\ previews'[k] \in [Targets -> Nat]
        BY <3>1, DbType DEF DbTypeOK, Next
      <4> QED
        BY <1>2, <3>1, <4>1, <4>2
    <3>3. Live(k)' <=> Live(k)
      BY <1>2 DEF Live
    <3> HIDE DEF k
    <3> QED
      BY <1>1, <1>2, <3>1, <3>2, <3>3, RequestFrame DEF SInv, k
  <2> QED
    BY <2>1, <2>2, <2>3
<1>6. NoLeakedFile'
  <2>1. groupState[g] = "running" /\ (run[g].dir => groupDir[g])
    BY <1>2 DEF SInv, RunPart, Live
  <2> QED
    BY <1>1, <1>2, <2>1 DEF SInv, NoLeakedFile
<1> QED
  BY <1>1, <1>3, <1>4, <1>5, <1>6 DEF SInv

(* A step of a group's goroutine keeps the invariant.                      *)
LEMMA GroupSerial ==
  ASSUME TypeOK, InitTasksOnce, MapInv, UsedInv, SInv, NEW g \in Groups, GroupStep(g)
  PROVE  SInv'
<1>0. /\ run[g] \in TaskGroup /\ run \in [Groups -> TaskGroup]
      /\ groupState \in [Groups -> {"absent", "running", "finished"}]
      /\ groupDir \in [Groups -> BOOLEAN]
  BY DEF TypeOK, SchedTypeOK, DbTypeOK
<1>1. /\ GroupFate(g)
      /\ \A k \in Groups : k # g => run'[k] = run[k] /\ groupState'[k] = groupState[k]
      /\ UNCHANGED <<taskRow, previews, used, work, handler>>
  BY GroupEffect
<1>2. UNCHANGED files /\ \A k \in Groups : k # g => groupDir'[k] = groupDir[k]
  BY <1>0 DEF GroupStep, MakeDir, SaveDir, WaitTasks, SaveFinished, Unregister, diskVars, dbVars
<1>3. /\ RunPart(g)'
      /\ groupState[g] # "absent" => groupState'[g] # "absent"
      /\ groupDir[g] => groupDir'[g]
      /\ Live(g)' => Live(g)
      /\ groupState'[g] # groupState[g] \/ groupDir'[g] # groupDir[g] => Live(g) /\ run[g].pc # "registered"
  <2> DEFINE r == run[g]
  <2>1. r \in TaskGroup /\ r.dir \in BOOLEAN /\ groupDir[g] \in BOOLEAN /\ RunPart(g)
    BY <1>0 DEF SInv, TaskGroup
  <2>2. ASSUME NEW x, SetRun(g, x) PROVE run'[g] = x
    BY <1>0, <2>2 DEF SetRun
  <2>3. \A pc \in {"tasks", "save", "unregister"} :
          [r EXCEPT !.pc = pc].pc = pc /\ [r EXCEPT !.pc = pc].dir = r.dir
    BY <2>1 DEF TaskGroup
  <2>4. LET x == [r EXCEPT !.dir = TRUE, !.pc = "saveDir"] IN x.pc = "saveDir" /\ x.dir = TRUE
    BY <2>1 DEF TaskGroup
  <2> HIDE DEF r
  <2>5. CASE MakeDir(g)
    <3>1. /\ run[g].pc = "mkdir" /\ UNCHANGED <<groupState, groupDir>>
          /\ run'[g] = [r EXCEPT !.dir = TRUE, !.pc = "saveDir"] \/ run'[g] = [r EXCEPT !.pc = "tasks"]
      BY <2>2, <2>5 DEF MakeDir, dbVars, r
    <3> QED
      BY <2>1, <2>3, <2>4, <3>1 DEF RunPart, Live, r
  <2>6. CASE SaveDir(g)
    <3>1. /\ run[g].pc = "saveDir" /\ groupState'[g] = "running" /\ groupDir'[g] = TRUE
          /\ run'[g] = [r EXCEPT !.pc = "tasks"]
      BY <1>0, <2>2, <2>6 DEF SaveDir, r
    <3> QED
      BY <2>1, <2>3, <3>1 DEF RunPart, Live, r
  <2>7. CASE WaitTasks(g)
    <3>1. /\ run[g].pc = "tasks" /\ UNCHANGED <<groupState, groupDir>>
          /\ run'[g] = [r EXCEPT !.pc = "save"]
      BY <2>2, <2>7 DEF WaitTasks, dbVars, r
    <3> QED
      BY <2>1, <2>3, <3>1 DEF RunPart, Live, r
  <2>8. CASE SaveFinished(g)
    <3>1. /\ run[g].pc = "save" /\ groupState'[g] = "finished" /\ groupDir'[g] = r.dir
          /\ run'[g] = [r EXCEPT !.pc = "unregister"]
      BY <1>0, <2>2, <2>8 DEF SaveFinished, r
    <3> QED
      BY <2>1, <2>3, <3>1 DEF RunPart, Live, r
  <2>9. CASE Unregister(g)
    <3>1. run[g].pc = "unregister" /\ UNCHANGED <<groupState, groupDir>> /\ run'[g] = NoRun
      BY <2>2, <2>9 DEF Unregister, dbVars
    <3> QED
      BY <2>1, <3>1 DEF RunPart, Live, NoRun
  <2> QED
    BY <2>5, <2>6, <2>7, <2>8, <2>9 DEF GroupStep
<1>4. ASSUME NEW k \in Groups PROVE RunPart(k)'
  BY <1>1, <1>2, <1>3 DEF SInv, RunPart, Live
<1>5. ASSUME NEW k \in Groups, NEW u \in Targets PROVE TaskPart(k, u)'
  <2>1. work[k][u].kind \in {"log", "slow"}
    BY DEF TypeOK, SchedTypeOK, Task
  <2>2. Clearing(k)' <=> Clearing(k)
    BY <1>1 DEF Clearing
  <2>3. groupState[k] # "absent" => groupState'[k] # "absent"
    BY <1>1, <1>3
  <2> QED
    BY <1>1, <1>2, <2>1, <2>2, <2>3, TaskFrame DEF SInv
<1>6. ASSUME NEW h \in Handlers PROVE RequestPart(h)'
  <2>1. CASE handler[h].pc \in {"idle", "abort", "abortAll"}
    BY <1>1, <2>1 DEF RequestPart
  <2>2. CASE handler[h].pc \notin {"idle", "abort", "abortAll"}
    <3> DEFINE k == handler[h].g
    <3>1. k \in Groups
      BY <2>2 DEF TypeOK, HandlerTypeOK
    <3>2. k # g \/ ~Live(g) \/ run[g].pc = "registered"
      BY <2>2 DEF SInv, RequestPart, InitTasksOnce
    <3>3. run[g].pc # "registered"
      BY <1>1 DEF GroupFate
    <3>4. /\ groupState'[k] = groupState[k] /\ groupDir'[k] = groupDir[k]
          /\ Live(k)' <=> Live(k)
      BY <1>1, <1>2, <1>3, <3>1, <3>2, <3>3 DEF Live
    <3> HIDE DEF k
    <3> QED
      BY <1>1, <1>2, <3>1, <3>4, RequestFrame DEF SInv, k
  <2> QED
    BY <2>1, <2>2
<1>7. NoLeakedFile'
  <2>1. \A f \in files : f[1] \in Groups
    BY DEF TypeOK, DiskTypeOK
  <2> QED
    BY <1>1, <1>2, <1>3, <2>1 DEF SInv, NoLeakedFile
<1> QED
  BY <1>4, <1>5, <1>6, <1>7 DEF SInv

(* A restart empties the tables and the disk.                              *)
LEMMA CrashSerial ==
  ASSUME TypeOK, SInv, CrashRestart
  PROVE  SInv'
<1>1. \A f \in files : f[1] \in Groups
  BY DEF TypeOK, DiskTypeOK
<1>2. files' = {}
  BY <1>1 DEF CrashRestart, SInv, NoLeakedFile
<1>3. /\ groupState' = [g \in Groups |-> "absent"] /\ groupDir' = [g \in Groups |-> FALSE]
      /\ run' = [g \in Groups |-> NoRun]
      /\ work' = [g \in Groups |-> [t \in Targets |-> NoWork]]
      /\ handler' = [h \in Handlers |-> Idle]
  BY DEF CrashRestart
<1>4. ASSUME NEW g \in Groups, NEW t \in Targets
      PROVE  /\ previews'[g][t] = 0 /\ taskRow'[g][t].state = "absent"
             /\ ~taskRow'[g][t].log /\ ~taskRow'[g][t].slow
  <2>1. CASE groupState[g] # "absent"
    <3>1. previews'[g][t] = 0 /\ taskRow'[g][t] = NoTask
      BY <2>1 DEF CrashRestart
    <3> QED
      BY <3>1 DEF NoTask
  <2>2. CASE groupState[g] = "absent"
    <3>1. previews'[g][t] = previews[g][t] /\ taskRow'[g][t] = taskRow[g][t]
      BY <2>2 DEF CrashRestart
    <3>2. TaskPart(g, t)
      BY DEF SInv
    <3>3. previews[g][t] = 0 /\ taskRow[g][t].state = "absent"
      BY <2>2, <3>2 DEF TaskPart
    <3>4. ~taskRow[g][t].log /\ ~taskRow[g][t].slow
      BY <3>2, <3>3 DEF TaskPart
    <3> QED
      BY <3>1, <3>3, <3>4, Zenon
  <2> QED
    BY <2>1, <2>2
<1>5. ASSUME NEW g \in Groups PROVE RunPart(g)'
  BY <1>3 DEF RunPart, Live, NoRun
<1>6. ASSUME NEW g \in Groups, NEW t \in Targets PROVE TaskPart(g, t)'
  BY <1>3, <1>4 DEF TaskPart, PathsOK, Active, NoWork
<1>7. ASSUME NEW h \in Handlers PROVE RequestPart(h)'
  BY <1>3 DEF RequestPart, Idle
<1> QED
  BY <1>2, <1>5, <1>6, <1>7 DEF SInv, NoLeakedFile

(* The fields of a handler that moves on.                                  *)
LEMMA GotoFields ==
  ASSUME HandlerTypeOK, NEW h \in Handlers, NEW pc, Goto(h, pc)
  PROVE  /\ handler'[h].pc = pc
         /\ handler'[h].g = handler[h].g /\ handler'[h].dir = handler[h].dir
         /\ handler'[h].todo = handler[h].todo /\ handler'[h].models = handler[h].models
<1> DEFINE r == handler[h]
<1>1. r \in Handler /\ handler \in [Handlers -> Handler]
  BY DEF HandlerTypeOK
<1>2. handler'[h] = [r EXCEPT !.pc = pc]
  BY <1>1 DEF Goto, SetHandler
<1> HIDE DEF r
<1>3. LET n == [r EXCEPT !.pc = pc] IN
      n.pc = pc /\ n.g = r.g /\ n.dir = r.dir /\ n.todo = r.todo /\ n.models = r.models
  BY <1>1 DEF Handler
<1> QED
  BY <1>2, <1>3 DEF r

(* The fields of a handler that takes a request.                           *)
LEMMA RequestFields ==
  ASSUME HandlerTypeOK, NEW h \in Handlers, NEW pc, NEW g, NEW dir,
         \/ SetHandler(h, [Idle EXCEPT !.pc = pc, !.g = g, !.dir = dir])
         \/ SetHandler(h, [Idle EXCEPT !.pc = pc, !.g = g])
  PROVE  /\ handler'[h].pc = pc /\ handler'[h].g = g
         /\ SetHandler(h, [Idle EXCEPT !.pc = pc, !.g = g, !.dir = dir]) => handler'[h].dir = dir
<1>1. handler \in [Handlers -> Handler]
  BY DEF HandlerTypeOK
<1>2. \A x : SetHandler(h, x) => handler'[h] = x
  BY <1>1 DEF SetHandler
<1>3. LET n == [Idle EXCEPT !.pc = pc, !.g = g, !.dir = dir] IN n.pc = pc /\ n.g = g /\ n.dir = dir
  BY DEF Idle
<1>4. LET n == [Idle EXCEPT !.pc = pc, !.g = g] IN n.pc = pc /\ n.g = g
  BY DEF Idle
<1> QED
  BY <1>2, <1>3, <1>4

(* Among tables and disk untouched, a step of the only handler keeps the   *)
(* invariant when it leaves the handler in order.                          *)
LEMMA OnlyHandler ==
  ASSUME TypeOK, OneRequest, SInv, NEW h \in Handlers,
         UNCHANGED <<groupState, groupDir, taskRow, previews, files, run>>,
         \A g \in Groups, t \in Targets : SameTask(work'[g][t], work[g][t]),
         handler[h].pc \notin {"rmPreviews", "rmTasks"},
         RequestPart(h)'
  PROVE  SInv'
<1>1. ASSUME NEW g \in Groups PROVE RunPart(g)'
  BY DEF SInv, RunPart, Live
<1>2. ASSUME NEW g \in Groups, NEW t \in Targets PROVE TaskPart(g, t)'
  <2>1. work[g][t].kind \in {"log", "slow"}
    BY DEF TypeOK, SchedTypeOK, Task
  <2>2. ~Clearing(g)
    BY DEF Clearing, OneRequest
  <2> QED
    BY <2>1, <2>2, TaskFrame DEF SInv, SameTask
<1>3. \A k \in Handlers : RequestPart(k)'
  BY DEF OneRequest
<1> QED
  BY <1>1, <1>2, <1>3 DEF SInv, NoLeakedFile

(* Requests and handler steps that only look at the tables.                *)
LEMMA LookingSerial ==
  ASSUME TypeOK, UsedInv, OneRequest, SInv, NEW h \in Handlers,
         \/ RetryTask(h) \/ CancelTask(h) \/ DeleteTaskGroup(h) \/ FindFailedTasks(h)
         \/ (AsyncStart(h) /\ ~NotRegistered(handler[h].g)) \/ AsyncAbort(h) \/ AbortAll(h)
  PROVE  SInv'
<1>0. HandlerTypeOK /\ DbTypeOK
  BY DEF TypeOK
<1>1. \A g \in Groups, t \in Targets : SameTask(work[g][t], work[g][t])
  BY DEF SameTask
<1>2. /\ UNCHANGED <<groupState, groupDir, taskRow, previews, files, run>>
      /\ handler[h].pc \notin {"rmPreviews", "rmTasks"}
      /\ AbortAll(h) \/ UNCHANGED work
  BY DEF RetryTask, CancelTask, DeleteTaskGroup, FindFailedTasks, AsyncStart, AsyncAbort, AbortAll,
         dbVars, diskVars, schedVars
<1>3. \A g \in Groups, t \in Targets : SameTask(work'[g][t], work[g][t])
  BY <1>1, <1>2, AbortEffect
<1>4. ASSUME handler'[h].pc \in {"idle", "abort", "abortAll"} PROVE RequestPart(h)'
  BY <1>4 DEF RequestPart
<1>5. ASSUME Answer(h) PROVE RequestPart(h)'
  <2>1. handler'[h] = Idle
    BY <1>0, <1>5, AnswerEffect
  <2> QED
    BY <1>4, <2>1 DEF Idle
<1>6. CASE RetryTask(h) \/ DeleteTaskGroup(h)
  <2>1. PICK g \in Groups, pc \in {"findTasks", "rmDir"} :
          groupState[g] = "finished" /\ SetHandler(h, [Idle EXCEPT !.pc = pc, !.g = g, !.dir = groupDir[g]])
    BY <1>6 DEF RetryTask, DeleteTaskGroup, Deletable
  <2>2. handler'[h].pc = pc /\ handler'[h].g = g /\ handler'[h].dir = groupDir[g]
    BY <1>0, <2>1, RequestFields
  <2>3. ~Live(g) /\ groupDir[g] \in BOOLEAN
    BY <1>0, <2>1 DEF SInv, RunPart, DbTypeOK
  <2>4. ~Live(g)'
    BY <1>2, <2>3 DEF Live
  <2>5. RequestPart(h)'
    BY <1>2, <2>1, <2>2, <2>3, <2>4 DEF RequestPart
  <2> QED
    BY <1>2, <1>3, <2>5, OnlyHandler
<1>7. CASE CancelTask(h)
  <2>1. PICK g \in Groups : SetHandler(h, [Idle EXCEPT !.pc = "abort", !.g = g])
    BY <1>7 DEF CancelTask
  <2>2. handler'[h].pc = "abort"
    BY <1>0, <2>1, RequestFields
  <2> QED
    BY <1>2, <1>3, <1>4, <2>2, OnlyHandler
<1>8. CASE AsyncStart(h) /\ ~NotRegistered(handler[h].g)
  <2>1. Answer(h)
    BY <1>8 DEF AsyncStart
  <2> QED
    BY <1>2, <1>3, <1>5, <2>1, OnlyHandler
<1>9. CASE AbortAll(h)
  <2>1. Answer(h)
    BY <1>9 DEF AbortAll
  <2> QED
    BY <1>2, <1>3, <1>5, <2>1, OnlyHandler
<1>10. CASE AsyncAbort(h)
  <2>1. CASE Answer(h)
    BY <1>2, <1>3, <1>5, <2>1, OnlyHandler
  <2>2. CASE ~Answer(h)
    <3> DEFINE r == handler[h]
    <3>1. handler' = [handler EXCEPT ![h] = [r EXCEPT !.pc = "abortAll", !.gen = starts[r.g]]]
      BY <1>10, <2>2 DEF AsyncAbort, SetHandler
    <3>2. r \in Handler
      BY <1>0 DEF HandlerTypeOK
    <3> HIDE DEF r
    <3>3. handler'[h] = [r EXCEPT !.pc = "abortAll", !.gen = starts[r.g]]
      BY <1>0, <3>1 DEF HandlerTypeOK
    <3>4. handler'[h].pc = "abortAll"
      BY <3>2, <3>3 DEF Handler
    <3> QED
      BY <1>2, <1>3, <1>4, <3>4, OnlyHandler
  <2> QED
    BY <2>1, <2>2
<1>11. CASE FindFailedTasks(h)
  <2>1. CASE Answer(h)
    BY <1>2, <1>3, <1>5, <2>1, OnlyHandler
  <2>2. CASE ~Answer(h)
    <3> DEFINE r == handler[h]
               m == FailedTasks(r.g)
               n == [r EXCEPT !.models = m, !.todo = TasksOf(m), !.pc = "saveGroup"]
    <3>1. r.pc = "findTasks" /\ SetHandler(h, n) /\ handler' = [handler EXCEPT ![h] = n]
      BY <1>11, <2>2 DEF FindFailedTasks, SetHandler
    <3>2. r \in Handler /\ r.g \in Groups /\ RequestPart(h)
      BY <1>0, <3>1 DEF HandlerTypeOK, SInv
    <3>3. handler'[h] = n
      BY <1>0, <3>1 DEF HandlerTypeOK
    <3>4. n.pc = "saveGroup" /\ n.g = r.g /\ n.dir = r.dir /\ n.models = m /\ n.todo = TasksOf(m)
      BY <3>2 DEF Handler
    <3>5. groupState[r.g] = "finished" /\ ~Live(r.g) /\ (r.dir <=> groupDir[r.g])
      BY <3>1, <3>2 DEF RequestPart
    <3>6. ASSUME NEW t \in Targets
          PROVE  /\ m[t].state \in {"absent", "running"} /\ ~m[t].log
                 /\ PathsOK(r.g, t, m[t])
      <4> DEFINE row == taskRow[r.g][t]
      <4>1. row \in TaskModel /\ TaskPart(r.g, t)
        BY <1>0, <3>2 DEF DbTypeOK, SInv
      <4>2. ~Clearing(r.g)
        BY <1>2 DEF Clearing, OneRequest
      <4>3. PathsOK(r.g, t, row) /\ (row.state = "error" => ~row.log)
        BY <4>1, <4>2 DEF TaskPart
      <4>4. m[t] = IF row.state = "error" THEN [row EXCEPT !.state = "running"] ELSE NoTask
        BY DEF FailedTasks
      <4> HIDE DEF row, m
      <4>5. CASE row.state = "error"
        <5>1. m[t].state = "running" /\ m[t].log = row.log /\ m[t].slow = row.slow
          BY <4>1, <4>4, <4>5 DEF TaskModel
        <5> QED
          BY <4>3, <4>5, <5>1 DEF PathsOK
      <4>6. CASE row.state # "error"
        BY <4>4, <4>6 DEF NoTask, PathsOK
      <4> QED
        BY <4>5, <4>6
    <3>7. \A t \in Targets : t \in TasksOf(m) <=> m[t].state # "absent"
      BY DEF TasksOf
    <3> HIDE DEF n, m
    <3>8. ~Live(handler[h].g)'
      BY <1>2, <3>3, <3>4, <3>5 DEF Live
    <3>9. \A t \in Targets : PathsOK(handler[h].g, t, handler[h].models[t])'
      BY <1>2, <3>3, <3>4, <3>6 DEF PathsOK
    <3>10. RequestPart(h)'
      BY <1>2, <3>3, <3>4, <3>5, <3>6, <3>7, <3>8, <3>9 DEF RequestPart
    <3> QED
      BY <1>2, <1>3, <3>10, OnlyHandler
  <2> QED
    BY <2>1, <2>2
<1> QED
  BY <1>6, <1>7, <1>8, <1>9, <1>10, <1>11

(* CreateTaskGroup keeps the invariant: nothing exists for a new id.       *)
LEMMA CreateSerial ==
  ASSUME TypeOK, UsedInv, MapInv, OneRequest, SInv, NEW h \in Handlers, CreateTaskGroup(h)
  PROVE  SInv'
<1>0. HandlerTypeOK /\ DbTypeOK /\ DiskTypeOK
  BY DEF TypeOK
<1>1. PICK g \in Groups \ used, ts \in (SUBSET Targets) \ {{}} :
        /\ groupState' = [groupState EXCEPT ![g] = "running"]
        /\ SetHandler(h, [Idle EXCEPT
             !.pc = "insertTasks", !.g = g, !.todo = ts,
             !.models = [t \in Targets |-> IF t \in ts THEN NewTask ELSE NoTask]])
  BY DEF CreateTaskGroup
<1>2. UNCHANGED <<groupDir, taskRow, previews, files, run, work>> /\ handler[h].pc = "idle"
  BY DEF CreateTaskGroup, diskVars, schedVars
<1>3. groupState'[g] = "running" /\ \A k \in Groups : k # g => groupState'[k] = groupState[k]
  BY <1>0, <1>1 DEF DbTypeOK
<1> DEFINE m == [t \in Targets |-> IF t \in ts THEN NewTask ELSE NoTask]
           n == [Idle EXCEPT !.pc = "insertTasks", !.g = g, !.todo = ts, !.models = m]
<1>4. handler'[h] = n
  BY <1>0, <1>1 DEF SetHandler, HandlerTypeOK
<1>5. \A t \in Targets : /\ m[t].state = (IF t \in ts THEN "running" ELSE "absent")
                         /\ ~m[t].log /\ ~m[t].slow
  BY DEF NewTask, NoTask
<1> HIDE DEF m
<1>6. n.pc = "insertTasks" /\ n.g = g /\ n.dir = FALSE /\ n.todo = ts /\ n.models = m
  BY DEF Idle
<1> HIDE DEF n
<1>7. /\ run[g].pc = "none" /\ groupState[g] = "absent" /\ ~groupDir[g]
      /\ \A k \in Handlers : k = h
  BY <1>1 DEF UsedInv, SInv, RunPart, OneRequest
<1>8. ASSUME NEW k \in Groups PROVE RunPart(k)'
  BY <1>2, <1>3, <1>7 DEF SInv, RunPart, Live
<1>9. ASSUME NEW k \in Groups, NEW u \in Targets PROVE TaskPart(k, u)'
  <2>1. work[k][u].kind \in {"log", "slow"}
    BY DEF TypeOK, SchedTypeOK, Task
  <2>2. ~Clearing(k)
    BY <1>2, <1>7 DEF Clearing
  <2> QED
    BY <1>2, <1>3, <2>1, <2>2, TaskFrame DEF SInv
<1>10. RequestPart(h)'
  <2>1. \A t \in Targets : PathsOK(handler[h].g, t, handler[h].models[t])'
    BY <1>4, <1>5, <1>6 DEF PathsOK
  <2>2. ~Live(handler[h].g)'
    BY <1>2, <1>4, <1>6, <1>7 DEF Live
  <2>3. handler'[h].dir <=> groupDir'[g]
    BY <1>2, <1>4, <1>6, <1>7
  <2> QED
    BY <1>3, <1>4, <1>5, <1>6, <2>1, <2>2, <2>3 DEF RequestPart
<1>11. NoLeakedFile'
  <2>1. \A f \in files : f[1] \in Groups
    BY <1>0 DEF DiskTypeOK
  <2> QED
    BY <1>2, <1>3, <2>1 DEF SInv, NoLeakedFile
<1> QED
  BY <1>7, <1>8, <1>9, <1>10, <1>11 DEF SInv

(* The fields of a handler that has written the row of task t.             *)
LEMMA WroteTask ==
  ASSUME HandlerTypeOK, NEW h \in Handlers, NEW t \in handler[h].todo, NEW pc,
         SetHandler(h, [handler[h] EXCEPT !.todo = handler[h].todo \ {t},
                                          !.pc = IF handler[h].todo = {t} THEN "start" ELSE pc])
  PROVE  /\ handler'[h].pc = (IF handler[h].todo = {t} THEN "start" ELSE pc)
         /\ handler'[h].todo = handler[h].todo \ {t}
         /\ handler'[h].g = handler[h].g /\ handler'[h].dir = handler[h].dir
         /\ handler'[h].models = handler[h].models
<1> DEFINE r == handler[h]
           p == IF r.todo = {t} THEN "start" ELSE pc
<1>1. r \in Handler /\ handler \in [Handlers -> Handler]
  BY DEF HandlerTypeOK
<1>2. handler'[h] = [r EXCEPT !.todo = r.todo \ {t}, !.pc = p]
  BY <1>1 DEF SetHandler
<1> HIDE DEF r
<1>3. LET n == [r EXCEPT !.todo = r.todo \ {t}, !.pc = p] IN
      n.pc = p /\ n.todo = r.todo \ {t} /\ n.g = r.g /\ n.dir = r.dir /\ n.models = r.models
  BY <1>1 DEF Handler
<1> QED
  BY <1>2, <1>3 DEF r

(* A handler that writes the row of a task it will start keeps the         *)
(* invariant.                                                              *)
LEMMA WriteTaskSerial ==
  ASSUME TypeOK, MapInv, OneRequest, SInv, NEW h \in Handlers, InsertTask(h) \/ ResetTask(h)
  PROVE  SInv'
<1>0. HandlerTypeOK /\ DbTypeOK
  BY DEF TypeOK
<1> DEFINE r == handler[h]
           g == r.g
<1>1. /\ r \in Handler /\ g \in Groups /\ r.pc \in {"insertTasks", "saveTasks"} /\ RequestPart(h)
      /\ UNCHANGED <<groupState, groupDir, previews, files, run, work>>
      /\ \A k \in Handlers : k = h
  BY <1>0 DEF HandlerTypeOK, InsertTask, ResetTask, SInv, OneRequest, diskVars, schedVars
<1>2. PICK t, m :
        /\ t \in r.todo /\ m \in {NewTask, r.models[t]}
        /\ taskRow' = [taskRow EXCEPT ![g][t] = m]
        /\ SetHandler(h, [r EXCEPT !.todo = r.todo \ {t}, !.pc = IF r.todo = {t} THEN "start" ELSE r.pc])
  BY DEF InsertTask, ResetTask
<1>3. t \in Targets /\ r.models[t].state = "running"
  BY <1>1, <1>2 DEF Handler, RequestPart
<1>4. m.state = "running" /\ ~m.log /\ PathsOK(g, t, m)
  <2>1. CASE m = NewTask
    BY <2>1 DEF NewTask, PathsOK
  <2>2. CASE m = r.models[t]
    BY <1>1, <1>3, <2>2 DEF RequestPart
  <2> QED
    BY <1>2, <2>1, <2>2
<1>5. /\ handler'[h].pc = (IF r.todo = {t} THEN "start" ELSE r.pc)
      /\ handler'[h].todo = r.todo \ {t}
      /\ handler'[h].g = g /\ handler'[h].dir = r.dir /\ handler'[h].models = r.models
  BY <1>0, <1>2, WroteTask
<1>7. /\ taskRow'[g][t] = m
      /\ \A k \in Groups, u \in Targets : <<k, u>> # <<g, t>> => taskRow'[k][u] = taskRow[k][u]
  BY <1>0, <1>1, <1>2, <1>3 DEF DbTypeOK
<1>8. ASSUME NEW k \in Groups PROVE RunPart(k)'
  BY <1>1 DEF SInv, RunPart, Live
<1>9. ASSUME NEW k \in Groups, NEW u \in Targets PROVE TaskPart(k, u)'
  <2>1. work[k][u].kind \in {"log", "slow"}
    BY DEF TypeOK, SchedTypeOK, Task
  <2>2. ~Clearing(k)
    BY <1>1 DEF Clearing
  <2>3. CASE <<k, u>> # <<g, t>>
    BY <1>1, <1>7, <2>1, <2>2, <2>3, TaskFrame DEF SInv
  <2>4. CASE k = g /\ u = t
    <3>1. PathsOK(k, u, taskRow[k][u])'
      BY <1>1, <1>4, <1>7, <2>4 DEF PathsOK
    <3>2. groupState[g] = "running" /\ ~Live(g)
      BY <1>1 DEF RequestPart
    <3>3. ~Active(k, u)
      BY <1>1, <2>4, <3>2 DEF MapInv, Live
    <3>4. work[k][u].pc \in {"none", "done"} /\ UNCHANGED work
      BY <1>1, <3>3 DEF Active
    <3> QED
      BY <1>1, <1>4, <1>7, <2>4, <3>1, <3>2, <3>4 DEF TaskPart, Active
  <2> QED
    BY <2>3, <2>4
<1>10. RequestPart(h)'
  <2>0. handler'[h].pc \in {"insertTasks", "saveTasks", "start"}
    BY <1>1, <1>5
  <2>1. /\ groupState[g] = "running" /\ ~Live(g) /\ (r.dir <=> groupDir[g])
        /\ \A u \in Targets :
             /\ r.models[u].state \in {"absent", "running"} /\ ~r.models[u].log
             /\ PathsOK(g, u, r.models[u])
             /\ u \in r.todo => r.models[u].state = "running"
             /\ r.models[u].state = "running" => u \in r.todo \/ taskRow[g][u].state = "running"
    BY <1>1 DEF RequestPart
  <2>2. ~Live(handler[h].g)' /\ groupState'[handler'[h].g] = "running"
        /\ (handler'[h].dir <=> groupDir'[handler'[h].g])
    BY <1>1, <1>5, <2>1 DEF Live
  <2>3. \A u \in Targets : PathsOK(handler[h].g, u, handler[h].models[u])'
    BY <1>1, <1>5, <2>1 DEF PathsOK
  <2>4. \A u \in Targets : taskRow[g][u].state = "running" => taskRow'[g][u].state = "running"
    BY <1>1, <1>4, <1>7
  <2>5. \A u \in Targets :
          /\ handler'[h].models[u].state \in {"absent", "running"} /\ ~handler'[h].models[u].log
          /\ u \in handler'[h].todo => handler'[h].models[u].state = "running"
          /\ handler'[h].models[u].state = "running" =>
               u \in handler'[h].todo \/ taskRow'[handler'[h].g][u].state = "running"
    BY <1>4, <1>5, <1>7, <2>1, <2>4
  <2>6. handler'[h].pc = "start" => handler'[h].todo = {}
    BY <1>1, <1>5
  <2> QED
    BY <2>0, <2>2, <2>3, <2>5, <2>6 DEF RequestPart
<1>11. NoLeakedFile'
  BY <1>1 DEF SInv, NoLeakedFile
<1> QED
  BY <1>1, <1>8, <1>9, <1>10, <1>11 DEF SInv

(* ResetGroup keeps the invariant: it saves the row as it was but for its  *)
(* state.                                                                  *)
LEMMA ResetGroupSerial ==
  ASSUME TypeOK, OneRequest, SInv, NEW h \in Handlers, ResetGroup(h)
  PROVE  SInv'
<1>0. HandlerTypeOK /\ DbTypeOK /\ DiskTypeOK
  BY DEF TypeOK
<1> DEFINE r == handler[h]
           g == r.g
<1>1. /\ r \in Handler /\ g \in Groups /\ r.pc = "saveGroup" /\ RequestPart(h)
      /\ UNCHANGED <<taskRow, previews, files, run, work>>
      /\ Goto(h, "saveTasks")
      /\ \A k \in Handlers : k = h
  BY <1>0 DEF HandlerTypeOK, ResetGroup, SInv, OneRequest, diskVars, schedVars
<1>2. /\ groupState'[g] = "running" /\ groupDir'[g] = r.dir
      /\ \A k \in Groups : k # g => groupState'[k] = groupState[k] /\ groupDir'[k] = groupDir[k]
  BY <1>0, <1>1 DEF ResetGroup, DbTypeOK
<1>3. /\ handler'[h].pc = "saveTasks" /\ handler'[h].todo = r.todo /\ handler'[h].g = g
      /\ handler'[h].dir = r.dir /\ handler'[h].models = r.models
  BY <1>0, <1>1, GotoFields
<1>4. /\ groupState[g] = "finished" /\ ~Live(g) /\ (r.dir <=> groupDir[g])
      /\ r.dir \in BOOLEAN /\ groupDir[g] \in BOOLEAN
  BY <1>0, <1>1 DEF RequestPart, Handler, DbTypeOK
<1>5. ASSUME NEW k \in Groups PROVE RunPart(k)'
  BY <1>1, <1>2, <1>4 DEF SInv, RunPart, Live
<1>6. ASSUME NEW k \in Groups, NEW u \in Targets PROVE TaskPart(k, u)'
  <2>1. work[k][u].kind \in {"log", "slow"}
    BY DEF TypeOK, SchedTypeOK, Task
  <2>2. ~Clearing(k)
    BY <1>1 DEF Clearing
  <2> QED
    BY <1>1, <1>2, <2>1, <2>2, TaskFrame DEF SInv
<1>7. RequestPart(h)'
  <2>1. ~Live(handler[h].g)' /\ \A u \in Targets : PathsOK(handler[h].g, u, handler[h].models[u])'
    BY <1>1, <1>3, <1>4 DEF Live, PathsOK, RequestPart
  <2> QED
    BY <1>1, <1>2, <1>3, <1>4, <2>1 DEF RequestPart
<1>8. NoLeakedFile'
  <2>1. \A f \in files : f[1] \in Groups
    BY <1>0 DEF DiskTypeOK
  <2> QED
    BY <1>1, <1>2, <1>4, <2>1 DEF SInv, NoLeakedFile
<1> QED
  BY <1>1, <1>5, <1>6, <1>7, <1>8 DEF SInv

(* AsyncStart keeps the invariant: the row says running when the group is  *)
(* registered, and the object has the directory of the row.                *)
LEMMA StartSerial ==
  ASSUME TypeOK, OneRequest, SInv, NEW h \in Handlers, AsyncStart(h), NotRegistered(handler[h].g)
  PROVE  SInv'
<1>0. HandlerTypeOK /\ DbTypeOK /\ SchedTypeOK
  BY DEF TypeOK
<1> DEFINE r == handler[h]
           g == r.g
<1>1. /\ r \in Handler /\ g \in Groups /\ r.pc = "start" /\ RequestPart(h)
      /\ UNCHANGED <<groupState, groupDir, taskRow, previews, files>>
      /\ Goto(h, "init")
      /\ work' = [work EXCEPT ![g] = [t \in Targets |-> NoWork]]
      /\ \A k \in Handlers : k = h
  BY <1>0 DEF HandlerTypeOK, AsyncStart, SInv, OneRequest, diskVars, dbVars
<1>2. PICK n : n.pc = "registered" /\ n.dir = r.dir /\ run' = [run EXCEPT ![g] = n]
  BY DEF AsyncStart, SetRun, NoRun
<1>3. /\ run'[g] = n /\ \A k \in Groups : k # g => run'[k] = run[k]
      /\ \A t \in Targets : work'[g][t] = NoWork
      /\ \A k \in Groups : k # g => work'[k] = work[k]
  BY <1>0, <1>1, <1>2 DEF SchedTypeOK
<1>4. /\ handler'[h].pc = "init" /\ handler'[h].todo = r.todo /\ handler'[h].g = g
      /\ handler'[h].models = r.models
  BY <1>0, <1>1, GotoFields
<1>5. groupState[g] = "running" /\ (r.dir <=> groupDir[g])
  BY <1>1 DEF RequestPart
<1>6. ASSUME NEW k \in Groups PROVE RunPart(k)'
  BY <1>1, <1>2, <1>3, <1>5 DEF SInv, RunPart, Live
<1>7. ASSUME NEW k \in Groups, NEW u \in Targets PROVE TaskPart(k, u)'
  <2>1. work[k][u].kind \in {"log", "slow"}
    BY <1>0 DEF SchedTypeOK, Task
  <2>2. ~Clearing(k)
    BY <1>1 DEF Clearing
  <2>3. CASE k # g
    BY <1>1, <1>3, <2>1, <2>2, <2>3, TaskFrame DEF SInv
  <2>4. CASE k = g
    <3>1. work'[k][u].pc = "none"
      BY <1>3, <2>4 DEF NoWork
    <3>2. PathsOK(k, u, taskRow[k][u])'
      BY <1>1, <2>2 DEF SInv, TaskPart, PathsOK
    <3> QED
      BY <1>1, <3>1, <3>2 DEF SInv, TaskPart, Active
  <2> QED
    BY <2>3, <2>4
<1>8. RequestPart(h)'
  <2>1. \A u \in Targets : PathsOK(handler[h].g, u, handler[h].models[u])'
    BY <1>1, <1>4 DEF PathsOK, RequestPart
  <2> QED
    BY <1>1, <1>4, <1>5, <2>1 DEF RequestPart
<1> QED
  BY <1>1, <1>6, <1>7, <1>8 DEF SInv, NoLeakedFile

(* InitTasks keeps the invariant: the rows of the tasks it starts are      *)
(* running and have no path to a normal log.                               *)
LEMMA InitTasksSerial ==
  ASSUME TypeOK, OneRequest, InitTasksOnce, SInv, NEW h \in Handlers, InitTasks(h)
  PROVE  SInv'
<1>0. HandlerTypeOK /\ DbTypeOK /\ SchedTypeOK
  BY DEF TypeOK
<1> DEFINE r == handler[h]
           g == r.g
           ts == TasksOf(r.models)
           new == [t \in Targets |-> IF t \in ts
                                     THEN [NoWork EXCEPT !.pc = "open", !.model = r.models[t]]
                                     ELSE NoWork]
<1>1. /\ r \in Handler /\ g \in Groups /\ r.pc = "init" /\ RequestPart(h)
      /\ UNCHANGED <<groupState, groupDir, taskRow, previews, files>>
      /\ run[g].pc = "registered" /\ run[g] \in TaskGroup
      /\ Answer(h)
      /\ \A k \in Handlers : k = h
  BY <1>0 DEF HandlerTypeOK, SchedTypeOK, InitTasks, InitTasksOnce, SInv, OneRequest, diskVars, dbVars
<1>2. PICK n : n.pc = "mkdir" /\ n.dir = run[g].dir /\ run' = [run EXCEPT ![g] = n]
  BY <1>1 DEF InitTasks, SetRun, TaskGroup
<1>3. work' = [work EXCEPT ![g] = new]
  BY DEF InitTasks
<1>4. \A t \in Targets :
        \/ t \notin ts /\ new[t].pc = "none"
        \/ t \in ts /\ new[t].pc = "open" /\ new[t].model = r.models[t]
  BY DEF NoWork
<1>5. \A t \in Targets : t \in ts <=> r.models[t].state # "absent"
  BY DEF TasksOf
<1> HIDE DEF ts, new
<1>6. /\ run'[g] = n /\ \A k \in Groups : k # g => run'[k] = run[k]
      /\ work'[g] = new
      /\ \A k \in Groups : k # g => work'[k] = work[k]
  BY <1>0, <1>1, <1>2, <1>3 DEF SchedTypeOK
<1>7. handler'[h] = Idle
  BY <1>0, <1>1, AnswerEffect
<1>8. ASSUME NEW k \in Groups PROVE RunPart(k)'
  BY <1>1, <1>2, <1>6 DEF SInv, RunPart, Live
<1>9. ASSUME NEW k \in Groups, NEW u \in Targets PROVE TaskPart(k, u)'
  <2>1. work[k][u].kind \in {"log", "slow"}
    BY <1>0 DEF SchedTypeOK, Task
  <2>2. ~Clearing(k)
    BY <1>1 DEF Clearing
  <2>3. CASE k # g
    BY <1>1, <1>6, <2>1, <2>2, <2>3, TaskFrame DEF SInv
  <2>4. CASE k = g
    <3>1. PathsOK(k, u, taskRow[k][u])'
      BY <1>1, <2>2 DEF SInv, TaskPart, PathsOK
    <3>2. u \in ts => taskRow[k][u].state = "running" /\ PathsOK(k, u, r.models[u])
      BY <1>1, <1>5, <2>4 DEF RequestPart
    <3>3. \/ work'[k][u].pc = "none"
          \/ work'[k][u].pc = "open" /\ taskRow'[k][u].state = "running" /\ PathsOK(k, u, work[k][u].model)'
      BY <1>1, <1>4, <1>6, <2>4, <3>2 DEF PathsOK
    <3> QED
      BY <1>1, <3>1, <3>3 DEF SInv, TaskPart, Active
  <2> QED
    BY <2>3, <2>4
<1>10. RequestPart(h)'
  BY <1>7 DEF RequestPart, Idle
<1> QED
  BY <1>1, <1>8, <1>9, <1>10 DEF SInv, NoLeakedFile

(* A deletion goes on while the group's row still says finished, and no    *)
(* goroutine of the group writes; what each step deletes is no longer      *)
(* referred to.                                                            *)
LEMMA DeleteSerial ==
  ASSUME TypeOK, MapInv, OneRequest, SInv, NEW h \in Handlers,
         RemoveDir(h) \/ DeletePreviews(h) \/ DeleteTasks(h) \/ DeleteGroup(h)
  PROVE  SInv'
<1>0. HandlerTypeOK /\ DbTypeOK /\ SchedTypeOK /\ DiskTypeOK
  BY DEF TypeOK
<1>g. PICK g \in Groups : g = handler[h].g
  BY <1>0 DEF HandlerTypeOK, RemoveDir, DeletePreviews, DeleteTasks, DeleteGroup
<1>1. /\ handler[h].pc \in {"rmDir", "rmPreviews", "rmTasks", "rmGroup"}
      /\ RequestPart(h)
      /\ UNCHANGED <<run, work>>
      /\ \A k \in Handlers : k = h
  BY DEF RemoveDir, DeletePreviews, DeleteTasks, DeleteGroup, SInv, OneRequest, schedVars
<1>2. groupState[g] = "finished" /\ ~Live(g) /\ \A u \in Targets : ~Active(g, u)
  BY <1>1, <1>g DEF RequestPart, MapInv, Live
<1>3. \A k \in Groups : k # g => ~Clearing(k)
  BY <1>1, <1>g DEF Clearing
<1>4. ASSUME NEW k \in Groups, NEW u \in Targets, k # g,
             groupState'[k] = groupState[k], taskRow'[k][u] = taskRow[k][u],
             previews'[k][u] = previews[k][u],
             \A f \in files : f[1] # g => f \in files'
      PROVE  TaskPart(k, u)'
  <2>1. work[k][u].kind \in {"log", "slow"}
    BY <1>0 DEF SchedTypeOK, Task
  <2>2. \A kind \in {"log", "slow"} : <<k, u, kind>> \in files => <<k, u, kind>> \in files'
    BY <1>4
  <2> QED
    BY <1>1, <1>3, <1>4, <2>1, <2>2, TaskFrame DEF SInv
<1>5. /\ ~Live(g)'
      /\ \A u \in Targets : work'[g][u].pc \in {"none", "done"} /\ ~Active(g, u)'
  BY <1>1, <1>2 DEF Active, Live
<1>6. \A f \in files : f[1] \in Groups
  BY <1>0 DEF DiskTypeOK
<1>7. CASE RemoveDir(h)
  <2>1. /\ handler[h].pc = "rmDir" /\ Goto(h, "rmPreviews")
        /\ UNCHANGED <<groupState, groupDir, taskRow, previews>>
        /\ files' = IF handler[h].dir THEN {f \in files : f[1] # g} ELSE files
    BY <1>7, <1>g DEF RemoveDir, dbVars, diskVars
  <2>2. handler'[h].pc = "rmPreviews" /\ handler'[h].g = g
    BY <1>0, <1>g, <2>1, GotoFields
  <2>3. (\A f \in files' : f[1] # g /\ f \in files) /\ \A f \in files : f[1] # g => f \in files'
    <3>1. ~handler[h].dir => \A f \in files : f[1] # g
      BY <1>1, <1>g, <2>1 DEF RequestPart, SInv, NoLeakedFile
    <3> QED
      BY <2>1, <3>1
  <2>4. ASSUME NEW k \in Groups PROVE RunPart(k)'
    BY <1>1, <2>1 DEF SInv, RunPart, Live
  <2>5. ASSUME NEW u \in Targets PROVE TaskPart(g, u)'
    <3>1. Clearing(g)'
      BY <2>2 DEF Clearing
    <3> QED
      BY <1>5, <2>1, <3>1 DEF SInv, TaskPart
  <2>6. RequestPart(h)'
    BY <1>2, <1>5, <2>1, <2>2, <2>3 DEF RequestPart
  <2>7. NoLeakedFile'
    BY <2>1, <2>3 DEF SInv, NoLeakedFile
  <2> QED
    BY <1>1, <1>4, <2>1, <2>2, <2>3, <2>4, <2>5, <2>6, <2>7 DEF SInv
<1>8. CASE DeletePreviews(h)
  <2>1. /\ handler[h].pc = "rmPreviews" /\ Goto(h, "rmTasks")
        /\ UNCHANGED <<groupState, groupDir, taskRow, files>>
        /\ previews' = [previews EXCEPT ![g] = [t \in Targets |-> 0]]
    BY <1>8, <1>g DEF DeletePreviews, diskVars
  <2>2. handler'[h].pc = "rmTasks" /\ handler'[h].g = g
    BY <1>0, <1>g, <2>1, GotoFields
  <2>3. /\ \A u \in Targets : previews'[g][u] = 0
        /\ \A k \in Groups : k # g => previews'[k] = previews[k]
    BY <1>0, <2>1 DEF DbTypeOK
  <2>4. ASSUME NEW k \in Groups PROVE RunPart(k)'
    BY <1>1, <2>1 DEF SInv, RunPart, Live
  <2>5. ASSUME NEW u \in Targets PROVE TaskPart(g, u)'
    <3>1. Clearing(g)'
      BY <2>2 DEF Clearing
    <3> QED
      BY <1>5, <2>1, <2>3, <3>1 DEF SInv, TaskPart
  <2>6. RequestPart(h)'
    <3>1. \A f \in files : f[1] # g
      BY <1>1, <1>g, <2>1 DEF RequestPart
    <3> QED
      BY <1>2, <1>5, <2>1, <2>2, <2>3, <3>1 DEF RequestPart
  <2>7. NoLeakedFile'
    BY <2>1 DEF SInv, NoLeakedFile
  <2> QED
    BY <1>1, <1>4, <2>1, <2>2, <2>3, <2>4, <2>5, <2>6, <2>7 DEF SInv
<1>9. CASE DeleteTasks(h)
  <2>1. /\ handler[h].pc = "rmTasks" /\ Goto(h, "rmGroup")
        /\ UNCHANGED <<groupState, groupDir, previews, files>>
        /\ taskRow' = [taskRow EXCEPT ![g] = [t \in Targets |-> NoTask]]
    BY <1>9, <1>g DEF DeleteTasks, diskVars
  <2>2. handler'[h].pc = "rmGroup" /\ handler'[h].g = g
    BY <1>0, <1>g, <2>1, GotoFields
  <2>3. /\ \A u \in Targets : taskRow'[g][u] = NoTask
        /\ \A k \in Groups : k # g => taskRow'[k] = taskRow[k]
    BY <1>0, <2>1 DEF DbTypeOK
  <2>4. ASSUME NEW k \in Groups PROVE RunPart(k)'
    BY <1>1, <2>1 DEF SInv, RunPart, Live
  <2>5. /\ \A u \in Targets : previews'[g][u] = 0
        /\ \A f \in files' : f[1] # g
    BY <1>1, <1>g, <2>1 DEF RequestPart
  <2>6. \A u \in Targets :
          taskRow'[g][u].state = "absent" /\ ~taskRow'[g][u].log /\ ~taskRow'[g][u].slow
    BY <2>3 DEF NoTask
  <2>7. ASSUME NEW u \in Targets PROVE TaskPart(g, u)'
    BY <1>5, <2>5, <2>6 DEF TaskPart, PathsOK
  <2>8. RequestPart(h)'
    BY <1>2, <1>5, <2>1, <2>2, <2>5, <2>6 DEF RequestPart
  <2>9. NoLeakedFile'
    BY <2>1 DEF SInv, NoLeakedFile
  <2> QED
    BY <1>1, <1>4, <2>1, <2>2, <2>3, <2>4, <2>7, <2>8, <2>9 DEF SInv
<1>10. CASE DeleteGroup(h)
  <2>1. /\ handler[h].pc = "rmGroup" /\ Answer(h)
        /\ UNCHANGED <<taskRow, previews, files>>
        /\ groupState' = [groupState EXCEPT ![g] = "absent"]
        /\ groupDir' = [groupDir EXCEPT ![g] = FALSE]
    BY <1>10, <1>g DEF DeleteGroup, diskVars
  <2>2. handler'[h] = Idle
    BY <1>0, <2>1, AnswerEffect
  <2>3. /\ groupState'[g] = "absent" /\ groupDir'[g] = FALSE
        /\ \A k \in Groups : k # g => groupState'[k] = groupState[k] /\ groupDir'[k] = groupDir[k]
    BY <1>0, <2>1 DEF DbTypeOK
  <2>4. ASSUME NEW k \in Groups PROVE RunPart(k)'
    <3>1. CASE k = g
      <4>1. run[g].pc \notin {"registered", "mkdir", "saveDir", "tasks", "save"} /\ UNCHANGED run
        BY <1>1, <1>2 DEF Live
      <4> QED
        BY <2>3, <3>1, <4>1 DEF RunPart, Live
    <3>2. CASE k # g
      BY <1>1, <2>3, <3>2 DEF SInv, RunPart, Live
    <3> QED
      BY <3>1, <3>2
  <2>5. /\ \A u \in Targets : previews[g][u] = 0 /\ taskRow[g][u].state = "absent"
        /\ \A f \in files : f[1] # g
    BY <1>1, <1>g, <2>1 DEF RequestPart
  <2>6. ASSUME NEW u \in Targets PROVE TaskPart(g, u)'
    <3>1. TaskPart(g, u) /\ taskRow[g][u].state = "absent"
      BY <2>5 DEF SInv
    <3>2. ~taskRow[g][u].log /\ ~taskRow[g][u].slow
      BY <3>1 DEF TaskPart
    <3> QED
      BY <1>5, <2>1, <2>5, <3>1, <3>2 DEF TaskPart, PathsOK
  <2>7. RequestPart(h)'
    BY <2>2 DEF RequestPart, Idle
  <2>8. NoLeakedFile'
    BY <1>6, <2>1, <2>3, <2>5 DEF SInv, NoLeakedFile
  <2> QED
    BY <1>1, <1>4, <2>1, <2>3, <2>4, <2>6, <2>7, <2>8 DEF SInv
<1> QED
  BY <1>7, <1>8, <1>9, <1>10

(* Every step keeps the invariant.                                         *)
LEMMA NextSerial ==
  ASSUME OneRequest, IInv, SInv, [Next]_vars
  PROVE  SInv'
<1>1. TypeOK /\ RequestInv /\ MapInv /\ InitTasksOnce /\ UsedInv /\ ErrorInv
  BY DEF IInv
<1>2. ASSUME NEW h \in Handlers, Request(h) \/ HandlerStep(h) PROVE SInv'
  BY <1>1, <1>2, LookingSerial, CreateSerial, WriteTaskSerial, ResetGroupSerial, StartSerial,
     InitTasksSerial, DeleteSerial DEF Request, HandlerStep
<1>3. CASE UNCHANGED vars
  BY <1>3 DEF vars, dbVars, diskVars, schedVars, SInv, RunPart, TaskPart, RequestPart, NoLeakedFile,
              Live, PathsOK, Clearing, Active
<1> QED
  BY <1>1, <1>2, <1>3, GroupSerial, TaskSerial, CrashSerial DEF Next

(* The invariant holds of an empty database.                               *)
LEMMA InitSerial == Init => SInv
<1> SUFFICES ASSUME Init PROVE SInv
  OBVIOUS
<1>1. ASSUME NEW g \in Groups PROVE RunPart(g)
  BY DEF Init, RunPart, Live, NoRun
<1>2. ASSUME NEW g \in Groups, NEW t \in Targets PROVE TaskPart(g, t)
  <2>1. previews[g][t] = 0 /\ taskRow[g][t] = NoTask /\ work[g][t] = NoWork
    BY DEF Init
  <2> QED
    BY <2>1 DEF TaskPart, PathsOK, Active, NoTask, NoWork
<1>3. ASSUME NEW h \in Handlers PROVE RequestPart(h)
  BY DEF Init, RequestPart, Idle
<1> QED
  BY <1>1, <1>2, <1>3 DEF Init, SInv, NoLeakedFile

(* While requests come one at a time the invariant always holds, for any   *)
(* numbers of groups and instances and any interleaving with the groups'   *)
(* goroutines.                                                             *)
THEOREM SerialInvariant ==
  ASSUME OneRequest
  PROVE  Spec => []SInv
<1>1. IInv /\ SInv /\ [Next]_vars => SInv'
  BY NextSerial
<1> QED
  BY <1>1, InitSerial, InductiveInvariant, PTL DEF Spec

(* While requests come one at a time, no preview row outlives its task row *)
(* and no task row its group, through every interleaving of Delete with    *)
(* the goroutines and every restart.                                       *)
THEOREM NoRowOrphaned ==
  ASSUME OneRequest
  PROVE  Spec => []NoOrphanRows
<1>1. IInv /\ SInv => NoOrphanRows
  <2> SUFFICES ASSUME IInv, SInv, NEW g \in Groups, NEW t \in Targets
               PROVE  /\ previews[g][t] > 0 => taskRow[g][t].state # "absent"
                      /\ taskRow[g][t].state # "absent" => groupState[g] # "absent"
    BY DEF NoOrphanRows
  <2>1. previews[g][t] \in Nat /\ TaskPart(g, t)
    BY DEF IInv, TypeOK, DbTypeOK, SInv
  <2> QED
    BY <2>1 DEF TaskPart
<1> QED
  BY <1>1, SerialInvariant, InductiveInvariant, PTL

(* While requests come one at a time, every log file is in a directory     *)
(* that a group row names, so that Delete or cleanupAllTasks removes it.   *)
THEOREM NoFileLeaked ==
  ASSUME OneRequest
  PROVE  Spec => []NoLeakedFile
<1>1. SInv => NoLeakedFile
  BY DEF SInv
<1> QED
  BY <1>1, SerialInvariant, PTL

(* While requests come one at a time, a group whose SyncRun has not saved  *)
(* its end is listed as running, so that RetryTask and DeleteTaskGroup     *)
(* refuse it.                                                              *)
THEOREM LiveGroupsListedRunning ==
  ASSUME OneRequest
  PROVE  Spec => []LiveGroupListedRunning
<1>1. SInv => LiveGroupListedRunning
  BY DEF SInv, RunPart, Live, LiveGroupListedRunning
<1> QED
  BY <1>1, SerialInvariant, PTL

(* While requests come one at a time, the file DownloadLogs serves for a   *)
(* finished task is on disk unless its group is being deleted, whatever    *)
(* retries RemoveDataAndPreview cleans up after.                           *)
THEOREM DownloadsReady ==
  ASSUME OneRequest
  PROVE  Spec => []DownloadReady
<1>1. IInv /\ SInv => DownloadReady
  <2> SUFFICES ASSUME IInv, SInv, NEW g \in Groups, NEW t \in Targets,
                      taskRow[g][t].log \/ taskRow[g][t].slow, ~Clearing(g)
               PROVE  DownloadFile(g, t) \in files
    BY DEF DownloadReady, Clearing
  <2>1. PathsOK(g, t, taskRow[g][t])
    BY DEF SInv, TaskPart
  <2> QED
    BY <2>1 DEF PathsOK, DownloadFile
<1> QED
  BY <1>1, SerialInvariant, InductiveInvariant, PTL

-----------------------------------------------------------------------------
(* Deleted groups, for any number of concurrent requests.                  *)

(* Request h has found a row of group g that is not running, to retry or   *)
(* to delete it.                                                           *)
Found(h, g) ==
  /\ handler[h].g = g
  /\ handler[h].pc \in {"findTasks", "saveGroup", "saveTasks", "rmDir", "rmPreviews", "rmTasks", "rmGroup"}

(* Request h has yet to start group g.                                     *)
ToStart(h, g) == handler[h].g = g /\ handler[h].pc \in {"insertTasks", "start"}

(* Until the first goroutine of a group has saved its end, the group is    *)
(* listed as running, so that no retry and no deletion has found it.       *)
FirstRunPart(g) ==
  /\ starts[g] = 0 =>
       /\ run[g].pc = "none" /\ groupState[g] # "finished"
       /\ \A h \in Handlers : ~Found(h, g)
       /\ \A h \in Handlers : ToStart(h, g) => groupState[g] = "running"
  /\ starts[g] = 1 /\ Live(g) =>
       /\ groupState[g] = "running"
       /\ \A h \in Handlers : ~Found(h, g)

FirstRunInv == \A g \in Groups : FirstRunPart(g)

(* What a step of a request does to group g: it finds a row only when the  *)
(* row says finished, goes on to start what it has found or created, and   *)
(* changes the row of a group it has found or creates.                     *)
LEMMA RequestMoves ==
  ASSUME TypeOK, NEW h \in Handlers, Request(h) \/ HandlerStep(h), NEW g \in Groups
  PROVE  /\ Found(h, g)' => Found(h, g) \/ groupState[g] = "finished"
         /\ ToStart(h, g)' => \/ ToStart(h, g) \/ Found(h, g)
                              \/ g \notin used /\ groupState'[g] = "running"
         /\ groupState'[g] # groupState[g] =>
              \/ Found(h, g) /\ (ResetGroup(h) \/ DeleteGroup(h))
              \/ g \notin used /\ groupState'[g] = "running"
<1> DEFINE Moves == /\ Found(h, g)' => Found(h, g) \/ groupState[g] = "finished"
                    /\ ToStart(h, g)' => \/ ToStart(h, g) \/ Found(h, g)
                                         \/ g \notin used /\ groupState'[g] = "running"
           Rows == groupState'[g] # groupState[g] =>
                     \/ Found(h, g) /\ (ResetGroup(h) \/ DeleteGroup(h))
                     \/ g \notin used /\ groupState'[g] = "running"
<1>0. DbTypeOK /\ handler \in [Handlers -> Handler] /\ handler[h] \in Handler
  BY DEF TypeOK, HandlerTypeOK
<1>1. Idle.pc = "idle" /\ Idle.g = NoGroup
  BY DEF Idle
<1>2. /\ \A r : SetHandler(h, r) => handler'[h] = r
      /\ Answer(h) => handler'[h].pc = "idle"
      /\ \A pc : Goto(h, pc) => handler'[h].pc = pc /\ handler'[h].g = handler[h].g
  BY <1>0, <1>1 DEF SetHandler, Answer, Goto, Handler
<1>3. CASE CreateTaskGroup(h)
  <2>1. PICK q \in Groups \ used, ts \in SUBSET Targets :
          /\ groupState' = [groupState EXCEPT ![q] = "running"]
          /\ SetHandler(h, [Idle EXCEPT
               !.pc = "insertTasks", !.g = q, !.todo = ts,
               !.models = [t \in Targets |-> IF t \in ts THEN NewTask ELSE NoTask]])
    BY <1>3 DEF CreateTaskGroup
  <2>2. handler'[h].pc = "insertTasks" /\ handler'[h].g = q
    BY <1>2, <2>1 DEF Idle
  <2> QED
    BY <1>0, <2>1, <2>2 DEF DbTypeOK, Found, ToStart
<1>4. CASE RetryTask(h) \/ DeleteTaskGroup(h)
  <2>1. PICK q \in Groups, pc \in {"findTasks", "rmDir"} :
          groupState[q] = "finished" /\ SetHandler(h, [Idle EXCEPT !.pc = pc, !.g = q, !.dir = groupDir[q]])
    BY <1>4 DEF RetryTask, DeleteTaskGroup, Deletable
  <2>2. handler'[h].pc = pc /\ handler'[h].g = q
    BY <1>2, <2>1 DEF Idle
  <2>3. UNCHANGED groupState
    BY <1>4 DEF RetryTask, DeleteTaskGroup, dbVars
  <2> QED
    BY <2>1, <2>2, <2>3 DEF Found, ToStart
<1>5. CASE CancelTask(h)
  <2>1. PICK q \in Groups : SetHandler(h, [Idle EXCEPT !.pc = "abort", !.g = q])
    BY <1>5 DEF CancelTask
  <2>2. handler'[h].pc = "abort"
    BY <1>2, <2>1 DEF Idle
  <2>3. UNCHANGED groupState
    BY <1>5 DEF CancelTask, dbVars
  <2> QED
    BY <2>2, <2>3 DEF Found, ToStart
<1>6. CASE InsertTask(h) \/ ResetTask(h) \/ FindFailedTasks(h)
  <2>1. /\ handler[h].pc \in {"insertTasks", "saveTasks", "findTasks"}
        /\ UNCHANGED groupState
    BY <1>6 DEF InsertTask, ResetTask, FindFailedTasks, dbVars
  <2>2. \/ handler'[h].pc = "idle"
        \/ /\ handler'[h].g = handler[h].g
           /\ handler[h].pc = "insertTasks" => handler'[h].pc \in {"insertTasks", "start"}
    BY <1>0, <1>2, <1>6 DEF InsertTask, ResetTask, FindFailedTasks, Handler
  <2> QED
    BY <2>1, <2>2 DEF Found, ToStart
<1>7. CASE ResetGroup(h) \/ RemoveDir(h) \/ DeletePreviews(h) \/ DeleteTasks(h)
  <2>1. /\ handler[h].pc \in {"saveGroup", "rmDir", "rmPreviews", "rmTasks"}
        /\ handler'[h].g = handler[h].g
    BY <1>2, <1>7 DEF ResetGroup, RemoveDir, DeletePreviews, DeleteTasks
  <2>2. groupState'[g] # groupState[g] => ResetGroup(h) /\ handler[h].g = g
    BY <1>0, <1>7 DEF ResetGroup, RemoveDir, DeletePreviews, DeleteTasks, DbTypeOK, dbVars
  <2> QED
    BY <2>1, <2>2 DEF Found, ToStart
<1>8. CASE DeleteGroup(h)
  BY <1>0, <1>2, <1>8 DEF DeleteGroup, DbTypeOK, Found, ToStart
<1>9. CASE AsyncStart(h) \/ InitTasks(h) \/ AsyncAbort(h) \/ AbortAll(h)
  <2>1. handler'[h].pc \in {"idle", "init", "abortAll"}
    BY <1>0, <1>2, <1>9 DEF AsyncStart, InitTasks, AsyncAbort, AbortAll, Handler
  <2>2. UNCHANGED groupState
    BY <1>9 DEF AsyncStart, InitTasks, AsyncAbort, AbortAll, dbVars
  <2> QED
    BY <2>1, <2>2 DEF Found, ToStart
<1> QED
  BY <1>3, <1>4, <1>5, <1>6, <1>7, <1>8, <1>9 DEF Request, HandlerStep

(* A step of a request keeps the invariant.                                *)
LEMMA RequestFirstRun ==
  ASSUME IInv, FirstRunInv, NEW h \in Handlers, Request(h) \/ HandlerStep(h)
  PROVE  FirstRunInv'
<1>0. TypeOK /\ RequestInv /\ MapInv /\ UsedInv /\ InitTasksOnce /\ SchedTypeOK /\ HandlerTypeOK /\ DbTypeOK
  BY DEF IInv, TypeOK
<1> SUFFICES ASSUME NEW g \in Groups PROVE FirstRunPart(g)'
  BY DEF FirstRunInv
<1>1. FirstRunPart(g) /\ starts[g] \in Nat
  BY <1>0 DEF FirstRunInv, SchedTypeOK
<1>2. \A k \in Handlers : k # h => handler'[k] = handler[k]
  BY <1>0, HandlerEffect
<1>3. \A k \in Handlers : k # h => (Found(k, g)' <=> Found(k, g)) /\ (ToStart(k, g)' <=> ToStart(k, g))
  BY <1>2 DEF Found, ToStart
<1>4. CASE starts'[g] = starts[g] /\ (run'[g].pc # "none" => run[g].pc # "none") /\ (Live(g)' => Live(g))
  <2>1. ASSUME starts[g] = 0 \/ (starts[g] = 1 /\ Live(g)), g \in used
        PROVE  /\ groupState'[g] = groupState[g]
               /\ ~Found(h, g)'
               /\ ToStart(h, g)' => ToStart(h, g)
    BY <1>0, <1>1, <2>1, RequestMoves DEF FirstRunPart
  <2>2. ASSUME g \notin used
        PROVE  /\ run[g].pc = "none" /\ ~Found(h, g)' /\ groupState'[g] \in {"absent", "running"}
               /\ \A k \in Handlers : ToStart(k, g)' => groupState'[g] = "running"
               /\ \A k \in Handlers : ~Found(k, g)'
    <3>1. run[g].pc = "none" /\ groupState[g] = "absent" /\ \A k \in Handlers : ~Found(k, g) /\ ~ToStart(k, g)
      BY <1>0, <2>2 DEF UsedInv, Found, ToStart, DbTypeOK
    <3>2. /\ Found(h, g)' => FALSE
          /\ ToStart(h, g)' => groupState'[g] = "running"
          /\ groupState'[g] # groupState[g] => groupState'[g] = "running"
      BY <1>0, <3>1, RequestMoves
    <3> QED
      BY <1>3, <3>1, <3>2
  <2>3. CASE g \in used
    BY <1>1, <1>3, <1>4, <2>1, <2>3 DEF FirstRunPart
  <2>4. CASE g \notin used
    <3>1. ~Live(g)
      BY <2>2, <2>4 DEF Live
    <3> QED
      BY <1>4, <2>2, <2>4, <3>1 DEF FirstRunPart
  <2> QED
    BY <2>3, <2>4
<1>5. ASSUME AsyncStart(h), handler[h].g = g, NotRegistered(g) PROVE FirstRunPart(g)'
  <2>1. starts'[g] = starts[g] + 1 /\ UNCHANGED groupState
    BY <1>0, <1>5 DEF AsyncStart, SchedTypeOK, dbVars
  <2>2. CASE starts[g] = 0
    <3>1. groupState[g] = "running" /\ \A k \in Handlers : ~Found(k, g)
      BY <1>1, <1>5, <2>2 DEF FirstRunPart, ToStart, AsyncStart
    <3>2. \A k \in Handlers : ~Found(k, g)'
      BY <1>0, <1>3, <3>1, RequestMoves
    <3> QED
      BY <2>1, <2>2, <3>1, <3>2 DEF FirstRunPart
  <2>3. CASE starts[g] # 0
    <3>1. starts'[g] # 0 /\ starts'[g] # 1
      BY <1>1, <2>1, <2>3
    <3> QED
      BY <3>1 DEF FirstRunPart
  <2> QED
    BY <2>2, <2>3
<1>6. ASSUME AsyncStart(h), handler[h].g # g \/ ~NotRegistered(g)
      PROVE  starts'[g] = starts[g] /\ run'[g] = run[g]
  BY <1>0, <1>6 DEF AsyncStart, SetRun, SchedTypeOK, schedVars
<1>7. ASSUME InitTasks(h)
      PROVE  starts'[g] = starts[g] /\ (run'[g] = run[g] \/ (run[g].pc = "registered" /\ run'[g].pc = "mkdir"))
  <2>1. UNCHANGED starts
    BY <1>7 DEF InitTasks
  <2>2. CASE handler[h].g # g
    BY <1>0, <1>7, <2>1, <2>2 DEF InitTasks, SetRun, SchedTypeOK
  <2>3. CASE handler[h].g = g
    <3>1. run[g].pc = "registered" /\ run[g] \in TaskGroup
      BY <1>0, <1>7, <2>3 DEF InitTasks, InitTasksOnce, SchedTypeOK
    <3>2. run'[g] = [run[g] EXCEPT !.tasks = TasksOf(handler[h].models), !.pc = "mkdir"]
      BY <1>0, <1>7, <2>3 DEF InitTasks, SetRun, SchedTypeOK
    <3> QED
      BY <2>1, <3>1, <3>2 DEF TaskGroup
  <2> QED
    BY <2>2, <2>3
<1>8. ASSUME AbortAll(h) \/ UNCHANGED schedVars PROVE starts'[g] = starts[g] /\ run'[g] = run[g]
  BY <1>8 DEF AbortAll, schedVars
<1> QED
  BY <1>4, <1>5, <1>6, <1>7, <1>8, SchedUnchanged DEF Live

(* Every step keeps the invariant.                                         *)
LEMMA NextFirstRun ==
  ASSUME IInv, FirstRunInv, [Next]_vars
  PROVE  FirstRunInv'
<1>0. TypeOK
  BY DEF IInv
<1>1. ASSUME NEW g \in Groups, GroupStep(g) PROVE FirstRunInv'
  <2>1. /\ GroupFate(g)
        /\ \A k \in Groups : k # g => run'[k] = run[k] /\ groupState'[k] = groupState[k]
        /\ UNCHANGED <<starts, handler>>
    BY <1>0, <1>1, GroupEffect
  <2>2. Live(g)' => groupState'[g] \in {groupState[g], "running"}
    BY <1>0, <1>1, <2>1 DEF GroupStep, MakeDir, SaveDir, WaitTasks, SaveFinished, Unregister,
                            SetRun, Live, TypeOK, DbTypeOK, SchedTypeOK, TaskGroup, dbVars
  <2>3. run[g].pc # "none" /\ (Live(g)' => Live(g))
    BY <2>1 DEF GroupFate, Live
  <2>4. FirstRunPart(g)'
    BY <2>1, <2>2, <2>3 DEF FirstRunInv, FirstRunPart, Found
  <2>5. ASSUME NEW k \in Groups, k # g PROVE FirstRunPart(k)'
    BY <2>1, <2>5 DEF FirstRunInv, FirstRunPart, Found, ToStart, Live
  <2> QED
    BY <2>4, <2>5 DEF FirstRunInv
<1>2. ASSUME NEW g \in Groups, NEW t \in Targets, TaskStep(g, t) PROVE FirstRunInv'
  BY <1>0, <1>2, TaskEffect DEF FirstRunInv, FirstRunPart, Found, ToStart, Live
<1>3. CASE CrashRestart
  <2>1. /\ \A g \in Groups : run'[g].pc = "none" /\ groupState'[g] = "absent"
        /\ \A h \in Handlers : handler'[h].pc = "idle"
    BY <1>3 DEF CrashRestart, NoRun, Idle
  <2> QED
    BY <2>1 DEF FirstRunInv, FirstRunPart, Found, ToStart, Live
<1>4. CASE UNCHANGED vars
  BY <1>4 DEF vars, dbVars, schedVars, FirstRunInv, FirstRunPart, Found, ToStart, Live
<1> QED
  BY <1>1, <1>2, <1>3, <1>4, RequestFirstRun DEF Next

(* The row of a deleted group comes back only by the Save of a retry that  *)
(* had found it before, or of the goroutine such a retry started, for any  *)
(* number of requests at once: the Save of a new group's goroutine never   *)
(* meets a deleted row, since DeleteTaskGroup refuses running groups.      *)
THEOREM DeletedUnlessRetried == Spec => OnlyRetryRevives
<1> DEFINE Revived(g) == groupState[g] = "absent" /\ groupState'[g] # "absent"
           ByRetry(g) == \/ \E h \in Handlers : handler[h].g = g /\ handler[h].pc = "saveGroup"
                         \/ run[g].pc \in {"saveDir", "save"} /\ starts[g] > 1
<1>1. Init => FirstRunInv
  BY DEF Init, FirstRunInv, FirstRunPart, Found, ToStart, Live, NoRun, Idle
<1>2. IInv /\ FirstRunInv /\ [Next]_vars => FirstRunInv'
  BY NextFirstRun
<1>3. IInv /\ FirstRunInv /\ [Next]_vars => [\A g \in used : Revived(g) => ByRetry(g)]_vars
  <2> SUFFICES ASSUME IInv, FirstRunInv, Next, NEW g \in used, Revived(g) PROVE ByRetry(g)
    BY DEF vars
  <2>1. TypeOK /\ g \in Groups /\ FirstRunPart(g) /\ starts[g] \in Nat
    BY DEF IInv, TypeOK, DbTypeOK, SchedTypeOK, FirstRunInv
  <2>2. ASSUME NEW h \in Handlers, Request(h) \/ HandlerStep(h) PROVE ByRetry(g)
    <3>1. handler[h].g = g /\ (ResetGroup(h) \/ DeleteGroup(h))
      BY <2>1, <2>2, RequestMoves DEF Found
    <3>2. CASE ResetGroup(h)
      BY <3>1, <3>2 DEF ResetGroup
    <3>3. CASE DeleteGroup(h)
      BY <2>1, <3>1, <3>3 DEF DeleteGroup, TypeOK, DbTypeOK
    <3> QED
      BY <3>1, <3>2, <3>3
  <2>3. ASSUME NEW k \in Groups, GroupStep(k) PROVE ByRetry(g)
    <3>1. k = g
      BY <2>1, <2>3, GroupEffect
    <3>2. run[g].pc \in {"saveDir", "save"}
      BY <2>3, <3>1 DEF GroupStep, MakeDir, SaveDir, WaitTasks, SaveFinished, Unregister, dbVars
    <3>3. starts[g] # 0 /\ starts[g] # 1
      BY <2>1, <3>2 DEF FirstRunPart, Live
    <3> QED
      BY <2>1, <3>2, <3>3
  <2>4. ASSUME NEW k \in Groups, NEW t \in Targets, TaskStep(k, t) PROVE FALSE
    BY <2>1, <2>4, TaskEffect
  <2>5. CASE CrashRestart
    BY <2>1, <2>5 DEF CrashRestart
  <2> QED
    BY <2>2, <2>3, <2>4, <2>5 DEF Next
<1> QED
  BY <1>1, <1>2, <1>3, InductiveInvariant, PTL DEF Spec, OnlyRetryRevives

-----------------------------------------------------------------------------
(* Lines that were received, for any number of concurrent requests.        *)

(* The limits leave every task of a group at least one preview line, as    *)
(* 500 and 5000 do for up to 5000 instances.                               *)
PreviewForAll ==
  TaskMaxPreviewLines > 0 /\ Cardinality(Targets) <= TaskGroupMaxPreviewLines

(* A search that was sent a line of the normal log has counted one by the  *)
(* time it ends, and then sets the path, which only an error clears.       *)
KeptPart(g, t) ==
  LET w == work[g][t] IN
  /\ run[g].pc # "none" => run[g].cap > 0
  /\ w.pc = "clean" => w.err
  /\ w.kind = "log" /\ w.pc = "open" => ~w.got
  /\ w.kind = "log" /\ w.pc = "recv" /\ w.got => w.lines # 0
  /\ w.got /\ ~w.err /\ ~(w.kind = "log" /\ w.pc \in {"open", "recv"}) => w.model.log

KInv == \A g \in Groups, t \in Targets : KeptPart(g, t)

(* AsyncStart gives every task a preview line.                             *)
LEMMA CapPositive ==
  ASSUME PreviewForAll, NEW n \in Nat \ {0}, n <= Cardinality(Targets)
  PROVE  PreviewLinesPerTask(n) > 0
<1>1. TaskGroupMaxPreviewLines \in Nat /\ TaskMaxPreviewLines \in Nat /\ Cardinality(Targets) \in Nat
  BY LogSearchAssumption, FS_CardinalityType
<1>2. n <= TaskGroupMaxPreviewLines
  BY <1>1 DEF PreviewForAll
<1>3. TaskGroupMaxPreviewLines \div n > 0
  BY <1>1, <1>2
<1> QED
  BY <1>1, <1>3 DEF PreviewForAll, PreviewLinesPerTask

(* A step of a task keeps what KeptPart says of it: EOF sets the path when *)
(* a line was kept, and the first line is always kept.                     *)
LEMMA KeptTask ==
  ASSUME TypeOK, KInv, NEW g \in Groups, NEW t \in Targets, TaskStep(g, t)
  PROVE  KeptPart(g, t)'
<1> DEFINE w == work[g][t]
<1>0. PICK n : n = work'[g][t]
  OBVIOUS
<1>1. w \in Task /\ work \in [Groups -> [Targets -> Task]] /\ KeptPart(g, t)
  BY DEF TypeOK, SchedTypeOK, KInv
<1>2. /\ w.model \in TaskModel /\ w.kind \in {"log", "slow"} /\ WithPath(w) \in TaskModel
      /\ w.lines \in Nat /\ w.got \in BOOLEAN /\ w.err \in BOOLEAN
  BY <1>1 DEF Task, TaskModel, WithPath
<1>3. /\ run[g].pc = "tasks" /\ UNCHANGED run /\ run[g].cap > 0 /\ run[g].cap \in Nat
  <2>1. run[g].pc = "tasks" /\ UNCHANGED run
    BY TaskEffect
  <2> QED
    BY <1>1, <2>1 DEF KeptPart, TypeOK, SchedTypeOK, TaskGroup
<1>4. ASSUME NEW r, SetWork(g, t, r) PROVE n = r
  BY <1>0, <1>1, <1>4 DEF SetWork
<1> HIDE DEF w
<1>5. CASE OpenLog(g, t)
  <2>1. n = [w EXCEPT !.pc = "recv", !.lines = 0, !.model.state = "running"] /\ w.pc = "open"
    BY <1>4, <1>5 DEF OpenLog, TaskAt, w
  <2>2. /\ n.pc = "recv" /\ n.kind = w.kind /\ n.got = w.got /\ n.err = w.err
        /\ n.model.log = w.model.log
    BY <1>1, <1>2, <2>1 DEF Task, TaskModel
  <2> QED
    BY <1>0, <1>1, <1>2, <1>3, <2>1, <2>2 DEF KeptPart, w
<1>6. CASE OpenLogFails(g, t) \/ WriteError(g, t) \/ RecvError(g, t)
  <2>1. \/ n = [w EXCEPT !.err = TRUE, !.pc = "clean"]
        \/ n = [w EXCEPT !.model = WithPath(w), !.err = TRUE, !.pc = "clean"]
    BY <1>4, <1>6 DEF OpenLogFails, WriteError, RecvError, w
  <2>2. n.pc = "clean" /\ n.err
    BY <1>1, <2>1 DEF Task
  <2> QED
    BY <1>0, <1>3, <2>2 DEF KeptPart
<1>7. CASE RecvLine(g, t)
  <2>1. /\ w.pc = "recv"
        /\ n = [w EXCEPT !.lines = IF Kept(g, w) THEN w.lines + 1 ELSE w.lines,
                         !.got = w.got \/ w.kind = "log"]
    BY <1>4, <1>7 DEF RecvLine, TaskAt, w
  <2>2. /\ n.pc = "recv" /\ n.kind = w.kind /\ n.err = w.err /\ n.model = w.model
        /\ n.lines = (IF Kept(g, w) THEN w.lines + 1 ELSE w.lines)
        /\ n.got = (w.got \/ w.kind = "log")
    BY <1>1, <2>1 DEF Task
  <2>3. n.lines # 0
    BY <1>2, <1>3, <2>2 DEF Kept
  <2>4. n.kind # "log" => n.got = w.got
    BY <1>2, <2>2
  <2> QED
    BY <1>0, <1>1, <1>3, <2>1, <2>2, <2>3, <2>4 DEF KeptPart, w
<1>8. CASE RecvEOF(g, t)
  <2>1. /\ w.pc = "recv"
        /\ n = [w EXCEPT !.model = WithPath(w),
                         !.kind = IF t \in TiKV THEN "slow" ELSE "log",
                         !.pc = IF w.kind = "log" /\ t \in TiKV THEN "open" ELSE "save"]
    BY <1>4, <1>8 DEF RecvEOF, TaskAt, w
  <2>2. /\ n.pc \in {"open", "save"} /\ n.kind = (IF t \in TiKV THEN "slow" ELSE "log")
        /\ n.err = w.err /\ n.model = WithPath(w) /\ n.got = w.got
        /\ n.pc = "open" => n.kind = "slow"
    BY <1>1, <2>1 DEF Task
  <2>3. w.got /\ ~w.err => WithPath(w).log
    <3>1. CASE w.kind = "log"
      <4>1. w.got => w.lines # 0
        BY <1>1, <2>1, <3>1 DEF KeptPart, w
      <4>2. w.lines # 0 => WithPath(w).log = TRUE
        BY <1>2, <3>1 DEF WithPath, TaskModel
      <4> QED
        BY <4>1, <4>2
    <3>2. CASE w.kind # "log"
      <4>1. w.got /\ ~w.err => w.model.log
        BY <1>1, <3>2 DEF KeptPart, w
      <4>2. WithPath(w).log = w.model.log
        BY <1>2, <3>2 DEF WithPath, TaskModel
      <4> QED
        BY <4>1, <4>2
    <3> QED
      BY <3>1, <3>2
  <2> QED
    BY <1>0, <1>3, <2>2, <2>3 DEF KeptPart
<1>9. CASE RemoveDataAndPreview(g, t)
  <2>1. w.pc = "clean" /\ n = [w EXCEPT !.model.log = FALSE, !.pc = "save"]
    BY <1>4, <1>9 DEF RemoveDataAndPreview, TaskAt, w
  <2>2. n.pc = "save" /\ n.err = w.err
    BY <1>1, <2>1 DEF Task
  <2>3. w.err
    BY <1>1, <2>1 DEF KeptPart, w
  <2> QED
    BY <1>0, <1>3, <2>2, <2>3 DEF KeptPart
<1>10. CASE SaveTask(g, t)
  <2>1. /\ w.pc = "save"
        /\ n = [w EXCEPT !.model = [w.model EXCEPT !.state = IF w.err THEN "error" ELSE "finished"],
                         !.pc = "done"]
    BY <1>4, <1>10 DEF SaveTask, TaskAt, w
  <2>2. n.pc = "done" /\ n.err = w.err /\ n.got = w.got /\ n.kind = w.kind /\ n.model.log = w.model.log
    BY <1>1, <1>2, <2>1 DEF Task, TaskModel
  <2> QED
    BY <1>0, <1>1, <1>3, <2>1, <2>2 DEF KeptPart, w
<1> QED
  BY <1>5, <1>6, <1>7, <1>8, <1>9, <1>10 DEF TaskStep

(* Every step keeps KInv.                                                  *)
LEMMA NextKept ==
  ASSUME PreviewForAll, IInv, KInv, [Next]_vars
  PROVE  KInv'
<1>0. TypeOK /\ RequestInv /\ SchedTypeOK /\ HandlerTypeOK
  BY DEF IInv, TypeOK
<1> SUFFICES ASSUME NEW g \in Groups, NEW t \in Targets PROVE KeptPart(g, t)'
  BY DEF KInv
<1>1. KeptPart(g, t)
  BY DEF KInv
<1>2. ASSUME run'[g].pc # "none" => run[g].pc # "none" /\ run'[g].cap = run[g].cap,
             SameTask(work'[g][t], work[g][t])
      PROVE  KeptPart(g, t)'
  BY <1>1, <1>2 DEF KeptPart, SameTask
<1>3. ASSUME run'[g].pc # "none" => run'[g].cap > 0,
             \/ work'[g][t] = NoWork
             \/ \E m : work'[g][t] = [NoWork EXCEPT !.pc = "open", !.model = m]
      PROVE  KeptPart(g, t)'
  <2>0. /\ ~NoWork.got /\ NoWork.pc = "none"
        /\ \A m : LET n == [NoWork EXCEPT !.pc = "open", !.model = m] IN ~n.got /\ n.pc = "open"
    BY DEF NoWork
  <2>1. ~work'[g][t].got /\ work'[g][t].pc \in {"none", "open"}
    BY <1>3, <2>0
  <2> QED
    BY <1>3, <2>1 DEF KeptPart
<1>4. SameTask(work[g][t], work[g][t])
  BY DEF SameTask
<1>5. ASSUME NEW h \in Handlers, AsyncStart(h) PROVE KeptPart(g, t)'
  <2>1. CASE handler[h].g # g \/ ~NotRegistered(handler[h].g)
    <3>1. run'[g] = run[g] /\ work'[g] = work[g]
      BY <1>0, <1>5, <2>1 DEF AsyncStart, SetRun, SchedTypeOK, schedVars
    <3> QED
      BY <1>2, <1>4, <3>1
  <2>2. CASE handler[h].g = g /\ NotRegistered(handler[h].g)
    <3> DEFINE n == Cardinality(TasksOf(handler[h].models))
    <3>1. n \in Nat \ {0} /\ n <= Cardinality(Targets)
      <4>1. TasksOf(handler[h].models) \subseteq Targets
        BY DEF TasksOf
      <4> QED
        BY <1>0, <1>5, <4>1, StartedTasks, LogSearchAssumption, FS_Subset DEF AsyncStart
    <3>2. PreviewLinesPerTask(n) > 0
      BY <3>1, CapPositive
    <3> HIDE DEF n
    <3>3. run' = [run EXCEPT ![g] = [NoRun EXCEPT !.pc = "registered", !.dir = handler[h].dir,
                                                  !.cap = PreviewLinesPerTask(n)]]
      BY <1>5, <2>2 DEF AsyncStart, SetRun, n
    <3>4. run'[g].cap = PreviewLinesPerTask(n)
      BY <1>0, <3>3 DEF SchedTypeOK, NoRun
    <3>5. work'[g][t] = NoWork
      BY <1>0, <1>5, <2>2 DEF AsyncStart, SchedTypeOK
    <3> QED
      BY <1>3, <3>2, <3>4, <3>5
  <2> QED
    BY <2>1, <2>2
<1>6. ASSUME NEW h \in Handlers, InitTasks(h) PROVE KeptPart(g, t)'
  <2>1. CASE handler[h].g # g
    <3>1. run'[g] = run[g] /\ work'[g] = work[g]
      BY <1>0, <1>6, <2>1 DEF InitTasks, SetRun, SchedTypeOK
    <3> QED
      BY <1>2, <1>4, <3>1
  <2>2. CASE handler[h].g = g
    <3>1. run[g].pc # "none" /\ run[g] \in TaskGroup
      BY <1>0, <1>6, <2>2 DEF InitTasks, IInv, InitTasksOnce, SchedTypeOK
    <3>2. run'[g] = [run[g] EXCEPT !.tasks = TasksOf(handler[h].models), !.pc = "mkdir"]
      BY <1>0, <1>6, <2>2 DEF InitTasks, SetRun, SchedTypeOK
    <3>3. run'[g].cap = run[g].cap
      BY <3>1, <3>2 DEF TaskGroup
    <3>4. run[g].cap > 0
      BY <1>1, <3>1 DEF KeptPart
    <3> DEFINE new == [u \in Targets |-> IF u \in TasksOf(handler[h].models)
                          THEN [NoWork EXCEPT !.pc = "open", !.model = handler[h].models[u]]
                          ELSE NoWork]
    <3>5. work' = [work EXCEPT ![g] = new]
      BY <1>6, <2>2 DEF InitTasks
    <3>6. new[t] = NoWork \/ \E m : new[t] = [NoWork EXCEPT !.pc = "open", !.model = m]
      OBVIOUS
    <3> HIDE DEF new
    <3>7. work'[g][t] = new[t]
      BY <1>0, <3>5 DEF SchedTypeOK
    <3> QED
      BY <1>3, <3>3, <3>4, <3>6, <3>7
  <2> QED
    BY <2>1, <2>2
<1>7. ASSUME NEW h \in Handlers, AbortAll(h) PROVE KeptPart(g, t)'
  BY <1>0, <1>2, <1>7, AbortEffect
<1>8. CASE UNCHANGED schedVars
  BY <1>2, <1>4, <1>8 DEF schedVars
<1>9. ASSUME NEW k \in Groups, GroupStep(k) PROVE KeptPart(g, t)'
  <2>1. UNCHANGED work
    BY <1>0, <1>9, GroupEffect
  <2>2. run'[g].pc # "none" => run[g].pc # "none" /\ run'[g].cap = run[g].cap
    <3>1. CASE k # g
      BY <1>0, <1>9, <3>1, GroupEffect
    <3>2. CASE k = g
      <4>1. run[g] \in TaskGroup /\ run[g].pc # "none"
        BY <1>0, <1>9, <3>2, GroupEffect DEF SchedTypeOK, GroupFate
      <4> DEFINE r == run[g]
      <4>2. /\ \A pc : [r EXCEPT !.pc = pc].cap = r.cap
            /\ [r EXCEPT !.dir = TRUE, !.pc = "saveDir"].cap = r.cap
        BY <4>1 DEF TaskGroup
      <4>3. PICK x : run'[g] = x /\ SetRun(g, x)
        BY <1>0, <1>9, <3>2 DEF GroupStep, MakeDir, SaveDir, WaitTasks, SaveFinished, Unregister,
                                SetRun, SchedTypeOK
      <4>4. \/ x = NoRun
            \/ \E pc \in {"tasks", "save", "unregister"} : x = [r EXCEPT !.pc = pc]
            \/ x = [r EXCEPT !.dir = TRUE, !.pc = "saveDir"]
        BY <1>0, <1>9, <3>2, <4>3 DEF GroupStep, MakeDir, SaveDir, WaitTasks, SaveFinished, Unregister,
                                      SetRun, SchedTypeOK
      <4>5. NoRun.pc = "none"
        BY DEF NoRun
      <4> HIDE DEF r
      <4>6. x.pc = "none" \/ x.cap = r.cap
        BY <4>2, <4>4, <4>5
      <4> QED
        BY <4>1, <4>3, <4>6 DEF r
    <3> QED
      BY <3>1, <3>2
  <2> QED
    BY <1>2, <1>4, <2>1, <2>2
<1>10. ASSUME NEW k \in Groups, NEW u \in Targets, TaskStep(k, u) PROVE KeptPart(g, t)'
  <2>1. CASE k = g /\ u = t
    BY <1>0, <1>10, <2>1, KeptTask
  <2>2. CASE <<k, u>> # <<g, t>>
    <3>1. work'[g][t] = work[g][t] /\ UNCHANGED run
      BY <1>0, <1>10, <2>2, TaskEffect
    <3> QED
      BY <1>2, <1>4, <3>1
  <2> QED
    BY <2>1, <2>2
<1>11. CASE CrashRestart
  BY <1>3, <1>11 DEF CrashRestart, NoRun
<1> QED
  BY <1>5, <1>6, <1>7, <1>8, <1>9, <1>10, <1>11, SchedUnchanged DEF Next, vars

(* A task that ends without error after the node sent it lines of the      *)
(* normal log has LogStorePath set, however many requests race: a retry    *)
(* never leaves it with a path of the slow log only.                       *)
THEOREM ReceivedLogsKept ==
  ASSUME PreviewForAll
  PROVE  Spec => []ReceivedLogIsKept
<1>1. Init => KInv
  BY DEF Init, KInv, KeptPart, NoRun, NoWork
<1>2. IInv /\ KInv /\ [Next]_vars => KInv'
  BY NextKept
<1>3. KInv => ReceivedLogIsKept
  BY DEF KInv, KeptPart, ReceivedLogIsKept
<1> QED
  BY <1>1, <1>2, <1>3, InductiveInvariant, PTL DEF Spec
=============================================================================
