------------------------------ MODULE Services ------------------------------
(***************************************************************************)
(* The backend services that follow the dynamic configuration: the manager *)
(* of the configuration with its two subscribers, the key visualizer and   *)
(* profiling, in one process that may die and be started again.            *)
(***************************************************************************)
EXTENDS KeyVisualManager, Profiling

ASSUME SubscribersAssumption == Subscribers = {"keyvisual", "profiling"}

vars == <<configVars, keyVisualVars, profilingVars>>

Init == ConfigInit /\ KeyVisualInit /\ ProfilingInit

ConfigStep ==
    /\ up
    /\ ManagerStep \/ \E s \in Subscribers : NewPushChannel(s)
    /\ UNCHANGED <<keyVisualVars, profilingVars>>

KeyVisualStep ==
    /\ up
    /\ ResetKeyVisualConfig \/ NewLabelStrategyPanics
    /\ UNCHANGED profilingVars

ProfilingLoop == up /\ LoopStep /\ UNCHANGED keyVisualVars
ProfilingClient == up /\ ClientStep /\ UNCHANGED keyVisualVars
ProfilingTask(g, t) == up /\ TaskRun(g, t) /\ UNCHANGED keyVisualVars
ProfilingGroup(g) == up /\ GroupEnds(g) /\ UNCHANGED keyVisualVars
ProfilingEnder(e) == up /\ EnderStep(e) /\ UNCHANGED keyVisualVars

Restart == Reboot /\ KeyVisualReboot /\ ProfilingReboot

Next ==
    \/ ConfigStep \/ KeyVisualStep
    \/ ProfilingLoop \/ ProfilingClient
    \/ \E g \in Groups : ProfilingGroup(g) \/ \E t \in Tasks : ProfilingTask(g, t)
    \/ \E e \in Enders : ProfilingEnder(e)
    \/ Restart

Spec == Init /\ [][Next]_vars

(* What goroutines do by themselves: a Set that has stored, the two        *)
(* subscribers, tasks, which are limited in time, and those who wait for   *)
(* them.  Neither a request nor etcd has to do anything.                   *)
Progress ==
    \/ /\ up
       /\ \/ \E w \in Callers : Lock(w) \/ Push(w) \/ Unlock(w)
          \/ \E s \in Subscribers : NewPushChannel(s)
       /\ UNCHANGED <<keyVisualVars, profilingVars>>
    \/ KeyVisualStep \/ ProfilingLoop
    \/ \E g \in Groups : ProfilingGroup(g) \/ \E t \in Tasks : ProfilingTask(g, t)
    \/ \E e \in Enders : ProfilingEnder(e)

(* The bounds leave finitely many steps, so that no goroutine starves when *)
(* some goroutine goes on as long as one can.                              *)
FairSpec == Spec /\ WF_vars(Progress)

-----------------------------------------------------------------------------
(* In the end every subscriber works with the configuration in memory: no  *)
(* push is lost or overtaken, and pushes under the lock, which block on a  *)
(* full channel, never block for good.                                     *)
SubscribersCatchUp ==
    \A s \in Subscribers : []<>(~up \/ memory = None \/ seen[s] = memory)

(* A cancel or delete request comes back once its tasks have ended, unless *)
(* a restart or a failed start left a row that nobody will end.            *)
CancelComesBack == \A e \in Enders : CancelReturnsFor(e)

(* The configuration that is served passes the checks of Validate: what    *)
(* Start makes of a configuration it finds in etcd is complete, and        *)
(* newLabelStrategy meets a policy it knows.                               *)
ServedConfigIsValid == memory # None => Validate(memory)
=============================================================================
