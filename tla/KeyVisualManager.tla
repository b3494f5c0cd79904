-------------------------- MODULE KeyVisualManager --------------------------
(***************************************************************************)
(* The manager of the key visualizer: a subscriber of the configuration    *)
(* that starts and stops the service.  One goroutine does all of it, so    *)
(* the handling of a configuration is one step.                            *)
(***************************************************************************)
EXTENDS DynamicConfig

VARIABLES
    running,    \* status
    label,      \* the policy of labelStrategy, "" for nil
    failed      \* the last start failed

keyVisualVars == <<running, label, failed>>

KeyVisualInit == running = FALSE /\ label = "" /\ failed = FALSE

(* What the manager does about a configuration, from the one it had: it    *)
(* stops a service whose policy changes. *)
StopsNever(had, cfg) == cfg.disabled
Stops(had, cfg) ==
    cfg.disabled \/ (had # None /\ had.keyvisual.policy # cfg.policy)

(* startService of a stopped service: it runs, or Start fails and cleans   *)
(* up.  (A running service is left alone.)                                 *)
StartService(policy) ==
    \/ running' = TRUE /\ label' = policy /\ failed' = FALSE
    \/ running' = FALSE /\ label' = "" /\ failed' = TRUE

StayedUp(cfg) == running /\ ~Stops(seen["keyvisual"], cfg)

ResetKeyVisualConfig ==
    /\ queue["keyvisual"] # <<>>
    /\ LET cfg == Head(queue["keyvisual"]).keyvisual
       IN \/ /\ cfg.disabled
             /\ running' = FALSE /\ label' = "" /\ failed' = FALSE
          \/ /\ ~cfg.disabled /\ StayedUp(cfg)
             /\ UNCHANGED keyVisualVars
          \/ /\ ~cfg.disabled /\ ~StayedUp(cfg) /\ cfg.policy \in Policies
             /\ StartService(cfg.policy)
    /\ Take("keyvisual")

(* newLabelStrategy panics on any other policy. *)
NewLabelStrategyPanics ==
    /\ queue["keyvisual"] # <<>>
    /\ LET cfg == Head(queue["keyvisual"]).keyvisual
       IN ~cfg.disabled /\ ~StayedUp(cfg) /\ cfg.policy \notin Policies
    /\ running' = FALSE /\ label' = "" /\ failed' = FALSE
    /\ Die

KeyVisualReboot == running' = FALSE /\ label' = "" /\ failed' = FALSE

-----------------------------------------------------------------------------
(* Once the manager has handled the current configuration, the service is  *)
(* what it asks for: off, or running with the labels of its policy (or     *)
(* down because Start failed); and labels exist only while it runs.        *)
ServiceFollowsConfig ==
    /\ up /\ memory # None /\ seen["keyvisual"] = memory /\ queue["keyvisual"] = <<>> =>
         \/ failed /\ ~running
         \/ running = ~memory.keyvisual.disabled
              /\ (running => label = memory.keyvisual.policy)
    /\ running <=> label # ""
=============================================================================
