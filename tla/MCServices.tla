----------------------------- MODULE MCServices -----------------------------
(* Instances of Services: a channel holds one configuration, so that a     *)
(* push blocks as soon as a subscriber is one behind.                      *)
EXTENDS Services

OldVersion == [keyvisual |-> [disabled |-> TRUE, policy |-> ""], profiling |-> "zero"]

MCStored == {None, OldVersion}
MCRequests ==
    [keyvisual |-> {[disabled |-> FALSE, policy |-> "kv"], [disabled |-> TRUE, policy |-> ""],
                    [disabled |-> FALSE, policy |-> ""]},
     profiling |-> {"off", "on", "zero"}]

(* Many modifications, or few next to requests to profile. *)
Budget(k, p, b, r) == [keyvisual |-> k, profiling |-> p, boots |-> b, requests |-> r]
MCBudgets == {Budget(2, 1, 0, FALSE), Budget(1, 1, 1, FALSE),
              Budget(0, 1, 0, TRUE), Budget(0, 0, 1, TRUE)}

MCSubscribers == {"keyvisual", "profiling"}
=============================================================================
