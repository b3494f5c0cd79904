--------------------------- MODULE DynamicConfig ---------------------------
(***************************************************************************)
(* DynamicConfigManager: the configuration kept in etcd, served from       *)
(* memory and pushed to every subscriber's channel.                        *)
(*                                                                         *)
(* Set writes etcd without the lock, then replaces the configuration and   *)
(* pushes it with the lock held.  A push to a full channel blocks.  An     *)
(* etcd request that fails may have been carried out.                      *)
(***************************************************************************)
EXTENDS Naturals, Sequences, SequencesExt

CONSTANTS
    Subscribers,          \* goroutines that call NewPushChannel
    Modifiers,            \* requests that may call Modify at the same time
    ChannelCap,           \* capacity of a push channel (1000 in the code)
    EnableKeyVisualizer,  \* of the static configuration
    Stored,               \* what etcd may hold at first
    Requests,             \* what requests to Modify set each section to
    Budgets               \* bounds, of which a behaviour keeps to one: calls of
                          \* Modify per section, restarts, and whether profiling is used

Policies == {"db", "kv"}
KeyVisualConfig == [disabled : BOOLEAN, policy : Policies \cup {""}]
ProfilingConfig == {"off", "on", "zero"}    \* "zero": targets, but no duration
Config == [keyvisual : KeyVisualConfig, profiling : ProfilingConfig]
None == [none |-> TRUE]

ASSUME ConfigAssumption ==
    /\ ChannelCap \in Nat \ {0} /\ EnableKeyVisualizer \in BOOLEAN
    /\ "start" \notin Modifiers /\ "free" \notin Modifiers
    /\ Requests \in [keyvisual : SUBSET KeyVisualConfig,
                     profiling : SUBSET ProfilingConfig]
    /\ Stored \subseteq Config \cup {None}

VARIABLES
    etcd,       \* what is stored
    memory,     \* dynamicConfig
    lock,       \* who holds mu for writing, or "free"
    channels,   \* pushChannels in the order of their creation
    queue,      \* what each channel holds
    seen,       \* the configuration each subscriber took last
    calls,      \* the calls of Set in progress
    up,         \* the process runs
    budget      \* what is left of the bounds

configVars == <<etcd, memory, lock, channels, queue, seen, calls, up, budget>>

Idle == [pc |-> "idle", dc |-> None, left |-> <<>>]
Callers == Modifiers \cup {"start"}
Booting ==
    [w \in Callers |-> IF w = "start" THEN [Idle EXCEPT !.pc = "load"] ELSE Idle]

(* validatePolicy, Validate and Adjust. *)
ValidPolicy(c) == c.keyvisual.policy \in Policies
Validate(c) ==
    /\ c.keyvisual.disabled \/ ValidPolicy(c)
    /\ c.profiling # "zero"
Adjust(c) ==
    [keyvisual |-> IF ~c.keyvisual.disabled /\ ~ValidPolicy(c)
                     THEN [c.keyvisual EXCEPT !.policy = "db"] ELSE c.keyvisual,
     profiling |-> IF c.profiling = "zero" THEN "on" ELSE c.profiling]

ZeroConfig == [keyvisual |-> [disabled |-> FALSE, policy |-> ""],
               profiling |-> "off"]

ConfigInit ==
    /\ etcd \in Stored
    /\ memory = None
    /\ lock = "free"
    /\ channels = <<>>
    /\ queue = [s \in Subscribers |-> <<>>]
    /\ seen = [s \in Subscribers |-> None]
    /\ calls = Booting
    /\ up = TRUE
    /\ budget \in Budgets

(* The goroutine of Start: load, which is retried until it succeeds or the *)
(* time is over, then the command line decides whether keyvisual is on.    *)
StartLoad ==
    /\ calls["start"].pc = "load"
    /\ LET dc == Adjust(IF etcd = None THEN ZeroConfig ELSE etcd)
       IN calls' = [calls EXCEPT !["start"] =
            [pc |-> "store", left |-> <<>>,
             dc |-> [dc EXCEPT !.keyvisual.disabled = ~EnableKeyVisualizer]]]
    /\ UNCHANGED <<etcd, memory, lock, channels, queue, seen, up, budget>>

StartGivesUp ==
    /\ calls["start"].pc \in {"load", "store"}
    /\ calls' = [calls EXCEPT !["start"] = Idle]
    /\ UNCHANGED <<etcd, memory, lock, channels, queue, seen, up, budget>>

(* Modify up to Set: Get, the option, which replaces one section, and      *)
(* Validate.                                                               *)
Modify(w) ==
    /\ calls[w].pc = "idle" /\ lock = "free" /\ memory # None
    /\ \E section \in DOMAIN Requests : \E value \in Requests[section] :
         LET dc == [memory EXCEPT ![section] = value]
         IN /\ budget[section] > 0
            /\ budget' = [budget EXCEPT ![section] = @ - 1]
            /\ Validate(dc)
            /\ calls' = [calls EXCEPT ![w] = [pc |-> "store", dc |-> dc,
                                              left |-> <<>>]]
    /\ UNCHANGED <<etcd, memory, lock, channels, queue, seen, up>>

(* store succeeds; or it fails, and Start tries again. *)
Store(w) ==
    /\ calls[w].pc = "store"
    /\ etcd' = calls[w].dc
    /\ calls' = [calls EXCEPT ![w].pc = "lock"]
    /\ UNCHANGED <<memory, lock, channels, queue, seen, up, budget>>

StoreFails(w) ==
    /\ calls[w].pc = "store"
    /\ etcd' \in {etcd, calls[w].dc}
    /\ calls' = [calls EXCEPT ![w] = IF w = "start" THEN calls[w] ELSE Idle]
    /\ UNCHANGED <<memory, lock, channels, queue, seen, up, budget>>

(* The variant of Set that leaves the first subscriber out. *)
LockForgetsFirst(w) ==
    /\ calls[w].pc = "lock" /\ lock = "free"
    /\ lock' = w
    /\ memory' = calls[w].dc
    /\ calls' = [calls EXCEPT ![w] = [pc |-> "push", dc |-> calls[w].dc,
                   left |-> IF channels = <<>> THEN <<>> ELSE Tail(channels)]]
    /\ UNCHANGED <<etcd, channels, queue, seen, up, budget>>

(* Set after store: the lock, the new configuration, and the pushes, each  *)
(* of which waits for room. *)
Lock(w) ==
    /\ calls[w].pc = "lock" /\ lock = "free"
    /\ lock' = w
    /\ memory' = calls[w].dc
    /\ calls' = [calls EXCEPT ![w] = [pc |-> "push", dc |-> calls[w].dc,
                                      left |-> channels]]
    /\ UNCHANGED <<etcd, channels, queue, seen, up, budget>>

Push(w) ==
    /\ calls[w].pc = "push" /\ calls[w].left # <<>>
    /\ LET s == Head(calls[w].left)
       IN /\ Len(queue[s]) < ChannelCap
          /\ queue' = [queue EXCEPT ![s] = Append(@, calls[w].dc)]
    /\ calls' = [calls EXCEPT ![w].left = Tail(@)]
    /\ UNCHANGED <<etcd, memory, lock, channels, seen, up, budget>>

Unlock(w) ==
    /\ calls[w].pc = "push" /\ calls[w].left = <<>>
    /\ lock' = "free"
    /\ calls' = [calls EXCEPT ![w] = Idle]
    /\ UNCHANGED <<etcd, memory, channels, queue, seen, up, budget>>

SetStep(w) == Store(w) \/ StoreFails(w) \/ Lock(w) \/ Push(w) \/ Unlock(w)

(* What a new channel begins with. *)
FirstConfig == IF memory = None THEN <<>> ELSE <<memory>>

NewPushChannel(s) ==
    /\ lock = "free" /\ s \notin ToSet(channels)
    /\ channels' = Append(channels, s)
    /\ queue' = [queue EXCEPT ![s] = FirstConfig]
    /\ UNCHANGED <<etcd, memory, lock, seen, calls, up, budget>>

(* A subscriber takes the next configuration. *)
Take(s) ==
    /\ queue[s] # <<>>
    /\ queue' = [queue EXCEPT ![s] = Tail(@)]
    /\ seen' = [seen EXCEPT ![s] = Head(queue[s])]
    /\ UNCHANGED <<etcd, memory, lock, channels, calls, up, budget>>

(* The process ends, anywhere, and is started again.  (Stop, in a process  *)
(* that ends in order, closes the channels, and their readers end.)        *)
Reboot ==
    /\ budget.boots > 0
    /\ budget' = [budget EXCEPT !.boots = @ - 1]
    /\ up' = TRUE
    /\ memory' = None
    /\ lock' = "free"
    /\ channels' = <<>>
    /\ queue' = [s \in Subscribers |-> <<>>]
    /\ seen' = [s \in Subscribers |-> None]
    /\ calls' = Booting
    /\ UNCHANGED etcd

(* The process dies and is not started again yet. *)
Die ==
    /\ up' = FALSE
    /\ UNCHANGED <<etcd, memory, lock, channels, queue, seen, calls, budget>>

ManagerStep ==
    \/ StartLoad \/ StartGivesUp
    \/ \E w \in Modifiers : Modify(w)
    \/ \E w \in Callers : SetStep(w)

(* The manager with subscribers of which nothing else is known. *)
ConfigNext ==
    \/ up /\ ManagerStep
    \/ up /\ \E s \in Subscribers : NewPushChannel(s) \/ Take(s)
    \/ up /\ Die
    \/ Reboot

ConfigSpec == ConfigInit /\ [][ConfigNext]_configVars

-----------------------------------------------------------------------------
(* Whatever the interleaving of Sets and new channels, the last thing a    *)
(* subscriber was given is the configuration in memory: queued, or what it *)
(* took last (seen).                                                       *)
LatestDelivered ==
    lock = "free" /\ memory # None =>
        \A s \in ToSet(channels) :
            memory = IF queue[s] = <<>> THEN seen[s] ELSE Last(queue[s])
=============================================================================
