-------------------------- MODULE ServicesProofs --------------------------
(***************************************************************************)
(* What the services keep of the configuration and of the profiling tasks, *)
(* for any number of modifiers, groups, tasks and requests, any capacity   *)
(* of the channels and any bounds: no push is lost or overtaken, the key   *)
(* visualizer runs as its last configuration says, and the row of a        *)
(* profiling group sums up the rows of its tasks.                          *)
(*                                                                         *)
(* LatestDelivered speaks of states in which nobody holds the lock.  The   *)
(* invariant behind it says what holds while a Set pushes: a subscriber    *)
(* has been given the configuration in memory, or its channel is among     *)
(* those the Set that holds the lock has still to visit.                   *)
(***************************************************************************)
EXTENDS Services, SequenceLemmas

PCs == {"idle", "load", "store", "lock", "push"}

Call == [pc : PCs, dc : Config \cup {None}, left : Seq(Subscribers)]

Types ==
    /\ etcd \in Config \cup {None}
    /\ memory \in Config \cup {None}
    /\ channels \in Seq(Subscribers)
    /\ queue \in [Subscribers -> Seq(Config)]
    /\ seen \in [Subscribers -> Config \cup {None}]
    /\ calls \in [Callers -> Call]

(* The last configuration a subscriber was given. *)
Given(s) == IF queue[s] = <<>> THEN seen[s] ELSE Last(queue[s])

(* Only the holder of the lock pushes, and it pushes what is in memory. *)
LockInv ==
    \A w \in Callers :
        /\ calls[w].pc = "push" => lock = w /\ calls[w].dc = memory
        /\ calls[w].pc \in {"store", "lock", "push"} => calls[w].dc \in Config

(* Some Set has still to visit the channel of s. *)
ToVisit(s) ==
    \E w \in Callers : calls[w].pc = "push" /\ s \in ToSet(calls[w].left)

DeliveryInv ==
    memory # None => \A s \in ToSet(channels) : Given(s) = memory \/ ToVisit(s)

ConfigInv == Types /\ LockInv /\ DeliveryInv

-----------------------------------------------------------------------------
(* Adjust and the section a request replaces give configurations. *)
LEMMA AdjustType ==
    ASSUME NEW c \in Config
    PROVE  Adjust(c) \in Config
  BY DEF Adjust, Config, KeyVisualConfig, ProfilingConfig, Policies

LEMMA StartType ==
    ASSUME NEW c \in Config
    PROVE  [c EXCEPT !.keyvisual.disabled = ~EnableKeyVisualizer] \in Config
  BY ConfigAssumption DEF Config, KeyVisualConfig

LEMMA ZeroType == ZeroConfig \in Config
  BY DEF ZeroConfig, Config, KeyVisualConfig, ProfilingConfig

LEMMA SectionType ==
    ASSUME NEW c \in Config, NEW section \in DOMAIN Requests,
           NEW v \in Requests[section]
    PROVE  [c EXCEPT ![section] = v] \in Config
  BY ConfigAssumption DEF Config

LEMMA IdleType == Idle \in Call /\ Idle.pc = "idle"
  BY DEF Idle, Call, PCs

LEMMA BootingType ==
    Booting \in [Callers -> Call] /\ \A w \in Callers : Booting[w].pc \in {"load", "idle"}
  <1> DEFINE load == [Idle EXCEPT !.pc = "load"]
  <1>1. load \in Call /\ load.pc = "load"
    BY IdleType DEF Call, PCs
  <1>2. Booting = [w \in Callers |-> IF w = "start" THEN load ELSE Idle]
    BY DEF Booting
  <1> HIDE DEF load
  <1> QED BY <1>1, <1>2, IdleType

(* Once nobody holds the lock, no call pushes. *)
LEMMA FreeLock ==
    ASSUME LockInv, lock = "free"
    PROVE  \A w \in Callers : calls[w].pc # "push"
  BY ConfigAssumption DEF LockInv, Callers

-----------------------------------------------------------------------------
LEMMA ConfigInitInv ==
    ASSUME ConfigInit
    PROVE  ConfigInv
  <1>1. Booting \in [Callers -> Call] /\ \A w \in Callers : Booting[w].pc \in {"load", "idle"}
    BY BootingType
  <1>2. Types
    BY <1>1, ConfigAssumption DEF ConfigInit, Types
  <1>3. LockInv
    BY <1>1 DEF ConfigInit, LockInv
  <1>4. DeliveryInv
    BY DEF ConfigInit, DeliveryInv
  <1> QED BY <1>2, <1>3, <1>4 DEF ConfigInv

(* Steps that only change a call that does not push, and etcd. *)
LEMMA CallChanges ==
    ASSUME ConfigInv, NEW w \in Callers, NEW c \in Call,
           calls[w].pc # "push", c.pc # "push",
           c.pc \in {"store", "lock"} => c.dc \in Config,
           calls' = [calls EXCEPT ![w] = c],
           etcd' \in Config \cup {None},
           UNCHANGED <<memory, lock, channels, queue, seen>>
    PROVE  ConfigInv'
  <1>1. Types'
    BY DEF ConfigInv, Types
  <1>2. \A v \in Callers : calls'[v] = IF v = w THEN c ELSE calls[v]
    BY DEF ConfigInv, Types
  <1>3. LockInv'
    BY <1>2 DEF ConfigInv, LockInv
  <1>4. \A s : ToVisit(s) => ToVisit(s)'
    BY <1>2 DEF ToVisit
  <1>5. DeliveryInv'
    BY <1>4 DEF ConfigInv, DeliveryInv, Given
  <1> QED BY <1>1, <1>3, <1>5 DEF ConfigInv

LEMMA StartLoadInv ==
    ASSUME ConfigInv, StartLoad
    PROVE  ConfigInv'
  <1> DEFINE found == IF etcd = None THEN ZeroConfig ELSE etcd
             dc == [Adjust(found) EXCEPT !.keyvisual.disabled = ~EnableKeyVisualizer]
             c == [pc |-> "store", left |-> <<>>, dc |-> dc]
  <1>1. found \in Config
    BY ZeroType DEF ConfigInv, Types
  <1>2. Adjust(found) \in Config
    BY <1>1, AdjustType
  <1>3. dc \in Config
    BY <1>2, StartType
  <1>4. "start" \in Callers /\ calls["start"].pc # "push"
    BY DEF Callers, StartLoad
  <1>5. calls' = [calls EXCEPT !["start"] = c]
    BY DEF StartLoad
  <1>6. UNCHANGED <<etcd, memory, lock, channels, queue, seen>> /\ etcd \in Config \cup {None}
    BY DEF StartLoad, ConfigInv, Types
  <1> HIDE DEF dc
  <1>7. c \in Call /\ c.pc = "store" /\ c.dc \in Config
    BY <1>3 DEF Call, PCs
  <1> HIDE DEF c
  <1> QED BY <1>4, <1>5, <1>6, <1>7, CallChanges

LEMMA StartGivesUpInv ==
    ASSUME ConfigInv, StartGivesUp
    PROVE  ConfigInv'
  <1>1. "start" \in Callers /\ calls["start"].pc # "push"
    BY DEF Callers, StartGivesUp
  <1>2. UNCHANGED <<etcd, memory, lock, channels, queue, seen>> /\ etcd \in Config \cup {None}
    BY DEF StartGivesUp, ConfigInv, Types
  <1>3. calls' = [calls EXCEPT !["start"] = Idle]
    BY DEF StartGivesUp
  <1> QED BY <1>1, <1>2, <1>3, IdleType, CallChanges

LEMMA ModifyInv ==
    ASSUME ConfigInv, NEW w \in Modifiers, Modify(w)
    PROVE  ConfigInv'
  <1>1. PICK section \in DOMAIN Requests : \E value \in Requests[section] :
          calls' = [calls EXCEPT ![w] = [pc |-> "store",
                      dc |-> [memory EXCEPT ![section] = value], left |-> <<>>]]
    BY DEF Modify
  <1>2. PICK value \in Requests[section] :
          calls' = [calls EXCEPT ![w] = [pc |-> "store",
                      dc |-> [memory EXCEPT ![section] = value], left |-> <<>>]]
    BY <1>1
  <1> DEFINE dc == [memory EXCEPT ![section] = value]
             c == [pc |-> "store", dc |-> dc, left |-> <<>>]
  <1>3. memory \in Config
    BY DEF Modify, ConfigInv, Types
  <1>4. dc \in Config
    BY <1>3, SectionType
  <1>5. calls' = [calls EXCEPT ![w] = c]
    BY <1>2
  <1> HIDE DEF dc
  <1>6. c \in Call /\ c.pc = "store" /\ c.dc \in Config
    BY <1>4 DEF Call, PCs
  <1> HIDE DEF c
  <1>7. w \in Callers /\ calls[w].pc # "push"
    BY DEF Callers, Modify
  <1>8. UNCHANGED <<etcd, memory, lock, channels, queue, seen>> /\ etcd \in Config \cup {None}
    BY DEF Modify, ConfigInv, Types
  <1> QED BY <1>5, <1>6, <1>7, <1>8, CallChanges

LEMMA StoreInv ==
    ASSUME ConfigInv, NEW w \in Callers, Store(w)
    PROVE  ConfigInv'
  <1> DEFINE c == [calls[w] EXCEPT !.pc = "lock"]
  <1>1. calls[w] \in Call /\ calls[w].dc \in Config /\ calls[w].pc = "store"
    BY DEF ConfigInv, Types, LockInv, Store
  <1>2. c \in Call /\ c.pc = "lock" /\ c.dc \in Config
    BY <1>1 DEF Call, PCs
  <1>3. calls' = [calls EXCEPT ![w] = c]
    BY DEF Store
  <1>4. UNCHANGED <<memory, lock, channels, queue, seen>> /\ etcd' \in Config \cup {None}
    BY <1>1 DEF Store
  <1> HIDE DEF c
  <1> QED BY <1>1, <1>2, <1>3, <1>4, CallChanges

LEMMA StoreFailsInv ==
    ASSUME ConfigInv, NEW w \in Callers, StoreFails(w)
    PROVE  ConfigInv'
  <1> DEFINE c == IF w = "start" THEN calls[w] ELSE Idle
  <1>1. calls[w] \in Call /\ calls[w].dc \in Config /\ calls[w].pc = "store"
    BY DEF ConfigInv, Types, LockInv, StoreFails
  <1>2. c \in Call /\ c.pc # "push" /\ (c.pc \in {"store", "lock"} => c.dc \in Config)
    BY <1>1, IdleType
  <1>3. calls' = [calls EXCEPT ![w] = c]
    BY DEF StoreFails
  <1>4. UNCHANGED <<memory, lock, channels, queue, seen>> /\ etcd' \in Config \cup {None}
    BY <1>1 DEF StoreFails, ConfigInv, Types
  <1> HIDE DEF c
  <1> QED BY <1>1, <1>2, <1>3, <1>4, CallChanges
(* Set takes the lock: every channel is to be visited. *)
LEMMA LockStepInv ==
    ASSUME ConfigInv, NEW w \in Callers, Lock(w)
    PROVE  ConfigInv'
  <1> DEFINE c == [pc |-> "push", dc |-> calls[w].dc, left |-> channels]
  <1>1. /\ calls[w] \in Call /\ calls[w].dc \in Config
        /\ \A v \in Callers : calls[v].pc # "push"
    BY FreeLock DEF ConfigInv, Types, LockInv, Lock
  <1>2. calls' = [calls EXCEPT ![w] = c]
    BY DEF Lock
  <1>3. c \in Call /\ c.pc = "push" /\ c.dc = calls[w].dc /\ c.left = channels
    BY <1>1 DEF ConfigInv, Types, Call, PCs
  <1> HIDE DEF c
  <1>4. Types'
    BY <1>1, <1>2, <1>3 DEF ConfigInv, Types, Lock
  <1>5. \A v \in Callers : calls'[v] = IF v = w THEN c ELSE calls[v]
    BY <1>2 DEF ConfigInv, Types
  <1>6. LockInv'
    BY <1>1, <1>3, <1>5 DEF ConfigInv, LockInv, Lock
  <1>7. \A s \in ToSet(channels)' : ToVisit(s)'
    BY <1>3, <1>5 DEF ToVisit, Lock
  <1>8. DeliveryInv'
    BY <1>7 DEF DeliveryInv
  <1> QED BY <1>4, <1>6, <1>8 DEF ConfigInv

(* A push: the subscriber at the head has now been given it. *)
LEMMA PushInv ==
    ASSUME ConfigInv, NEW w \in Callers, Push(w)
    PROVE  ConfigInv'
  <1> DEFINE c == [calls[w] EXCEPT !.left = Tail(@)]
  <1>1. /\ calls[w] \in Call /\ calls[w].dc \in Config /\ calls[w].left \in Seq(Subscribers)
        /\ calls[w].left # <<>> /\ calls[w].pc = "push" /\ calls[w].dc = memory /\ lock = w
    BY DEF ConfigInv, Types, LockInv, Push, Call
  <1>2. PICK s \in Subscribers :
          /\ s = Head(calls[w].left) /\ Tail(calls[w].left) \in Seq(Subscribers)
          /\ ToSet(calls[w].left) = {s} \cup ToSet(Tail(calls[w].left))
    BY <1>1, TailFacts
  <1>3. calls' = [calls EXCEPT ![w] = c]
    BY DEF Push
  <1>4. /\ c \in Call /\ c.pc = "push" /\ c.dc = memory
        /\ c.left = Tail(calls[w].left)
    BY <1>1, <1>2 DEF Call
  <1>5. queue[s] \in Seq(Config) /\ queue' = [queue EXCEPT ![s] = Append(queue[s], memory)]
    BY <1>1, <1>2 DEF Push, ConfigInv, Types
  <1> HIDE DEF c
  <1>6. /\ Append(queue[s], memory) \in Seq(Config) /\ Append(queue[s], memory) # <<>>
        /\ Last(Append(queue[s], memory)) = memory
    BY <1>1, <1>5, AppendFacts
  <1>7. UNCHANGED <<etcd, memory, lock, channels, seen>>
    BY DEF Push
  <1>8. Types'
    BY <1>3, <1>4, <1>5, <1>6, <1>7 DEF ConfigInv, Types
  <1>9. \A v \in Callers : calls'[v] = IF v = w THEN c ELSE calls[v]
    BY <1>3 DEF ConfigInv, Types
  <1>10. LockInv'
    BY <1>1, <1>4, <1>9 DEF ConfigInv, LockInv, Push
  <1>11. Given(s)' = memory
    BY <1>2, <1>5, <1>6 DEF Given, ConfigInv, Types
  <1>12. \A r \in Subscribers : r # s => Given(r)' = Given(r)
    BY <1>2, <1>5 DEF Given, ConfigInv, Types, Push
  <1>13. \A r : r # s /\ ToVisit(r) => ToVisit(r)'
    BY <1>2, <1>4, <1>9 DEF ToVisit
  <1>14. ToSet(channels) \subseteq Subscribers
    BY DEF ConfigInv, Types, ToSet
  <1>15. DeliveryInv'
    BY <1>11, <1>12, <1>13, <1>14 DEF ConfigInv, DeliveryInv, Push
  <1> QED BY <1>8, <1>10, <1>15 DEF ConfigInv

(* The end of a Set, which has no channel left to visit. *)
LEMMA UnlockInv ==
    ASSUME ConfigInv, NEW w \in Callers, Unlock(w)
    PROVE  ConfigInv'
  <1>1. calls[w].pc = "push" /\ calls[w].left = <<>> /\ lock = w
    BY DEF ConfigInv, LockInv, Unlock
  <1>2. ToSet(calls[w].left) = {}
    BY <1>1 DEF ToSet
  <1>3. Types'
    BY IdleType DEF ConfigInv, Types, Unlock
  <1>4. \A v \in Callers : calls'[v] = IF v = w THEN Idle ELSE calls[v]
    BY DEF ConfigInv, Types, Unlock
  <1>5. LockInv'
    BY <1>1, <1>4, IdleType DEF ConfigInv, LockInv, Unlock
  <1>6. \A s : ToVisit(s) => ToVisit(s)'
    BY <1>2, <1>4 DEF ToVisit
  <1>7. DeliveryInv'
    BY <1>6 DEF ConfigInv, DeliveryInv, Given, Unlock
  <1> QED BY <1>3, <1>5, <1>7 DEF ConfigInv

(* A new channel begins with the configuration in memory. *)
LEMMA NewPushChannelInv ==
    ASSUME ConfigInv, NEW s \in Subscribers, NewPushChannel(s)
    PROVE  ConfigInv'
  <1>1. /\ FirstConfig \in Seq(Config)
        /\ memory # None => FirstConfig # <<>> /\ Last(FirstConfig) = memory
    BY DEF FirstConfig, ConfigInv, Types, Last
  <1>2. /\ Append(channels, s) \in Seq(Subscribers)
        /\ ToSet(Append(channels, s)) = ToSet(channels) \cup {s}
    BY AppendFacts DEF ConfigInv, Types
  <1>3. Types'
    BY <1>1, <1>2 DEF ConfigInv, Types, NewPushChannel
  <1>4. LockInv'
    BY DEF ConfigInv, LockInv, NewPushChannel
  <1>5. memory # None => Given(s)' = memory
    BY <1>1 DEF Given, NewPushChannel, ConfigInv, Types
  <1>6. \A r \in ToSet(channels) : Given(r)' = Given(r)
    <2>1. \A r \in ToSet(channels) : r \in Subscribers /\ r # s
      BY DEF NewPushChannel, ToSet, ConfigInv, Types
    <2> QED BY <2>1 DEF Given, NewPushChannel, ConfigInv, Types
  <1>7. \A r : ToVisit(r)' <=> ToVisit(r)
    BY DEF ToVisit, NewPushChannel
  <1>8. DeliveryInv'
    BY <1>2, <1>5, <1>6, <1>7 DEF ConfigInv, DeliveryInv, NewPushChannel
  <1> QED BY <1>3, <1>4, <1>8 DEF ConfigInv

(* What a subscriber takes, it has been given before. *)
LEMMA TakeInv ==
    ASSUME ConfigInv, NEW s \in Subscribers, Take(s)
    PROVE  ConfigInv'
  <1>1. queue[s] \in Seq(Config) /\ queue[s] # <<>>
    BY DEF ConfigInv, Types, Take
  <1>2. /\ Head(queue[s]) \in Config /\ Tail(queue[s]) \in Seq(Config)
        /\ Tail(queue[s]) = <<>> => Last(queue[s]) = Head(queue[s])
        /\ Tail(queue[s]) # <<>> => Last(Tail(queue[s])) = Last(queue[s])
    BY <1>1, TailFacts
  <1>3. Types'
    BY <1>2 DEF ConfigInv, Types, Take
  <1>4. LockInv'
    BY DEF ConfigInv, LockInv, Take
  <1>5. /\ queue'[s] = Tail(queue[s]) /\ seen'[s] = Head(queue[s])
        /\ \A r \in Subscribers : r # s => queue'[r] = queue[r] /\ seen'[r] = seen[r]
    BY DEF Take, ConfigInv, Types
  <1>6. \A r \in Subscribers : Given(r)' = Given(r)
    BY <1>1, <1>2, <1>5 DEF Given
  <1>7. \A r \in ToSet(channels) : r \in Subscribers
    BY DEF ToSet, ConfigInv, Types
  <1>8. \A r : ToVisit(r)' <=> ToVisit(r)
    BY DEF ToVisit, Take
  <1>9. DeliveryInv'
    BY <1>6, <1>7, <1>8 DEF ConfigInv, DeliveryInv, Take
  <1> QED BY <1>3, <1>4, <1>9 DEF ConfigInv

LEMMA RebootInv ==
    ASSUME ConfigInv, Reboot
    PROVE  ConfigInv'
  <1>1. Types'
    BY BootingType DEF Reboot, ConfigInv, Types
  <1>2. LockInv'
    BY BootingType DEF Reboot, LockInv
  <1>3. DeliveryInv'
    BY DEF Reboot, DeliveryInv
  <1> QED BY <1>1, <1>2, <1>3 DEF ConfigInv

LEMMA ConfigUnchanged ==
    ASSUME ConfigInv, UNCHANGED <<etcd, memory, lock, channels, queue, seen, calls>>
    PROVE  ConfigInv'
  BY DEF ConfigInv, Types, LockInv, DeliveryInv, Given, ToVisit

-----------------------------------------------------------------------------
LEMMA ConfigNextInv ==
    ASSUME ConfigInv, [ConfigNext]_configVars
    PROVE  ConfigInv'
  <1>1. CASE UNCHANGED configVars
    BY <1>1, ConfigUnchanged DEF configVars
  <1>2. CASE StartLoad \/ StartGivesUp
    BY <1>2, StartLoadInv, StartGivesUpInv
  <1>3. CASE \E w \in Modifiers : Modify(w)
    BY <1>3, ModifyInv
  <1>4. CASE \E w \in Callers : SetStep(w)
    BY <1>4, StoreInv, StoreFailsInv, LockStepInv, PushInv, UnlockInv DEF SetStep
  <1>5. CASE \E s \in Subscribers : NewPushChannel(s) \/ Take(s)
    BY <1>5, NewPushChannelInv, TakeInv
  <1>6. CASE Die
    BY <1>6, ConfigUnchanged DEF Die
  <1>7. CASE Reboot
    BY <1>7, RebootInv
  <1> QED BY <1>1, <1>2, <1>3, <1>4, <1>5, <1>6, <1>7 DEF ConfigNext, ManagerStep

LEMMA ConfigInvDelivers ==
    ASSUME ConfigInv
    PROVE  LatestDelivered
  <1> SUFFICES ASSUME lock = "free", memory # None, NEW s \in ToSet(channels)
               PROVE  memory = Given(s)
    BY DEF LatestDelivered, Given
  <1>1. ~ToVisit(s)
    BY FreeLock DEF ToVisit, ConfigInv
  <1> QED BY <1>1 DEF ConfigInv, DeliveryInv
-----------------------------------------------------------------------------
(* The services together. *)

(* Whatever a service does, it does not disturb the manager: it takes from *)
(* its own channel, dies, or leaves the configuration alone.               *)
LEMMA StepOfManager ==
    ASSUME Next
    PROVE  [ConfigNext]_configVars
  <1> USE SubscribersAssumption
  <1>1. CASE ConfigStep
    BY <1>1 DEF ConfigStep, ConfigNext
  <1>2. CASE KeyVisualStep
    BY <1>2 DEF KeyVisualStep, ResetKeyVisualConfig, NewLabelStrategyPanics, ConfigNext
  <1>3. CASE ProfilingLoop
    <2>1. CASE LoopConfig
      BY <1>3, <2>1 DEF ProfilingLoop, LoopConfig, ConfigNext
    <2>2. CASE RequestPanics
      BY <1>3, <2>2 DEF ProfilingLoop, RequestPanics, ConfigNext
    <2>3. CASE LoopTimer \/ RequestIgnored \/ RequestStarts
      BY <2>3 DEF LoopTimer, RequestIgnored, RequestStarts
    <2>4. CASE (\E t \in Tasks : CreateTask(t)) \/ UnknownType \/ Spawn
      BY <2>4 DEF CreateTask, UnknownType, Spawn
    <2> QED BY <1>3, <2>1, <2>2, <2>3, <2>4 DEF ProfilingLoop, LoopStep
  <1>4. CASE ProfilingClient
    BY <1>4 DEF ProfilingClient, ClientStep, HandleStartGroup, StartTimeout, CancelGroup
  <1>5. CASE \E g \in Groups : ProfilingGroup(g) \/ \E t \in Tasks : ProfilingTask(g, t)
    BY <1>5 DEF ProfilingGroup, ProfilingTask, GroupEnds, TaskRun
  <1>6. CASE \E e \in Enders : ProfilingEnder(e)
    BY <1>6 DEF ProfilingEnder, EnderStep, CancelReturns, DeleteTasks, DeleteGroup
  <1>7. CASE Restart
    BY <1>7 DEF Restart, ConfigNext
  <1> QED BY <1>1, <1>2, <1>3, <1>4, <1>5, <1>6, <1>7 DEF Next

(* The services implement the manager's own specification. *)
THEOREM ServicesImplementManager == Spec => ConfigSpec
  <1>1. Init => ConfigInit
    BY DEF Init
  <1>2. [Next]_vars => [ConfigNext]_configVars
    BY StepOfManager DEF vars
  <1> QED BY <1>1, <1>2, PTL DEF Spec, ConfigSpec

(* The manager keeps ConfigInv. *)
THEOREM ManagerInvariant == ConfigSpec => []ConfigInv
  <1>1. ConfigInit => ConfigInv
    BY ConfigInitInv
  <1>2. ConfigInv /\ [ConfigNext]_configVars => ConfigInv'
    BY ConfigNextInv
  <1> QED BY <1>1, <1>2, PTL DEF ConfigSpec

(* Set and NewPushChannel never leave a subscriber behind: whoever has     *)
(* taken all that its channel holds works with the configuration in        *)
(* memory, however many Sets and new channels interleave.                  *)
THEOREM PushesReachSubscribers == Spec => []LatestDelivered
  <1>1. ConfigInv => LatestDelivered
    BY ConfigInvDelivers
  <1> QED BY <1>1, ServicesImplementManager, ManagerInvariant, PTL

-----------------------------------------------------------------------------
(* The key visualizer and the configuration its manager took last. *)
KeyVisualTypes ==
    running \in BOOLEAN /\ failed \in BOOLEAN /\ label \in Policies \cup {""}

LabelInv == running <=> label # ""

Follows(c) ==
    \/ failed /\ ~running
    \/ /\ running <=> ~c.keyvisual.disabled
       /\ running => label = c.keyvisual.policy

FollowsInv ==
    up => IF seen["keyvisual"] = None THEN ~running ELSE Follows(seen["keyvisual"])

KeyVisualInv == KeyVisualTypes /\ LabelInv /\ FollowsInv

(* Steps of the others. *)
LEMMA KeyVisualIdle ==
    ASSUME KeyVisualInv, UNCHANGED keyVisualVars, up' => up,
           seen'["keyvisual"] = seen["keyvisual"]
    PROVE  KeyVisualInv'
  BY DEF KeyVisualInv, KeyVisualTypes, LabelInv, FollowsInv, Follows, keyVisualVars

(* The manager handles a configuration. *)
LEMMA ResetInv ==
    ASSUME ConfigInv, KeyVisualInv, up, ResetKeyVisualConfig
    PROVE  KeyVisualInv'
  <1>1. "keyvisual" \in Subscribers
    BY SubscribersAssumption
  <1>2. PICK c \in Config : c = Head(queue["keyvisual"])
    <2>1. queue["keyvisual"] \in Seq(Config) /\ queue["keyvisual"] # <<>>
      BY <1>1 DEF ConfigInv, Types, ResetKeyVisualConfig
    <2> QED BY <2>1, TailFacts
  <1>3. seen'["keyvisual"] = c /\ c # None /\ up' = up
    <2>1. seen'["keyvisual"] = c /\ up' = up
      BY <1>1, <1>2 DEF ResetKeyVisualConfig, Take, ConfigInv, Types
    <2>2. c # None
      BY DEF Config, None
    <2> QED BY <2>1, <2>2
  <1>4. c.keyvisual \in KeyVisualConfig
    BY DEF Config
  <1>5. CASE c.keyvisual.disabled /\ running' = FALSE /\ label' = "" /\ failed' = FALSE
    BY <1>3, <1>5 DEF KeyVisualInv, KeyVisualTypes, LabelInv, FollowsInv, Follows
  <1>6. CASE ~c.keyvisual.disabled /\ StayedUp(c.keyvisual) /\ UNCHANGED keyVisualVars
    <2>1. running /\ seen["keyvisual"] # None
          /\ seen["keyvisual"].keyvisual.policy = c.keyvisual.policy
      BY <1>6 DEF StayedUp, Stops, KeyVisualInv, FollowsInv
    <2>2. label = c.keyvisual.policy
      BY <2>1 DEF KeyVisualInv, FollowsInv, Follows
    <2> QED BY <1>3, <1>6, <2>1, <2>2
            DEF KeyVisualInv, KeyVisualTypes, LabelInv, FollowsInv, Follows, keyVisualVars
  <1>7. CASE ~c.keyvisual.disabled /\ c.keyvisual.policy \in Policies
             /\ StartService(c.keyvisual.policy)
    BY <1>3, <1>7 DEF StartService, Policies, KeyVisualInv, KeyVisualTypes, LabelInv,
                      FollowsInv, Follows
  <1> QED BY <1>2, <1>5, <1>6, <1>7 DEF ResetKeyVisualConfig

LEMMA KeyVisualNextInv ==
    ASSUME ConfigInv, KeyVisualInv, [Next]_vars
    PROVE  KeyVisualInv'
  <1>1. CASE UNCHANGED vars
    BY <1>1, KeyVisualIdle DEF vars, configVars
  <1>2. CASE ConfigStep
    <2>1. UNCHANGED <<keyVisualVars, seen, up>>
      BY <1>2 DEF ConfigStep, ManagerStep, StartLoad, StartGivesUp, Modify, SetStep,
                  Store, StoreFails, Lock, Push, Unlock, NewPushChannel
    <2> QED BY <2>1, KeyVisualIdle
  <1>3. CASE KeyVisualStep
    <2>1. CASE NewLabelStrategyPanics
      BY <2>1 DEF NewLabelStrategyPanics, Die, KeyVisualInv, KeyVisualTypes, LabelInv,
                  FollowsInv
    <2> QED BY <1>3, <2>1, ResetInv DEF KeyVisualStep
  <1>4. CASE ProfilingLoop
    <2>1. CASE LoopConfig
      <3>1. UNCHANGED <<keyVisualVars, up>>
        BY <1>4, <2>1 DEF ProfilingLoop, LoopConfig, Take
      <3>2. seen'["keyvisual"] = seen["keyvisual"]
        BY <2>1, SubscribersAssumption DEF LoopConfig, Take, ConfigInv, Types
      <3> QED BY <3>1, <3>2, KeyVisualIdle
    <2>2. CASE RequestPanics
      <3>1. UNCHANGED <<keyVisualVars, seen>> /\ ~up'
        BY <1>4, <2>2 DEF ProfilingLoop, RequestPanics, Die
      <3> QED BY <3>1, KeyVisualIdle
    <2>3. CASE LoopTimer \/ RequestIgnored \/ RequestStarts
      <3>1. UNCHANGED <<keyVisualVars, seen, up>>
        BY <1>4, <2>3 DEF ProfilingLoop, LoopTimer, RequestIgnored, RequestStarts, configVars
      <3> QED BY <3>1, KeyVisualIdle
    <2>4. CASE (\E t \in Tasks : CreateTask(t)) \/ UnknownType \/ Spawn
      <3>1. UNCHANGED <<keyVisualVars, seen, up>>
        BY <1>4, <2>4 DEF ProfilingLoop, CreateTask, UnknownType, Spawn, configVars
      <3> QED BY <3>1, KeyVisualIdle
    <2> QED BY <1>4, <2>1, <2>2, <2>3, <2>4 DEF ProfilingLoop, LoopStep
  <1>5. CASE ProfilingClient
    <2>1. UNCHANGED <<keyVisualVars, seen, up>>
      BY <1>5 DEF ProfilingClient, ClientStep, HandleStartGroup, StartTimeout, CancelGroup,
                  configVars
    <2> QED BY <2>1, KeyVisualIdle
  <1>6. CASE \E g \in Groups : ProfilingGroup(g) \/ \E t \in Tasks : ProfilingTask(g, t)
    <2>1. UNCHANGED <<keyVisualVars, seen, up>>
      BY <1>6 DEF ProfilingGroup, ProfilingTask, GroupEnds, TaskRun, configVars
    <2> QED BY <2>1, KeyVisualIdle
  <1>7. CASE \E e \in Enders : ProfilingEnder(e)
    <2>1. UNCHANGED <<keyVisualVars, seen, up>>
      BY <1>7 DEF ProfilingEnder, EnderStep, CancelReturns, DeleteTasks, DeleteGroup, configVars
    <2> QED BY <2>1, KeyVisualIdle
  <1>8. CASE Restart
    BY <1>8, SubscribersAssumption
       DEF Restart, Reboot, KeyVisualReboot, KeyVisualInv, KeyVisualTypes, LabelInv, FollowsInv
  <1> QED BY <1>1, <1>2, <1>3, <1>4, <1>5, <1>6, <1>7, <1>8 DEF Next

(* Once the manager has handled the configuration in memory, the key       *)
(* visualizer is off, runs with the labels of that configuration's policy, *)
(* or is down because Start failed; it has labels exactly while it runs.   *)
THEOREM KeyVisualFollows == Spec => []ServiceFollowsConfig
  <1>1. Init => KeyVisualInv
    BY SubscribersAssumption
       DEF Init, ConfigInit, KeyVisualInit, KeyVisualInv, KeyVisualTypes, LabelInv, FollowsInv
  <1>2. ConfigInv /\ KeyVisualInv /\ [Next]_vars => KeyVisualInv'
    BY KeyVisualNextInv
  <1>3. KeyVisualInv => ServiceFollowsConfig
    BY DEF KeyVisualInv, KeyVisualTypes, LabelInv, FollowsInv, Follows, ServiceFollowsConfig
  <1> QED BY <1>1, <1>2, <1>3, ServicesImplementManager, ManagerInvariant, PTL DEF Spec

-----------------------------------------------------------------------------
(* The rows of profiling, next to the other services and over any number   *)
(* of restarts.                                                            *)

RowTypes ==
    /\ groupRow \in [Groups -> {"none", "running", "finish", "partial", "error"}]
    /\ taskRow \in [Groups -> [Tasks -> {"none", "running"} \cup Ended]]
    /\ goroutine \in [Groups -> [Tasks -> {"none", "created", "running", "stopped"}
                                           \cup Ended]]
    /\ used \subseteq Groups /\ waiters \subseteq used /\ starting.group \notin waiters
    /\ \/ starting = NotStarting
       \/ \E n \in used : \E left, client, bad :
            starting = [group |-> n, left |-> left, client |-> client, bad |-> bad]

(* A group that this process still works on. *)
Busy(g) == g \in waiters \/ g = starting.group

(* Nothing exists for an identifier that is not taken. *)
UntakenIsEmpty(g) ==
    g \notin used =>
        groupRow[g] = "none" /\ \A t \in Tasks : taskRow[g][t] = "none"
                                              /\ goroutine[g][t] = "none"

(* The goroutines of such a group find no rows but their own. *)
BusyOwnsRows(g) ==
    Busy(g) => /\ groupRow[g] \in {"none", "running"}
               /\ \A t \in Tasks : goroutine[g][t] = "none" => taskRow[g][t] = "none"

(* What a task has come to is in its row, unless that was deleted. *)
EndIsSaved(g) ==
    \A t \in Tasks : goroutine[g][t] \in Ended =>
        taskRow[g][t] \in {goroutine[g][t], "none"}

(* GroupSumsUpTasks for one group. *)
SumsUp(g) ==
    groupRow[g] \notin {"none", "running"} =>
        /\ NoneRunning(g)
        /\ (\A t \in Tasks : taskRow[g][t] \in Ended) =>
               groupRow[g] = GroupState({taskRow[g][t] : t \in Tasks})

GroupInv(g) == UntakenIsEmpty(g) /\ BusyOwnsRows(g) /\ EndIsSaved(g) /\ SumsUp(g)

ProfilingInv == RowTypes /\ \A g \in Groups : GroupInv(g)

-----------------------------------------------------------------------------
(* A group whose rows and goroutines a step leaves alone. *)
LEMMA GroupKept ==
    ASSUME NEW g \in Groups, GroupInv(g),
           groupRow'[g] = groupRow[g], taskRow'[g] = taskRow[g],
           goroutine'[g] = goroutine[g],
           Busy(g)' => Busy(g), g \in used => g \in used'
    PROVE  GroupInv(g)'
  <1>1. UntakenIsEmpty(g)' /\ BusyOwnsRows(g)'
    BY DEF GroupInv, UntakenIsEmpty, BusyOwnsRows
  <1>2. EndIsSaved(g)'
    BY DEF GroupInv, EndIsSaved
  <1>3. SumsUp(g)'
    BY DEF GroupInv, SumsUp, NoneRunning
  <1> QED BY <1>1, <1>2, <1>3 DEF GroupInv

(* A step that changes no row and starts no work. *)
LEMMA AllKept ==
    ASSUME ProfilingInv,
           UNCHANGED <<groupRow, taskRow, goroutine, used, waiters>>,
           starting' \in {starting, NotStarting}
    PROVE  ProfilingInv'
  <1>1. RowTypes'
    <2>1. NoGroup \notin waiters
      BY ProfilingAssumption DEF ProfilingInv, RowTypes
    <2>2. starting'.group \notin waiters
      BY <2>1 DEF ProfilingInv, RowTypes, NotStarting
    <2> QED BY <2>2 DEF ProfilingInv, RowTypes
  <1>2. ASSUME NEW g \in Groups PROVE GroupInv(g)'
    <2>1. Busy(g)' => Busy(g)
      BY ProfilingAssumption DEF Busy, NotStarting
    <2> QED BY <2>1, GroupKept DEF ProfilingInv
  <1> QED BY <1>1, <1>2 DEF ProfilingInv

(* startGroup takes an identifier that nothing is known of. *)
LEMMA StartGroupKeeps ==
    ASSUME ProfilingInv, NEW c, NEW tasks, NEW bad, StartGroup(c, tasks, bad),
           UNCHANGED <<taskRow, goroutine, waiters>>
    PROVE  ProfilingInv'
  <1>1. PICK n \in Groups \ used :
            /\ used' = used \cup {n}
            /\ groupRow' = [groupRow EXCEPT ![n] = "running"]
            /\ starting' = [group |-> n, left |-> tasks, client |-> c, bad |-> bad]
    BY DEF StartGroup
  <1>2. RowTypes'
    BY <1>1 DEF ProfilingInv, RowTypes
  <1>3. ASSUME NEW g \in Groups PROVE GroupInv(g)'
    <2>1. GroupInv(g)
      BY DEF ProfilingInv
    <2>2. CASE g = n
      <3>1. \A t \in Tasks : taskRow'[g][t] = "none" /\ goroutine'[g][t] = "none"
        BY <1>1, <2>1, <2>2 DEF GroupInv, UntakenIsEmpty
      <3>2. groupRow'[g] = "running" /\ g \in used'
        BY <1>1, <2>2 DEF ProfilingInv, RowTypes
      <3> QED
        BY <3>1, <3>2 DEF GroupInv, UntakenIsEmpty, BusyOwnsRows, EndIsSaved, SumsUp, Ended
    <2>3. CASE g # n
      <3>1. Busy(g)' => Busy(g)
        BY <1>1, <2>3 DEF Busy
      <3>2. groupRow'[g] = groupRow[g]
        BY <1>1, <2>3 DEF ProfilingInv, RowTypes
      <3> QED BY <1>1, <2>1, <3>1, <3>2, GroupKept
    <2> QED BY <2>2, <2>3
  <1> QED BY <1>2, <1>3 DEF ProfilingInv

(* A step on the rows and goroutines of one group. *)
LEMMA OneGroup ==
    ASSUME ProfilingInv, RowTypes', NEW n,
           \A g \in Groups \ {n} : /\ groupRow'[g] = groupRow[g]
                                   /\ taskRow'[g] = taskRow[g]
                                   /\ goroutine'[g] = goroutine[g],
           \A g \in Groups : Busy(g)' => Busy(g),
           used' = used,
           n \in Groups => GroupInv(n)'
    PROVE  ProfilingInv'
  <1>1. ASSUME NEW g \in Groups, g # n PROVE GroupInv(g)'
    BY <1>1, GroupKept DEF ProfilingInv
  <1> QED BY <1>1 DEF ProfilingInv

-----------------------------------------------------------------------------
LEMMA LoopKeeps ==
    ASSUME ProfilingInv, LoopStep
    PROVE  ProfilingInv'
  <1>1. CASE LoopConfig
    <2>1. CASE UNCHANGED <<groupRow, starting, used>>
      BY <1>1, <2>1, AllKept DEF LoopConfig
    <2>2. CASE StartGroup("auto", {}, FALSE)
      BY <1>1, <2>2, StartGroupKeeps DEF LoopConfig
    <2> QED BY <1>1, <2>1, <2>2 DEF LoopConfig
  <1>2. CASE LoopTimer
    BY <1>2, StartGroupKeeps DEF LoopTimer
  <1>3. CASE RequestStarts
    <2>1. PICK bad \in BOOLEAN : StartGroup(Head(sessions), Tasks, bad)
      BY <1>3 DEF RequestStarts
    <2> QED BY <1>3, <2>1, StartGroupKeeps DEF RequestStarts
  <1>4. CASE RequestIgnored \/ RequestPanics \/ UnknownType
    BY <1>4, AllKept DEF RequestIgnored, RequestPanics, UnknownType, profilingVars
  <1>5. ASSUME NEW t \in Tasks, CreateTask(t) PROVE ProfilingInv'
    <2>1. starting # NotStarting
      BY <1>5 DEF CreateTask, NotStarting
    <2>2. PICK n \in Groups : n = starting.group /\ n \in used
      BY <2>1 DEF ProfilingInv, RowTypes
    <2>3. /\ starting'.group = n
          /\ \E left, client, bad :
               starting' = [group |-> n, left |-> left, client |-> client, bad |-> bad]
      <3>1. PICK l, c, b : starting = [group |-> n, left |-> l, client |-> c, bad |-> b]
        BY <2>1, <2>2 DEF ProfilingInv, RowTypes
      <3>2. starting' = [group |-> n, left |-> l \ {t}, client |-> c, bad |-> b]
        BY <1>5, <3>1 DEF CreateTask
      <3> QED BY <3>2
    <2>4. RowTypes'
      <3>1. /\ taskRow' \in [Groups -> [Tasks -> {"none", "running"} \cup Ended]]
            /\ goroutine' \in [Groups -> [Tasks -> {"none", "created", "running", "stopped"}
                                                   \cup Ended]]
        BY <1>5, <2>2 DEF CreateTask, ProfilingInv, RowTypes
      <3>2. UNCHANGED <<groupRow, used, waiters>>
        BY <1>5 DEF CreateTask
      <3> QED BY <2>2, <2>3, <3>1, <3>2 DEF ProfilingInv, RowTypes
    <2>5. \A g \in Groups : Busy(g)' => Busy(g)
      BY <1>5, <2>2, <2>3 DEF CreateTask, Busy
    <2>6. GroupInv(n)'
      <3>1. GroupInv(n) /\ Busy(n)
        BY <2>2 DEF ProfilingInv, Busy
      <3>2. /\ groupRow' = groupRow /\ used' = used
            /\ \A u \in Tasks :
                 /\ taskRow'[n][u] = IF u = t THEN "running" ELSE taskRow[n][u]
                 /\ goroutine'[n][u] = IF u = t THEN "created" ELSE goroutine[n][u]
        BY <1>5, <2>2 DEF CreateTask, ProfilingInv, RowTypes
      <3>3. UntakenIsEmpty(n)' /\ BusyOwnsRows(n)'
        BY <2>2, <3>1, <3>2 DEF GroupInv, UntakenIsEmpty, BusyOwnsRows
      <3>4. EndIsSaved(n)'
        BY <3>1, <3>2 DEF GroupInv, EndIsSaved, Ended
      <3>5. SumsUp(n)'
        BY <3>1, <3>2 DEF GroupInv, BusyOwnsRows, SumsUp
      <3> QED BY <3>3, <3>4, <3>5 DEF GroupInv
    <2>7. /\ used' = used
          /\ \A g \in Groups \ {n} : /\ groupRow'[g] = groupRow[g]
                                     /\ taskRow'[g] = taskRow[g]
                                     /\ goroutine'[g] = goroutine[g]
      BY <1>5, <2>2 DEF CreateTask, ProfilingInv, RowTypes
    <2> QED BY <2>4, <2>5, <2>6, <2>7, OneGroup
  <1>6. CASE Spawn
    <2>1. PICK n \in Groups : n = starting.group /\ n \in used
      BY <1>6 DEF Spawn, Loop, ProfilingInv, RowTypes
    <2>2. Busy(n) /\ GroupInv(n)
      BY <2>1 DEF ProfilingInv, Busy
    <2>3. /\ groupRow' = groupRow /\ taskRow' = taskRow /\ used' = used
          /\ waiters' = waiters \cup {n} /\ starting' = NotStarting
          /\ goroutine' = [goroutine EXCEPT ![n] =
               [t \in Tasks |-> IF goroutine[n][t] = "created" THEN "running"
                                ELSE goroutine[n][t]]]
      BY <1>6, <2>1 DEF Spawn, ProfilingInv, RowTypes
    <2>4. RowTypes'
      <3>1. NoGroup \notin waiters' /\ starting'.group = NoGroup
        BY <2>1, <2>3, ProfilingAssumption DEF ProfilingInv, RowTypes, NotStarting
      <3>2. goroutine' \in [Groups -> [Tasks -> {"none", "created", "running", "stopped"}
                                                \cup Ended]]
        BY <2>3 DEF ProfilingInv, RowTypes
      <3> QED BY <2>1, <2>3, <3>1, <3>2 DEF ProfilingInv, RowTypes
    <2>5. \A g \in Groups : Busy(g)' => Busy(g)
      BY <2>1, <2>3, ProfilingAssumption DEF Busy, NotStarting
    <2>6. GroupInv(n)'
      <3>1. \A t \in Tasks : goroutine'[n][t] =
               IF goroutine[n][t] = "created" THEN "running" ELSE goroutine[n][t]
        BY <2>3 DEF ProfilingInv, RowTypes
      <3>2. UntakenIsEmpty(n)' /\ BusyOwnsRows(n)'
        BY <2>1, <2>2, <2>3, <3>1 DEF GroupInv, UntakenIsEmpty, BusyOwnsRows
      <3>3. EndIsSaved(n)'
        BY <2>2, <2>3, <3>1 DEF GroupInv, EndIsSaved, Ended
      <3>4. SumsUp(n)'
        BY <2>2, <2>3 DEF GroupInv, BusyOwnsRows, SumsUp
      <3> QED BY <3>2, <3>3, <3>4 DEF GroupInv
    <2>7. \A g \in Groups \ {n} : goroutine'[g] = goroutine[g]
      BY <2>3 DEF ProfilingInv, RowTypes
    <2> QED BY <2>3, <2>4, <2>5, <2>6, <2>7, OneGroup
  <1> QED BY <1>1, <1>2, <1>3, <1>4, <1>5, <1>6 DEF LoopStep

(* A task saves what it has come to. *)
LEMMA TaskKeeps ==
    ASSUME ProfilingInv, NEW n \in Groups, NEW t \in Tasks, TaskRun(n, t)
    PROVE  ProfilingInv'
  <1>1. PICK s \in Ended :
            /\ goroutine' = [goroutine EXCEPT ![n][t] = s]
            /\ taskRow' = [taskRow EXCEPT ![n][t] = s]
    BY DEF TaskRun
  <1>2. n \in waiters /\ UNCHANGED <<groupRow, used, waiters, starting>>
    BY DEF TaskRun
  <1>3. RowTypes'
    BY <1>1, <1>2 DEF ProfilingInv, RowTypes
  <1>4. GroupInv(n)'
    <2>1. GroupInv(n) /\ Busy(n) /\ n \in used
      BY <1>2 DEF ProfilingInv, RowTypes, Busy
    <2>2. \A u \in Tasks :
            /\ taskRow'[n][u] = IF u = t THEN s ELSE taskRow[n][u]
            /\ goroutine'[n][u] = IF u = t THEN s ELSE goroutine[n][u]
      BY <1>1 DEF ProfilingInv, RowTypes
    <2>3. UntakenIsEmpty(n)' /\ BusyOwnsRows(n)'
      BY <1>2, <2>1, <2>2 DEF GroupInv, UntakenIsEmpty, BusyOwnsRows, Ended
    <2>4. EndIsSaved(n)'
      BY <2>1, <2>2 DEF GroupInv, EndIsSaved
    <2>5. SumsUp(n)'
      BY <1>2, <2>1 DEF GroupInv, BusyOwnsRows, SumsUp
    <2> QED BY <2>3, <2>4, <2>5 DEF GroupInv
  <1>5. \A g \in Groups \ {n} : taskRow'[g] = taskRow[g] /\ goroutine'[g] = goroutine[g]
    BY <1>1 DEF ProfilingInv, RowTypes
  <1>6. \A g \in Groups : Busy(g)' => Busy(g)
    BY <1>2 DEF Busy
  <1> QED BY <1>2, <1>3, <1>4, <1>5, <1>6, OneGroup

(* The group's row is written when all its tasks have saved theirs: a row  *)
(* that is there was saved by its task.                                    *)
LEMMA GroupKeeps ==
    ASSUME ProfilingInv, NEW n \in Groups, GroupEnds(n)
    PROVE  ProfilingInv'
  <1> DEFINE ends == {goroutine[n][t] : t \in Tasks}
  <1>1. /\ n \in waiters /\ AllEnded(n)
        /\ groupRow' = [groupRow EXCEPT ![n] = GroupState(ends)]
        /\ waiters' = waiters \ {n}
        /\ UNCHANGED <<taskRow, goroutine, used, starting>>
    BY DEF GroupEnds
  <1>2. GroupState(ends) \in {"finish", "partial", "error"}
    BY DEF GroupState
  <1>3. RowTypes'
    BY <1>1, <1>2 DEF ProfilingInv, RowTypes
  <1>4. GroupInv(n)'
    <2>1. GroupInv(n) /\ Busy(n) /\ n \in used
      BY <1>1 DEF ProfilingInv, RowTypes, Busy
    <2>2. groupRow'[n] = GroupState(ends)
      BY <1>1 DEF ProfilingInv, RowTypes
    <2>3. ASSUME NEW t \in Tasks
          PROVE  /\ taskRow[n][t] # "running"
                 /\ taskRow[n][t] \in Ended => taskRow[n][t] = goroutine[n][t]
      BY <1>1, <2>1 DEF AllEnded, GroupInv, BusyOwnsRows, EndIsSaved, Ended
    <2>4. SumsUp(n)'
      <3>1. NoneRunning(n)'
        BY <1>1, <2>3 DEF NoneRunning
      <3>2. ASSUME \A t \in Tasks : taskRow[n][t] \in Ended
            PROVE  ends = {taskRow[n][t] : t \in Tasks}
        BY <2>3, <3>2
      <3> QED BY <1>1, <2>2, <3>1, <3>2 DEF SumsUp
    <2>5. EndIsSaved(n)' /\ UntakenIsEmpty(n)'
      BY <1>1, <2>1 DEF GroupInv, EndIsSaved, UntakenIsEmpty
    <2>6. ~Busy(n)'
      BY <1>1 DEF Busy, ProfilingInv, RowTypes
    <2> QED BY <2>4, <2>5, <2>6 DEF GroupInv, BusyOwnsRows
  <1>5. \A g \in Groups \ {n} : groupRow'[g] = groupRow[g]
    BY <1>1 DEF ProfilingInv, RowTypes
  <1>6. \A g \in Groups : Busy(g)' => Busy(g)
    BY <1>1 DEF Busy
  <1> QED BY <1>1, <1>3, <1>4, <1>5, <1>6, OneGroup

(* Requests to start only wait; cancelGroup stops goroutines that have     *)
(* nothing to save yet.                                                    *)
LEMMA ClientKeeps ==
    ASSUME ProfilingInv, ClientStep
    PROVE  ProfilingInv'
  <1>1. ASSUME NEW c \in Clients, HandleStartGroup(c) \/ StartTimeout(c)
        PROVE  ProfilingInv'
    BY <1>1, AllKept DEF HandleStartGroup, StartTimeout
  <1>2. ASSUME NEW e \in Enders, NEW n \in Groups, NEW d \in BOOLEAN,
               CancelGroup(e, n, d)
        PROVE  ProfilingInv'
    <2>1. /\ n \in used /\ UNCHANGED <<groupRow, taskRow, starting, used, waiters>>
          /\ goroutine' = [goroutine EXCEPT ![n] = [t \in Tasks |->
               IF taskRow[n][t] = "running" /\ goroutine[n][t] \in {"created", "running"}
                 THEN "stopped" ELSE goroutine[n][t]]]
      BY <1>2 DEF CancelGroup, ProfilingInv, RowTypes
    <2>2. RowTypes'
      BY <2>1 DEF ProfilingInv, RowTypes
    <2>3. GroupInv(n)'
      <3>1. GroupInv(n)
        BY DEF ProfilingInv
      <3>2. \A t \in Tasks :
              \/ goroutine'[n][t] = goroutine[n][t]
              \/ goroutine'[n][t] = "stopped"
        BY <2>1 DEF ProfilingInv, RowTypes
      <3>3. Busy(n)' = Busy(n)
        BY <2>1 DEF Busy
      <3>4. UntakenIsEmpty(n)' /\ BusyOwnsRows(n)'
        BY <2>1, <3>1, <3>2, <3>3 DEF GroupInv, UntakenIsEmpty, BusyOwnsRows
      <3>5. EndIsSaved(n)'
        BY <2>1, <3>1, <3>2 DEF GroupInv, EndIsSaved, Ended
      <3>6. SumsUp(n)'
        BY <2>1, <3>1 DEF GroupInv, SumsUp, NoneRunning
      <3> QED BY <3>4, <3>5, <3>6 DEF GroupInv
    <2>4. \A g \in Groups \ {n} : goroutine'[g] = goroutine[g]
      BY <2>1 DEF ProfilingInv, RowTypes
    <2>5. \A g \in Groups : Busy(g)' => Busy(g)
      BY <2>1 DEF Busy
    <2> QED BY <2>1, <2>2, <2>3, <2>4, <2>5, OneGroup
  <1> QED BY <1>1, <1>2 DEF ClientStep

(* A deletion takes rows away, from under whoever is still to write them. *)
LEMMA EnderKeeps ==
    ASSUME ProfilingInv, NEW e \in Enders, EnderStep(e)
    PROVE  ProfilingInv'
  <1>1. CASE CancelReturns(e)
    BY <1>1, AllKept DEF CancelReturns
  <1>2. CASE DeleteTasks(e)
    <2>1. PICK n : n = ender[e].group
      OBVIOUS
    <2>2. /\ UNCHANGED <<groupRow, goroutine, starting, used, waiters>>
          /\ taskRow' = [taskRow EXCEPT ![n] = [t \in Tasks |-> "none"]]
      BY <1>2, <2>1 DEF DeleteTasks
    <2>3. RowTypes'
      BY <2>2 DEF ProfilingInv, RowTypes
    <2>4. ASSUME n \in Groups PROVE GroupInv(n)'
      <3>1. GroupInv(n) /\ \A t \in Tasks : taskRow'[n][t] = "none"
        BY <2>2, <2>4 DEF ProfilingInv, RowTypes
      <3>2. Busy(n)' = Busy(n)
        BY <2>2 DEF Busy
      <3>3. UntakenIsEmpty(n)' /\ BusyOwnsRows(n)' /\ EndIsSaved(n)'
        BY <2>2, <3>1, <3>2 DEF GroupInv, UntakenIsEmpty, BusyOwnsRows, EndIsSaved
      <3>4. SumsUp(n)'
        <4>1. CASE Tasks = {}
          BY <2>2, <3>1, <4>1 DEF GroupInv, SumsUp, NoneRunning
        <4>2. CASE Tasks # {}
          BY <3>1, <4>2 DEF SumsUp, NoneRunning, Ended
        <4> QED BY <4>1, <4>2
      <3> QED BY <3>3, <3>4 DEF GroupInv
    <2>5. \A g \in Groups \ {n} : taskRow'[g] = taskRow[g]
      BY <2>2 DEF ProfilingInv, RowTypes
    <2>6. \A g \in Groups : Busy(g)' => Busy(g)
      BY <2>2 DEF Busy
    <2> QED BY <2>2, <2>3, <2>4, <2>5, <2>6, OneGroup
  <1>3. CASE DeleteGroup(e)
    <2>1. PICK n : n = ender[e].group
      OBVIOUS
    <2>2. /\ UNCHANGED <<taskRow, goroutine, starting, used, waiters>>
          /\ groupRow' = [groupRow EXCEPT ![n] = "none"]
      BY <1>3, <2>1 DEF DeleteGroup
    <2>3. RowTypes'
      BY <2>2 DEF ProfilingInv, RowTypes
    <2>4. ASSUME n \in Groups PROVE GroupInv(n)'
      <3>1. GroupInv(n) /\ groupRow'[n] = "none"
        BY <2>2, <2>4 DEF ProfilingInv, RowTypes
      <3>2. Busy(n)' = Busy(n)
        BY <2>2 DEF Busy
      <3> QED BY <2>2, <3>1, <3>2 DEF GroupInv, UntakenIsEmpty, BusyOwnsRows, EndIsSaved, SumsUp
    <2>5. \A g \in Groups \ {n} : groupRow'[g] = groupRow[g]
      BY <2>2 DEF ProfilingInv, RowTypes
    <2>6. \A g \in Groups : Busy(g)' => Busy(g)
      BY <2>2 DEF Busy
    <2> QED BY <2>2, <2>3, <2>4, <2>5, <2>6, OneGroup
  <1> QED BY <1>1, <1>2, <1>3 DEF EnderStep

(* A restart leaves the rows as they are, and nobody to write them. *)
LEMMA RestartKeeps ==
    ASSUME ProfilingInv, ProfilingReboot
    PROVE  ProfilingInv'
  <1>1. /\ UNCHANGED <<groupRow, taskRow, used>>
        /\ goroutine' = [g \in Groups |-> [t \in Tasks |-> "none"]]
        /\ waiters' = {} /\ starting' = NotStarting
    BY DEF ProfilingReboot
  <1>2. RowTypes'
    BY <1>1 DEF ProfilingInv, RowTypes
  <1>3. ASSUME NEW g \in Groups PROVE GroupInv(g)'
    <2>1. GroupInv(g) /\ \A t \in Tasks : goroutine'[g][t] = "none"
      BY <1>1 DEF ProfilingInv
    <2>2. ~Busy(g)'
      BY <1>1, ProfilingAssumption DEF Busy, NotStarting
    <2>3. UntakenIsEmpty(g)' /\ BusyOwnsRows(g)' /\ EndIsSaved(g)'
      BY <1>1, <2>1, <2>2 DEF GroupInv, UntakenIsEmpty, BusyOwnsRows, EndIsSaved, Ended
    <2>4. SumsUp(g)'
      BY <1>1, <2>1 DEF GroupInv, SumsUp, NoneRunning
    <2> QED BY <2>3, <2>4 DEF GroupInv
  <1> QED BY <1>2, <1>3 DEF ProfilingInv

-----------------------------------------------------------------------------
LEMMA ProfilingStart == Init => ProfilingInv
  <1> SUFFICES ASSUME ProfilingInit PROVE ProfilingInv
    BY DEF Init
  <1>1. RowTypes
    BY DEF ProfilingInit, RowTypes
  <1>2. ASSUME NEW g \in Groups PROVE GroupInv(g)
    BY ProfilingAssumption
    DEF ProfilingInit, GroupInv, UntakenIsEmpty, BusyOwnsRows, EndIsSaved, SumsUp, Ended
  <1> QED BY <1>1, <1>2 DEF ProfilingInv

LEMMA ProfilingStep == ProfilingInv /\ [Next]_vars => ProfilingInv'
  <1> SUFFICES ASSUME ProfilingInv, [Next]_vars PROVE ProfilingInv'
    OBVIOUS
  <1>1. CASE UNCHANGED profilingVars
    BY <1>1, AllKept DEF profilingVars
  <1>2. CASE ProfilingLoop
    BY <1>2, LoopKeeps DEF ProfilingLoop
  <1>3. CASE ProfilingClient
    BY <1>3, ClientKeeps DEF ProfilingClient
  <1>4. ASSUME NEW g \in Groups, ProfilingGroup(g) PROVE ProfilingInv'
    BY <1>4, GroupKeeps DEF ProfilingGroup
  <1>5. ASSUME NEW g \in Groups, NEW t \in Tasks, ProfilingTask(g, t) PROVE ProfilingInv'
    BY <1>5, TaskKeeps DEF ProfilingTask
  <1>6. ASSUME NEW e \in Enders, ProfilingEnder(e) PROVE ProfilingInv'
    BY <1>6, EnderKeeps DEF ProfilingEnder
  <1>7. CASE Restart
    BY <1>7, RestartKeeps DEF Restart
  <1> QED
    BY <1>1, <1>2, <1>3, <1>4, <1>5, <1>6, <1>7
    DEF Next, vars, ConfigStep, KeyVisualStep

(* A group of profiles that is listed as ended has no task listed as       *)
(* running and sums up the tasks that are listed, for any groups, tasks    *)
(* and requests to start, cancel and delete, and over restarts anywhere.   *)
THEOREM GroupsSumUp == Spec => []GroupSumsUpTasks
  <1>1. ProfilingInv => GroupSumsUpTasks
    BY DEF ProfilingInv, GroupInv, SumsUp, GroupSumsUpTasks
  <1> QED BY <1>1, ProfilingStart, ProfilingStep, PTL DEF Spec
=============================================================================
