# TLA+ models of TiDB Dashboard

TiDB Dashboard is a Go server (`pkg/`, `util/`, `cmd/`) with a web UI
(`ui/`). The server talks to the components of a TiDB cluster, keeps a little
state of its own in a local SQLite database and in temporary files, and shares
its configuration with the other instances through etcd. The web UI is a set of
React pages that ask the server, poll it, and keep what they show in the
browser. This directory models the parts of both that have state and
concurrency, checks them with TLC on small instances, and proves the most
important results with TLAPS for every size of the instance.

## 1. Inventory

### Server

| Component | State it keeps | Operations | What is hard |
|---|---|---|---|
| Log search `pkg/apiserver/logsearch` | tables of groups, tasks and preview lines; log files; a `sync.Map` of running groups; a goroutine per group and per task | create, retry, cancel, delete, download | requests interleave with each other and with the goroutines; rows are saved by upsert; restarts; streams without timeout |
| Key visualizer storage `pkg/keyvisual/storage` | layers of ring buffers; table `keyviz_axis` | Append (with cascading compaction), Range, Restore | crash between statements; full and empty rings; upgrades |
| Key visualizer manager and service `pkg/keyvisual/{service,manager}.go` | a nested application started and stopped by configuration | start, stop, heatmaps | a start that fails, an unknown policy, requests that race with stop |
| Dynamic configuration `pkg/config` | etcd key, cached copy, push channels of capacity 1000 | load, Get, Modify, Set, NewPushChannel, Stop | read-modify-write without a lock, blocking pushes, etcd requests whose outcome is unknown |
| Profiling `pkg/apiserver/profiling` | tables of groups and tasks, `sync.Map` of tasks, a service loop | start, cancel, delete, automatic collection | timeout races a late answer, cancellation polls rows, restart leaves running rows |
| Key visualizer matrix, input, decorator | none (pure), a ticker, a label cache | split, compact, periodic input, schema refresh | boundary cases |
| TCP proxy and forwarder `util/proxy`, `pkg/tidb` | set of upstreams, their activity, the current one | SetUpstreams, probe, pick and connect | stale upstreams, atomics updated one by one |
| Metrics `pkg/apiserver/metrics` | cached Prometheus address | resolve, set | an invalidation overwritten by a resolution in flight |
| Topology cache, authentication, diagnose | TTL cache; SSO table; report rows | get; login; generate | duplicate fetches; external identity provider |
| Statement, slow query, configuration, cluster info, debug API, ... | none of their own | translate HTTP to SQL or HTTP | - |

### Web UI (`ui/packages/tidb-dashboard-lib/src`)

| Component | State it keeps | Operations | What is hard |
|---|---|---|---|
| `utils/useClientRequest` | request state, a ref to its copy, a polling timer | send, poll, unmount | the polling decision may read the state of an earlier render |
| Log search page `apps/SearchLogs` | tasks, checkboxes | check, download, cancel, retry | answers that arrive after a cancel or retry |
| Key visualizer page `apps/KeyViz` | metric, range, selection, chart, loading flag | change of view, brush, zoom, reset, settings | overlapping requests answered in any order, one flag for all of them |
| `components/AutoRefreshButton` | countdown, timeout | tick, refresh, change of interval | the timeout closes over old values |
| Statement list `apps/Statement`, `utils/cache` | list, configuration, a cache that outlives the page | query, open a statement and return | late answers, expiry, what is known of the backend changes the question |
| Selections `components/MultiSelect`, `components/InstanceSelect` | items, filter, table selection, kept keys, value | click, filter, new items, new value | one selection kept in two places |
| Other pages, API clients, locales, metric tables | forms over one request, or none | - | - |

The server's components share the SQLite store (one writer at a time, each
statement a transaction of its own, different tables), the dynamic
configuration (pushed to the key visualizer and to profiling) and the HTTP
router. A page and the server share nothing but requests.

What makes each part correct:

* log search: a group runs at most once at a time; rows, files and map agree;
  a cancelled group ends; nothing comes back after its deletion; nothing is
  leaked over a restart;
* key visualizer storage: memory and table agree; a sample is stored once, in
  the right layer, until the last layer drops it; Range returns exactly the
  axes that overlap;
* dynamic configuration: subscribers come to see the configuration in memory,
  in order, and what is served is valid;
* key visualizer manager: the service runs as the configuration says;
* profiling: a group's state sums up its tasks; cancellation comes back;
* pages: what is shown is what was asked last; a loading indicator ends; polling
  and refresh go on as long as there is something to wait for; nothing is left
  behind by a page that is gone;
* selections: the filter takes away nothing of the choice, and adds nothing
  unless all items were selected at once.

The hazards in `PROJECT.json` list, line by line, where these can go wrong.

## 2. Plan

Done, in this order: LogSearch with its proofs; StatLayers with its proofs; DynamicConfig,
KeyVisualManager and Profiling and their composition Services, with proofs; the
hooks and the page of the log search, with proofs; the key visualizer's page
composed with the auto refresh button, with proofs; the statement list with its
cache, with proofs; the filtered selection, shown to implement the selection it stands for,
by TLC and by proof.

Left, by what it would add:

1. An abstract specification of the storage (a sequence of axes with a horizon)
   that StatLayers implements, by TLC and by proof from the invariant there is.
2. Proxy: upstreams, prober, connections; liveness of recovery.
3. PromAddress: cache, single flight and invalidation.
4. Failing SQL statements as actions of StatLayers.
5. Matrix: split, chunk reduction and axis range as operators against
   reference definitions.
6. The Top SQL page, and the controller of the slow query list.

## 3. Modules

`PROJECT.json` maps every definition to its lines. Definitions whose names say
what they get wrong (`AlwaysStarts`, `FullNever`, `BrushKeepsAuto`,
`TriggerPollOnData`, `LockForgetsFirst`, `StopsNever`, ...) are variants of the
definition that follows them, each with a plausible mistake; they are used to
confirm that the property named beside them in `PROJECT.json` notices it.

| Module | Models | Uses |
|---|---|---|
| LogSearch, MCLogSearch | log search on the server | |
| StatLayers, MCStatLayers | storage of the key visualizer | |
| DynamicConfig | configuration manager | |
| KeyVisualManager | manager loop and service of the key visualizer | DynamicConfig |
| Profiling | profiling service | DynamicConfig |
| Services, MCServices | the three in one process | KeyVisualManager, Profiling |
| ClientRequest | the two request hooks | |
| LogSearchPage | page of a log search | ClientRequest (INSTANCE) |
| AutoRefresh | the auto refresh button | |
| KeyVizPage | page of the key visualizer | |
| KeyVizRefresh | the page with its button | KeyVizPage, AutoRefresh (INSTANCE) |
| CacheMgr | the cache | |
| StatementList | the statement list | CacheMgr |
| ItemSelection | a selection that knows no filter (abstract) | |
| FilteredSelection | SelectionWithFilter and the drop-downs | ItemSelection (INSTANCE) |
| LogSearchProofs, StatLayersProofs, ServicesProofs, LogSearchPageProofs, KeyVizProofs, StatementListProofs, FilteredSelectionProofs | proofs about these | |
| SequenceLemmas | facts about sequences that the proofs share | |

### LogSearch

| Variable | Code |
|---|---|
| `groupState`, `groupDir`, `used` | rows of `log_search_task_groups`; autoincremented ids |
| `taskRow` | rows of `log_search_tasks` |
| `previews` | number of rows of `log_previews` per task |
| `dirs`, `files` | group directories and zip files |
| `runningTaskGroups` | keys of `Scheduler.runningTaskGroups` |
| `run`, `work`, `starts` | the current `TaskGroup` of each group, its `Task`s, and how many there have been |
| `handler` | the HTTP requests in progress and their local variables |
| `restarts` | process restarts |

A handler, a group goroutine and a task goroutine each take one step per
statement on shared state: `CreateTaskGroup` and `InsertTask` are the two
inserts of the handler of that name, `AsyncStart` is the `LoadOrStore`,
`InitTasks` the assignment of the tasks under their mutex, and so on.
`AsyncAbort` remembers which object it loaded (`gen`), so that a late
`AbortAll` does nothing to a newer one. `gorm`'s `Save` is an upsert, so
`ResetGroup`, `ResetTask`, `SaveDir`, `SaveFinished` and `SaveTask` write the
row whether or not it exists. `CrashRestart` is the end of the process followed
by `NewService`, whose `cleanupAllTasks` runs before anything else and is
therefore part of the same step.

What is abstracted: messages, sizes, patterns and names; whether a path is set
instead of the path; a row's error text, which is set exactly when its state is
"error". A request is taken to name each instance once; SQL statements and
`RemoveAll` are taken to succeed (the code ignores their errors). Directory
creation, dialling, receiving and writing do fail in the model. The read-only
handlers change nothing; what they would read is stated in the properties.

### StatLayers

| Variable | Code |
|---|---|
| `layers` | the `layerStat`s: start and end time, ring of axes and times, Head, Tail, Empty |
| `table`, `db` | existence and rows of `keyviz_axis` |
| `call` | one frame per layer of the nested calls Append, Reduce, Next.Append |
| `phase`, `marked` | progress of Restore |
| `now`, `appended` | the clock, and the samples handed to `Stat.Append` |
| `crashes` | restarts |

An axis is the set of samples compacted into it. `Append` runs under the mutex
of `Stat`, but every INSERT and DELETE of the cascade is a transaction of its
own and the process may die between two of them, so each is a step (`Reduce`,
`InsertLast`). `NoTable`, `ClearTable`, `InsertStart` and `LoadLayers` are the
statements of `Restore`. `LayerRange` is `layerStat.Range` with its two binary
searches and ring arithmetic. The contents of axes (keys, values, compaction of
values) and the key map are left out: no property here depends on them.
`StatAssumption` asks for `Ratio < Len` in a compacting layer, which the
configuration in `keyvisual/service.go` satisfies, and `TablesAssumption` that a
table of an earlier version was left by the same code. `Compacting` and
`Gapless` are two more facts about that configuration which some theorems use;
TLC evaluates all of them.

### DynamicConfig, KeyVisualManager, Profiling, Services

`DynamicConfig` has the stored configuration (`etcd`), the served one
(`memory`), the write lock, the channels in the order of their creation, what
they hold, what each subscriber took last, and the calls of `Set` in progress.
`Modify` reads a copy and goes on to `Set`, which writes etcd without the lock,
then locks, replaces the configuration and pushes it channel by channel; a push
to a full channel blocks with the lock held. An etcd request that fails may or
may not have been carried out. `Start` retries its load. The configuration has
a section for each subscriber, since sections are modified separately and can
overwrite each other.

`KeyVisualManager` takes a configuration from its channel and stops or starts
the service; building the label strategy of an unknown policy panics.
`Profiling` has the rows of groups and tasks, the goroutines, the service loop
with the request it is starting, the queue of requests, what each client was
told and the progress of cancel and delete requests. One action is one SQL
statement with what surrounds it.

`Services` composes the three: they share the configuration's variables, one
process runs all of them, and its death (by crash or by panic) ends all of
them at once and keeps etcd and the tables.

### ClientRequest, LogSearchPage

`ClientRequest` models both hooks: the request in progress, its answers on the
way, the rendered state, the copy in `retRef`, the polling timer and the
timeouts the browser holds. An answer renders first and decides about polling
afterwards; whether the copy has been brought up to date in between depends on
React's scheduling, so both orders are possible. `LogSearchPage` instantiates it
with the states of the tasks as data, adds checkboxes, cancel and retry, and has
the server as its environment.

### AutoRefresh, KeyVizPage, KeyVizRefresh

`AutoRefresh` is the button: the countdown, the one timeout together with the
values it closed over, and the effects that are due. `KeyVizPage` has the
view (metric, range, selection), the brush, the configuration, the heatmap
requests in the order they were sent, the chart, and the shared loading flag.
`KeyVizRefresh` puts the button into the page: the page owns the interval and
disables the button while it loads, the button calls `updateHeatmap`. Effects
of the child run before those of its parent, and events wait for both.

### CacheMgr, StatementList

`CacheMgr` is the cache: entries in the order of insertion, a capacity and an
expiry. `StatementList` is the controller hook with the page: the query, the
probes for configuration and time ranges, list requests answered in any order,
and the way to the detail page and back, over which only the query and the
cache survive.

### ItemSelection, FilteredSelection

`ItemSelection` has the items, the chosen keys, the page's value and operations
on them. It knows no filter. It may hold "everything" as such: while it does,
items may join the choice by themselves; only a choice of all items begins this.

`FilteredSelection` keeps the choice in two places, as the code does: the
table's selection decides for the items that pass the filter (`inner`), a set of
kept keys for the others. The refinement mapping takes what `getAllSelection`
returns, and the table's mode for "everything".

The table's own class is a library (fabric, locked at 7.34.1; external),
modelled by what `SelectionWithFilter` relies on. It holds a mode and a set of
exempted rows: outside the mode the exempted rows are selected, within it all
others (`Selected`). `setAllSelected` sets the mode and forgets the exemptions;
`setKeySelected` changes an exemption (`Exempted`); `setItems` without clearing,
with the same key function and `setKey` (`InstanceSelect/TableWithFilter.tsx:102`),
keeps the mode as long as there are rows and the exemptions of rows that stay.
`SetAllSelected` therefore has the code's two branches: row by row when the
filter hides some items, by the mode otherwise. `Reselect` is the loop of
`setItems` that selects again what is kept, on top of what the table kept.
Whether the table reports a change where nothing changed is left open, as is
whether a filter change is reported. Rows are keys; their indices, and ranges of
indices, are left out.

## 4. Runs

| Run | Checks | Result |
|---|---|---|
| `logsearch_serial` | one request at a time, two instances of which one is a TiKV, a retry, a restart, fairness: types, download, no orphan rows, no leaked file, listing, kept logs, and that an abort that reached the tasks ends the run | holds |
| `logsearch_concurrent` | two requests of any kind at once, one TiKV instance, a retry, a restart: `InitTasksOnce`, `NoRunReplaced`, `FailedTaskHasNoPreview`, `OnlyRetryRevives` | holds |
| `logsearch_lost_cancel` | `CancelReachesTasks`: an abort of a group that is in the map cancels its tasks | violated: finding 1 |
| `logsearch_stuck_retry` | `RunningGroupHasRun` | violated: finding 2 |
| `stat_restart` | no table or one of an older version at first, crashes: `RestartIsTransparent`, `SampleStoredOnce`, `NothingLostInCompaction`, `LayersInOrder`, `TableBounded`, `RangeIsOverlap` | holds |
| `stat_empty_table` | `AnyRestartIsTransparent`, with crashes in Restore | violated: finding 3 |
| `services` | concurrent modifications, full channels, failing etcd requests, profiling requests, a process that dies: `LatestDelivered`, `ServiceFollowsConfig`, `GroupSumsUpTasks`, `SubscribersCatchUp`, `CancelComesBack` | holds |
| `services_upgrade` | `ServedConfigIsValid` with a configuration of an old version in etcd | violated: finding 4 |
| `filtered_selection` | clicks, select-all with and without a filter, filter changes, items and values in any order: `TableMatchesKept`, `ValueIsChosen`, `FilterKeepsChoice`, and the refinement `FilterIsInvisible` | holds |
| `log_search_page` | `NoStrayTimer`, `DownloadsFinished`, `PollsUntilTheEnd`, `PageShowsTheEnd` | holds |
| `statement_list` | `CacheHoldsItsQuery`, `CacheKeysMatch`, `LoadingIsWaiting`, `ShowsCurrentOptions` | holds |
| `keyviz_page` | `AutoShowsFullRange`, `ShowsTheView`, `SpinnerEnds`, `ProgressInRange`, `TimerIsCurrent`, `KeepsRefreshing` | holds |

The properties of `logsearch_serial` are stated "while requests come one at a
time": with two at once a deletion and a retry of the same group overlap, rows
come back and files lose their rows. Even serially the goroutines of earlier
requests run on, so the run still interleaves a request with a group and two
tasks.

### Findings

1. A cancel request that arrives between `LoadOrStore` and `InitTasks` is
   answered 200 and cancels nothing.
2. A retry between the save of the finished group and the removal of its map
   entry resets the rows to running, is refused by `AsyncStart`, and leaves a
   group that can be neither cancelled, retried nor deleted until the next start.
3. A crash between the creation (or clearing) of `keyviz_axis` and its start
   rows makes a later start take the first axis of a layer for its start row.
4. `Start` fills in defaults before it takes `AutoCollectionDisabled` from the
   command line (`dynamic_config_manager.go:80`), so that a configuration of an
   old version in which key visualization was off is served enabled and without
   a policy; the key visualizer then panics, and the next start repairs it.

### Observations

Met while modelling and contradicted by no statement in the repository, so that
no run reports them. All but the last two can be seen in the models as they are
instantiated:

* a log search retry that read its group before a deletion inserts the row
  again, and so does the goroutine it starts (`OnlyRetryRevives` admits these
  two); a group with a TiKV may store twice `TaskGroupMaxPreviewLines`;
* after a select-all with no item hidden the table is in its all-selected mode,
  and forgets an exception when the filter hides its row: with items a, b and c,
  select all, filter to a and b, uncheck a, filter to b, clear the filter, and a
  is selected again, whether or not the page is told. The properties of the
  selection are exact outside this mode, and within it say that nothing is lost;
* two modifications of different sections of the configuration can lose one of
  them, and etcd may keep another one than memory;
* automatic profiling asks for no types, and so creates groups without tasks;
  `exclusiveExecute` excludes nothing, as `lastTaskGroup` is never assigned; a
  group deleted between the last save of a task and its own comes back; a task of
  unknown type and a restart leave running rows for which a cancel never returns;
* a request to profile that is handled before the first configuration arrived
  ends the process;
* the log search page stops polling after a retry that was posted behind a page
  on which everything had finished;
* the brush button can be shown pressed while a chart that was rebuilt meanwhile
  is not brushing;
* where requests are not cancelled, an older answer that comes last stays: on the
  key visualizer's chart and in the statement list (`outdated` in `ShowsTheView`
  and `ShowsCurrentOptions`);
* the auto refresh button stalls on a page that does not load in `onRefresh`
  (Top SQL without an instance): resetting a countdown that is already full
  renders nothing, and no new timeout is set;
* the statement list's cache key is the query alone, so that on an old backend a
  list asked for before the window size was known is served from the cache
  although the page would now ask for a wider range.

### Bounds

* Log search: one group, as groups share nothing but the handlers and no action
  reads another group's rows; ids are never reused. `MaxStarts = 2` is a first
  run and a retry. Preview limits of 1 and 2 reach "below", "at" and "beyond"
  the limit, and one search that keeps no line. One restart is enough for what a
  restart leaves behind; a second finds an empty table.
* Storage: three layers of lengths 3, 2 and 1 and ratios 2, 1, 0: a compacting
  layer with several axes, one with ratio 1, and a dropping layer. Time runs
  from 12 to 26, which overflows all three more than once and wraps every ring.
  Two crashes, so that a restart can itself be interrupted and repeated.
* Services: channels of capacity 1, so that a push blocks when a subscriber is
  one behind (the code has 1000; the proofs have any); two modifiers; one
  profiling group of two tasks, one client and one request that cancels or
  deletes. A behaviour keeps to one of four budgets: three modifications; two
  and a restart; one next to profiling requests; profiling requests and a
  restart.
* Filtered selection: three keys (shown and chosen, hidden and chosen, one to
  click or to except), so that an exception can be hidden while another row
  keeps the mode; every set of keys as items, filter, value or click. Log search page: two tasks, one failing request, one retry.
* Statement list: three queries of which one shows no column, a cache of two
  entries with expiry 1 and a clock to 2, two list requests at once, a current
  backend (one without `/time_ranges`).
* Key visualizer: two metrics, one range and one zoom next to none, intervals
  0, 2 and 3, two heatmap requests at once.

Deadlock is checked in `filtered_selection`, `statement_list` and `keyviz_page`,
where somebody can always act. The other models stop when their bounds are
reached, as does the system when nobody sends requests.

### Fairness

* Log search: the Go scheduler runs every goroutine that can run: weak fairness
  of a handler's next step, of a group's next step, and of the steps of a task
  that need no answer from a remote node, including the error that a stream
  returns when its context is cancelled. Nothing is assumed of clients, restarts
  and remote nodes: `searchLog` sets no timeout, and a node may keep a stream
  open for ever. This is why `CancelEndsRun` speaks of aborts that have reached
  the tasks.
* Services: weak fairness of what goroutines do by themselves (`Progress`): a
  `Set` that has stored, subscribers, tasks (which have a time limit) and those
  who wait for them. One condition for all of them suffices because the budgets
  leave finitely many such steps. Neither requests nor etcd have to do anything.
* Pages: the browser runs effects and due timeouts, and requests end with an
  answer or an error; for the log search page also that tasks end. Users need not
  do anything.

## 5. Proofs

All theorems hold for every value of the constants that satisfies the named
assumption of the module. Where a theorem needs more of the constants it says so
as a hypothesis, listed below; nothing else is assumed. Every invariant and
every action property that a passing run checks is stated by a theorem.

| Module | Theorem | Statement |
|---|---|---|
| LogSearchProofs | `TypeCorrect` | `Spec => []TypeOK` |
| | `TasksInitialisedOnce` | `Spec => []InitTasksOnce` |
| | `RunsNeverReplaced` | `Spec => NoRunReplaced` |
| | `FailedTasksAreClean` | `Spec => []FailedTaskHasNoPreview` |
| | `DeletedUnlessRetried` | `Spec => OnlyRetryRevives`, for any number of requests |
| | `NoRowOrphaned`, `NoFileLeaked`, `LiveGroupsListedRunning`, `DownloadsReady` | `NoOrphanRows`, `NoLeakedFile`, `LiveGroupListedRunning`, `DownloadReady`, if there is one handler (`OneRequest`) |
| | `ReceivedLogsKept` | `ReceivedLogIsKept`, if the limits leave each task a line (`PreviewForAll`) |
| StatLayersProofs | `StatInvariant` | `Spec => []Inv`, the inductive invariant |
| | `RestartsAreTransparent`, `SamplesStoredOnce`, `TableStaysBounded` | `RestartIsTransparent`, `SampleStoredOnce`, `TableBounded` |
| | `RangeReturnsOverlap` | `Spec => []RangeIsOverlap` |
| | `LayersStayInOrder` | `LayersInOrder`, if `Compacting` and `Gapless` |
| | `CompactionLosesNothing` | `NothingLostInCompaction`, if `Compacting` |
| ServicesProofs | `ServicesImplementManager` | `Spec => ConfigSpec`: the composition implements the manager alone |
| | `PushesReachSubscribers` | `Spec => []LatestDelivered` |
| | `KeyVisualFollows` | `Spec => []ServiceFollowsConfig` |
| | `GroupsSumUp` | `Spec => []GroupSumsUpTasks` |
| StatementListProofs | `AnswersFiledRight`, `ListSpinnerWaits`, `ListShowsOptions` | `CacheHoldsItsQuery`, `LoadingIsWaiting`, `ShowsCurrentOptions` |
| | `CacheKeysInStep` | `Spec => []CacheKeysMatch` |
| FilteredSelectionProofs | `TableAndKeptAgree`, `ValueNamesChosen` | the two invariants |
| | `ChoiceOutlivesFilter` | `Spec => FilterKeepsChoice` |
| | `FilterInvisible` | the filtered selection implements `ItemSelection` |
| KeyVizProofs | `AutoRefreshShowsFullRange`, `PageShowsTheView`, `SpinnerWaits`, `CountdownInRange`, `TimeoutIsCurrent` | the five invariants of `keyviz_page` |
| LogSearchPageProofs | `TimersAreKnown`, `OnlyFinishedDownloads`, `PollingGoesOn` | `NoStrayTimer`, `DownloadsFinished`, `PollsUntilTheEnd` |

**Log search.** `LogSearchAssumption`: the set of targets is finite, the limits
are numbers, `NoGroup` is not a group. The invariant `IInv` adds

* `RequestInv`: a request that will start a group holds at least one task and
  no failed model; without it the division in `AsyncStart` has no type;
* `MapInv`: the map holds exactly the groups with a live object, an object has
  no tasks before `InitTasks`, and an active task belongs to an object that
  waits for it; this is what makes `LoadOrStore` exclude a second run;
* `UsedInv`: nothing exists for an id not handed out, so that a new group finds
  no old rows;
* `ErrorInv`: an error appears only on the way to `RemoveDataAndPreview`, after
  which the preview is empty until the row is saved;
* `DirtyInv`: a failed task that has preview rows all the same belongs to a
  deleted group that nobody handles. Such rows exist: a restart in the middle
  of a retry whose group row was deleted leaves them, because
  `cleanupAllTasks` goes by group rows.

The proof describes what a step of a handler (`HandlerEffect`, `TableEffect`),
of a group (`GroupEffect`) and of a task (`TaskEffect`) does, independently of
the invariant, and derives each part of the invariant from these effects.

`DeletedUnlessRetried` needs `FirstRunInv` beside `IInv`: until the first
goroutine of a group has saved its end, the group is listed as running, and no
retry or deletion has found it (`Found`, `ToStart` say which request holds a
group). Only a retry starts a group a second time, which `starts` counts.

What `logsearch_serial` checks is proved under `OneRequest`, the same condition:
any number of groups and targets, but one handler. It cannot be dropped: with
two handlers a retry and a deletion of the same group overlap, and each of these
properties fails (see the runs above). `SInv` adds to `IInv`

* `RunPart`: a group whose goroutine may still save its row is listed as
  running, and knows the directory its row names; otherwise its last save would
  bring back a deleted row or forget the directory;
* `TaskPart`: preview rows have a task row, task rows a group row, and the paths
  in a row or in a live `Task` name files on disk, except while a deletion has
  removed the directory and not yet the rows;
* `RequestPart`: what the handler has read is still so. This is where one
  handler is needed: between its statements the goroutines run on, and a group
  it read as finished stays so because nobody else can start it.

`KInv` carries `ReceivedLogIsKept`, for any number of handlers: a search that
was sent a line has kept one by the time it ends. This needs a preview line per
task (`PreviewForAll`), as `TaskGroupMaxPreviewLines` is divided among the tasks;
the limits of 500 and 5000 give one for up to 5000 instances.

**Key visualizer storage.** `StatAssumption` and `TablesAssumption`: any number
of layers, any lengths and ratios with `Ratio < Len`, any tables an earlier
version may have left, any number of restarts anywhere. Each action is one SQL
statement with the memory around it, so `Inv` can relate table and memory at
every moment, also in the middle of a cascade:

* `TableOK` is about the rows alone, hence survives a restart: different times
  within a layer, no row of an older layer after one of a younger layer, no
  sample in two rows that would be loaded, no layer left out;
* `Mirrored`: the rows of a layer, but for the one at its start time, are the
  axes of its ring, in order, and `Head`, `Tail` and the end time fit. With it
  `DELETE ... time = StartTime` removes exactly the row that has become
  superfluous;
* `Nested`: the innermost call reduces or inserts, those above wait, and a ring
  that waits or reduces has room or axes left as the loop needs; this is where
  `Ratio < Len` is used, and why a crash cannot leave layer 0 with one row;
* `Placed` and `Pending`: times of rows, starts and calls in progress are
  ordered, so that a compacted axis goes behind all that its layer has;
* `Apart`: no sample is at two places, calls in progress included;
* `Started`: each layer has its start row unless a Restore was interrupted (the
  exception that finding 3 is about);
* `Booting`, `Marking`: what is known while Restore runs.

That Restore rebuilds the rings rests on the order of rows by time. `RowAt` picks
the row with k rows before it; that there is exactly one is shown by counting
(`RowAtFacts`: an injection between finite sets of the same size is onto),
without an induction.

Until the first restart more holds: `Joined` (two layers meet unless an axis is
between them) gives the equality in `LayersInOrder`, and `NoneLost` (every sample
since the start of the last layer is in a row or in a call, and samples of older
rows are older) gives `NothingLostInCompaction`. They need `Compacting`, as a layer with ratio 0
before the last one drops axes, and the first one `Gapless`, as a table left with
longer rings or by an interrupted cascade has gaps from the beginning. The
configuration in `keyvisual/service.go:46` has a ratio in every layer but the
last; `Gapless` restricts the old tables to those that completed calls of
`Append` leave, with rings behind layer 0 no longer than the present ones.

`Range` is recursive over the layers. `RangesExist` shows that the recursion
defines a function and `RootAnswers` what it returns, both by descent from the
last layer to the first (`Descent`), which follows from the fact that a set of
numbers has a least element (`LeastNat`); so does what the two binary searches
find (`SearchFacts`). `Lists` and `Returns` are the statement that goes from
layer to layer: the overlapping axes of the layers from i on, listed in order of
time, are what has been returned so far. `OlderBelow` places what the next
layers returned before the axes of this one.

**Configuration.** `ConfigAssumption` and that the subscribers are the two there
are. `ServicesImplementManager` lets the rest be proved of the manager alone:
`ConfigInv` says who may hold the lock (`LockInv`), and that the newest
configuration on the way to a subscriber (the last in its channel, or the one it
took last) is the one in memory, unless a `Set` holds the lock and has that
subscriber still to visit (`DeliveryInv`). `KeyVisualInv` says that the label
strategy exists while the service runs and belongs to the configuration taken
last.

**Profiling.** `ProfilingAssumption`: `NoGroup` is not a group. A group's row is
written once, from what its goroutines remember, while cancel and delete
requests and restarts change the rows. The invariant therefore says, group by
group, that nothing exists for an identifier not taken, that a group this process
works on is not listed as ended and has no row of a task it has not created, and
that what a task has come to is in its row unless the row was deleted.

**Statement list.** `StatementAssumption` (the key of the clicked row is no
query) and `CacheAssumption`. `ShownInv` says that the newest request, if the
page still waits for it, asks for the current options, and that otherwise its
answer is shown, failed or was overtaken; with an answer from the cache this
rests on `CacheHoldsItsQuery`. `Kept` says of the cache that its list of keys
names every item once and is not too long. What `filter` leaves of a list is
described by indices (`Without`); that they are numbered without gaps is again a
matter of counting (`RankFacts`), and that the eviction makes room follows from
the number of indices it leaves.

**Filtered selection.** No assumption. Inductive are types, agreement of the
table with the kept keys (`Agree`: only rows are exempted; within the mode no
kept row is; outside it exactly the kept rows are), and that the value, unless an
effect is due, is what is kept. `ValueIsChosen` alone is not inductive, as a row
that comes back is selected from the kept keys. From these every step maps to a
step of `ItemSelection` or to no change: clicks to `Choose`, filter changes,
items and effects to `Follow`.

**Key visualizer page.** `KeyVizAssumption`. `PageInv`: auto refresh goes
neither with a selection nor with a brush (`AutoInv`); the loading flag is up
only while something is on its way or due (`SpinInv`); the newest request, if it
is still out, asks for the view, and otherwise the chart shows it or is known to
be outdated (`ViewInv`). `ButtonInv` is about countdown,
timeout and the values it closed over.

**Log search page.** `TimerInv`: the browser holds at most one timeout of the
page, the hook has a reference to it, and there is none once the page is gone.
`DataInv`: neither the page's data nor an answer on its way says "finished" of a
task that is not, since a finished task stays so. `PollInv` adds that a mounted
page has at most one request on its way (`OneCall`) and, as long as nobody has
retried, that an answer newer than a state in which everything had ended says the
same (`AnswersInOrder`): the decision to poll may look at the state before the
answer without stopping too early.

Only model-checked: liveness (`CancelEndsRun`, `SubscribersCatchUp`,
`CancelComesBack`, `KeepsRefreshing`, `PageShowsTheEnd`), which is out of the
proof system's reach.

## 6. Not modelled

Listed with reasons in `PROJECT.json`.

* Most lines of the TypeScript packages are generated API clients and schemas,
  translations, metric tables and page layout. They have no state of their own,
  and nothing about them can be checked by exploring behaviours.
* Pages other than the ones above are forms and tables over one request, or use
  the controller and cache of the statement list with other columns. Top SQL has
  ordering of its own and is on the plan.
* The heatmap's drawing, colours and tooltips: geometry without states.
* Query services of the server keep no state. Matrix, proxy, metrics address,
  decorator and input of the key visualizer are on the plan.
* Topology cache, authentication, diagnose: one cached value, tokens that carry
  their own state, and one background goroutine that fills one row.
* Scripts, swagger and test environments.
