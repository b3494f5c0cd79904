--------------------------- MODULE StatementList ---------------------------
(***************************************************************************)
(* The statement list: useStatementTableController with the page that      *)
(* drives it and the cache that outlives it while a statement's detail     *)
(* page is open.  Requests are answered in any order.                      *)
(*                                                                         *)
(* A render that changes queryOptions, windowSize or oldBackend leaves an  *)
(* effect due; React runs it before it renders again.                      *)
(***************************************************************************)
EXTENDS CacheMgr

CONSTANTS
    Queries,        \* values of queryOptions
    NoColumns,      \* those without a visible column
    OldBackend,     \* whether the server is one that has /time_ranges
    MaxFlights,     \* bound on requests on their way
    MaxClock        \* bound on time

(* The key of the clicked row; the keys of lists are encoded options. *)
Index == "clicked_item_index"

ASSUME StatementAssumption ==
    /\ NoColumns \subseteq Queries /\ Index \notin Queries
    /\ OldBackend \in BOOLEAN

VARIABLES
    page,       \* "list" or "detail"
    options,    \* queryOptions, kept in the session
    cache,      \* statementCacheMgr
    clock,
    window,     \* windowSize is known
    old,        \* oldBackend
    due,        \* the list effect has to run
    flights,    \* list requests in the order they were sent
    probes,     \* other requests on their way
    data,       \* what is shown
    loading,    \* isDataLoading
    outdated    \* what is shown was asked for before something newer

vars == <<page, options, cache, clock, window, old, due, flights, probes,
          data, loading, outdated>>

Nothing == [none |-> TRUE]

(* A request of the page that is shown is on its way. *)
Asked == \E i \in DOMAIN flights : flights[i].here

Fits == Len(flights) < MaxFlights

(* Requests on their way are no longer the newest question. *)
Aged == [i \in DOMAIN flights |-> [flights[i] EXCEPT !.newest = FALSE]]

(* The state of a page that is mounted. *)
Mounted ==
    /\ page' = "list"
    /\ window' = FALSE /\ old' = TRUE
    /\ due' = TRUE
    /\ probes' = {"config", "ranges"}
    /\ data' = Nothing /\ loading' = TRUE
    /\ outdated' = FALSE

Init ==
    /\ page = "list"
    /\ options \in Queries
    /\ cache = EmptyCache
    /\ clock = 0
    /\ window = FALSE /\ old = TRUE
    /\ due = TRUE
    /\ flights = <<>>
    /\ probes = {"config", "ranges"}
    /\ data = Nothing /\ loading = TRUE
    /\ outdated = FALSE

(* queryStatementList up to its await: the cache, no column, or a request. *)
(* (The range is widened for an old backend; the answer is only told apart *)
(* by its query.)                                                          *)
QueryFromCache ==
    /\ page = "list" /\ due
    /\ \E hit \in Found(cache, options, clock) : data' = hit
    /\ loading' = FALSE
    /\ due' = FALSE
    /\ flights' = Aged
    /\ outdated' = FALSE
    /\ UNCHANGED <<page, options, cache, clock, window, old, probes>>

Miss == page = "list" /\ due /\ Found(cache, options, clock) = {}

QueryNoColumns ==
    /\ Miss /\ options \in NoColumns
    /\ cache' = AfterGet(cache, options, clock)
    /\ due' = FALSE
    /\ UNCHANGED <<page, options, clock, window, old, flights, probes, data,
                   loading, outdated>>

QuerySend ==
    /\ Miss /\ options \notin NoColumns
    /\ cache' = AfterGet(cache, options, clock)
    /\ flights' = Append(Aged, [query |-> options, here |-> TRUE,
                                newest |-> TRUE])
    /\ loading' = TRUE
    /\ due' = FALSE
    /\ UNCHANGED <<page, options, clock, window, old, probes, data, outdated>>

(* A variant with a key built after the answer arrived. *)
CacheKeyLate(f) == options

(* cacheKey, built before the request is sent. *)
CacheKey(f) == f.query

FinallyForgotten(f) == loading' = (f.here /\ loading)

(* finally: setDataLoading(false), for a page that is still there. *)
Finally(f) == loading' = (loading /\ ~f.here)

(* An answer is rendered by the page that asked, and is cached anyway. *)
ListAnswer(i) ==
    LET f == flights[i]
        answer == [query |-> f.query]
    IN /\ f.here => ~due
       /\ flights' = RemoveAt(flights, i)
       /\ cache' = SetItem(cache, CacheKey(f), answer, clock)
       /\ data' = IF f.here THEN answer ELSE data
       /\ Finally(f)
       /\ outdated' = IF f.here THEN ~f.newest ELSE outdated
       /\ UNCHANGED <<page, options, clock, window, old, due, probes>>

ListFails(i) ==
    LET f == flights[i]
    IN /\ f.here => ~due
       /\ flights' = RemoveAt(flights, i)
       /\ data' = IF f.here THEN Nothing ELSE data
       /\ Finally(f)
       /\ UNCHANGED <<page, options, cache, clock, window, old, due, probes,
                      outdated>>

(* The variant with an effect that misses the options. *)
SendQueryUnseen(o) ==
    /\ page = "list" /\ ~due /\ Fits
    /\ cache' = EmptyCache
    /\ options' = o
    /\ probes' = probes \cup {"config"}
    /\ UNCHANGED <<page, clock, window, old, due, flights, data, loading,
                   outdated>>

(* sendQueryNow: the cache is cleared and the options are set, which also  *)
(* asks for the configuration again.                                       *)
SendQueryNow(o) ==
    /\ page = "list" /\ ~due /\ Fits
    /\ cache' = EmptyCache
    /\ options' = o
    /\ due' = TRUE
    /\ probes' = probes \cup {"config"}
    /\ UNCHANGED <<page, clock, window, old, flights, data, loading, outdated>>

(* queryStatementStatus: the window size is the server's, or stays. *)
ConfigAnswer ==
    /\ "config" \in probes /\ ~due /\ Fits
    /\ probes' = probes \ {"config"}
    /\ window' \in {window, TRUE}
    /\ due' = (window' # window)
    /\ UNCHANGED <<page, options, cache, clock, old, flights, data, loading,
                   outdated>>

(* queryTimeRanges: a 404 tells a new backend. *)
RangesAnswer ==
    /\ "ranges" \in probes /\ ~due /\ Fits
    /\ probes' = probes \ {"ranges"}
    /\ old' = OldBackend
    /\ due' = (old' # old)
    /\ UNCHANGED <<page, options, cache, clock, window, flights, data, loading,
                   outdated>>

(* A row is clicked: its index is cached, and the detail page replaces the *)
(* list; answers still on their way find no page.                          *)
ClickRow ==
    /\ page = "list" /\ ~due /\ data # Nothing
    /\ cache' = SetItem(cache, Index, 1, clock)
    /\ page' = "detail"
    /\ flights' = [i \in DOMAIN flights |-> [flights[i] EXCEPT !.here = FALSE]]
    /\ probes' = {}
    /\ UNCHANGED <<options, clock, window, old, due, data, loading, outdated>>

Return ==
    /\ page = "detail" /\ Fits
    /\ Mounted
    /\ UNCHANGED <<options, cache, clock, flights>>

Tick ==
    /\ clock < MaxClock
    /\ clock' = clock + 1
    /\ UNCHANGED <<page, options, cache, window, old, due, flights, probes,
                   data, loading, outdated>>

Next ==
    \/ QueryFromCache \/ QueryNoColumns \/ QuerySend
    \/ \E i \in DOMAIN flights : ListAnswer(i) \/ ListFails(i)
    \/ \E o \in Queries : SendQueryNow(o)
    \/ ConfigAnswer \/ RangesAnswer \/ ClickRow \/ Return \/ Tick

Spec == Init /\ [][Next]_vars

-----------------------------------------------------------------------------
(* Nothing is under way for the list that is shown. *)
Settled == page = "list" /\ ~due /\ ~Asked

(* A list in the cache is the answer to the query it is filed under,       *)
(* whatever was asked while it was on its way, and from whichever page.    *)
CacheHoldsItsQuery ==
    \A k \in DOMAIN cache.items \ {Index} : cache.items[k].data.query = k

(* The cache of lists and clicked rows keeps its list of keys and its      *)
(* items in step over evictions, expiry, clearing and late answers.        *)
CacheKeysMatch == KeysMatchItems(cache)

(* A list that says it is loading has a request on its way, so that the    *)
(* spinner ends.  (Without a visible column nothing is asked.)             *)
LoadingIsWaiting ==
    page = "list" /\ loading => due \/ Asked \/ options \in NoColumns

(* Once everything is answered, the list that is shown is that of the      *)
(* current options, be it from the cache or from the server, unless an     *)
(* older answer came after the newest.                                     *)
ShowsCurrentOptions ==
    Settled /\ ~outdated /\ data # Nothing /\ options \notin NoColumns
        => data.query = options
=============================================================================
