------------------------- MODULE StatementListProofs -------------------------
(* The invariants of the statement list, for any queries, any capacity and *)
(* expiry of the cache and any number of requests.                         *)
EXTENDS StatementList, SequenceLemmas, FiniteSetTheorems

Flight == [query : Queries, here : BOOLEAN, newest : BOOLEAN]

Types ==
    /\ page \in {"list", "detail"}
    /\ options \in Queries
    /\ due \in BOOLEAN /\ loading \in BOOLEAN /\ outdated \in BOOLEAN
    /\ flights \in Seq(Flight)

(* ShowsCurrentOptions while requests are on their way: the newest, if the *)
(* page still waits for it, asks for the current options; otherwise its    *)
(* answer is shown, failed, or was overtaken.                              *)
NewestHere == \E i \in DOMAIN flights : flights[i].here /\ flights[i].newest
NewestAsksOptions ==
    \A i \in DOMAIN flights :
        flights[i].here /\ flights[i].newest => flights[i].query = options
ShownInv ==
    page = "list" /\ ~due /\ options \notin NoColumns =>
        /\ NewestAsksOptions
        /\ NewestHere \/ outdated \/ data = Nothing \/ data.query = options

ListInv == Types /\ CacheHoldsItsQuery /\ LoadingIsWaiting /\ ShownInv

-----------------------------------------------------------------------------
(* What the cache holds after set, remove and get. *)
Filed(c) == \A k \in DOMAIN c.items \ {Index} : c.items[k].data.query = k

LEMMA SetItemFiled ==
    ASSUME NEW c, NEW key, NEW val, NEW now, Filed(c),
           key # Index => val.query = key
    PROVE  Filed(SetItem(c, key, val, now))
  <1> DEFINE s == Stored(c, key, val, now)
             keys == Append(Without(c.keys, {key}), key)
  <1>1. \A k \in DOMAIN s \ {Index} : s[k].data.query = k
    BY DEF Stored, Filed
  <1> HIDE DEF s
  <1>2. /\ DOMAIN Evict(s, keys).items \subseteq DOMAIN s
        /\ \A k \in DOMAIN Evict(s, keys).items : Evict(s, keys).items[k] = s[k]
    BY DEF Evict
  <1>3. SetItem(c, key, val, now) = Evict(s, keys)
    BY DEF SetItem, s
  <1> QED BY <1>1, <1>2, <1>3 DEF Filed

LEMMA AfterGetFiled ==
    ASSUME NEW c, NEW key, NEW now, Filed(c)
    PROVE  Filed(AfterGet(c, key, now))
  BY DEF AfterGet, RemoveKey, Filed

LEMMA FoundFiled ==
    ASSUME NEW c, NEW key, NEW now, Filed(c), key # Index,
           NEW hit \in Found(c, key, now)
    PROVE  hit.query = key
  BY DEF Found, Filed

(* Requests that are no longer the newest, or whose page is gone. *)
LEMMA FlightExcept ==
    ASSUME NEW f \in Flight
    PROVE  /\ [f EXCEPT !.here = FALSE] \in Flight
           /\ [f EXCEPT !.newest = FALSE] \in Flight
           /\ [f EXCEPT !.newest = FALSE].newest = FALSE
           /\ [f EXCEPT !.newest = FALSE].here = f.here
  BY DEF Flight

LEMMA FlightsChanged ==
    ASSUME Types, NEW new, new = [i \in DOMAIN flights |-> new[i]],
           \A i \in DOMAIN flights : new[i] \in Flight
    PROVE  new \in Seq(Flight)
  <1> DEFINE n == Len(flights)
  <1>1. n \in Nat /\ DOMAIN flights = 1..n
    BY DEF Types
  <1> HIDE DEF n
  <1>2. new \in [1..n -> Flight]
    BY <1>1
  <1> QED BY <1>1, <1>2

LEMMA AgedFacts ==
    ASSUME Types
    PROVE  /\ Aged \in Seq(Flight) /\ DOMAIN Aged = DOMAIN flights
           /\ \A i \in DOMAIN Aged : /\ Aged[i].newest = FALSE
                                     /\ Aged[i].here = flights[i].here
  <1>1. \A i \in DOMAIN flights : flights[i] \in Flight
    BY DEF Types
  <1>2. /\ DOMAIN Aged = DOMAIN flights
        /\ Aged = [i \in DOMAIN flights |-> Aged[i]]
        /\ \A i \in DOMAIN flights : Aged[i] = [flights[i] EXCEPT !.newest = FALSE]
    BY DEF Aged
  <1>3. \A i \in DOMAIN flights : /\ Aged[i] \in Flight
                                  /\ Aged[i].newest = FALSE
                                  /\ Aged[i].here = flights[i].here
    <2> SUFFICES ASSUME NEW i \in DOMAIN flights
                 PROVE  /\ Aged[i] \in Flight
                        /\ Aged[i].newest = FALSE
                        /\ Aged[i].here = flights[i].here
      OBVIOUS
    <2> DEFINE f == flights[i]
    <2>1. f \in Flight /\ Aged[i] = [f EXCEPT !.newest = FALSE]
      BY <1>1, <1>2
    <2> HIDE DEF f
    <2>2. /\ Aged[i] \in Flight
          /\ Aged[i].newest = FALSE
          /\ Aged[i].here = f.here
      BY <2>1, FlightExcept
    <2> QED BY <2>2 DEF f
  <1>4. Aged \in Seq(Flight)
    BY <1>2, <1>3, FlightsChanged
  <1> QED BY <1>2, <1>3, <1>4

-----------------------------------------------------------------------------
LEMMA InitList == Init => ListInv
  <1> SUFFICES ASSUME Init PROVE ListInv
    OBVIOUS
  <1>1. flights \in Seq(Flight)
    BY DEF Init
  <1>2. Types
    BY <1>1 DEF Init, Types
  <1>3. CacheHoldsItsQuery
    BY DEF Init, CacheHoldsItsQuery, EmptyCache
  <1> QED BY <1>2, <1>3 DEF Init, ListInv, LoadingIsWaiting, ShownInv

(* A step that leaves alone what is shown and asked, and may call for the  *)
(* effect. *)
LEMMA OnlyDue ==
    ASSUME ListInv, due' \in BOOLEAN, due => due',
           UNCHANGED <<page, options, cache, flights, data, loading, outdated>>
    PROVE  ListInv'
  <1>1. Types' /\ CacheHoldsItsQuery'
    BY DEF ListInv, Types, CacheHoldsItsQuery
  <1>2. LoadingIsWaiting'
    BY DEF ListInv, LoadingIsWaiting, Asked
  <1>3. ShownInv'
    BY DEF ListInv, ShownInv, NewestHere, NewestAsksOptions
  <1> QED BY <1>1, <1>2, <1>3 DEF ListInv

(* An answer, or the end of a request that fails. *)
LEMMA FlightEnds ==
    ASSUME ListInv, NEW i \in DOMAIN flights,
           flights' = RemoveAt(flights, i),
           flights[i].here => ~due,
           Finally(flights[i]),
           UNCHANGED <<page, options, due>>,
           \/ ~flights[i].here /\ UNCHANGED <<data, outdated>>
           \/ /\ flights[i].here
              /\ \/ data' = Nothing /\ UNCHANGED outdated
                 \/ data' = [query |-> flights[i].query] /\ outdated' = ~flights[i].newest
    PROVE  Types' /\ LoadingIsWaiting' /\ ShownInv'
  <1> DEFINE f == flights[i]
  <1>1. f \in Flight
    BY DEF ListInv, Types
  <1>2. /\ flights' \in Seq(Flight)
        /\ \A k \in DOMAIN flights' : \E j \in DOMAIN flights : flights'[k] = flights[j]
        /\ \A j \in DOMAIN flights : j # i => \E k \in DOMAIN flights' : flights'[k] = flights[j]
    BY RemoveAtFacts DEF ListInv, Types
  <1>3. Types'
    BY <1>1, <1>2 DEF ListInv, Types, Finally, Flight
  <1>4. LoadingIsWaiting'
    BY <1>1, <1>2 DEF ListInv, LoadingIsWaiting, Asked, Finally, Flight
  <1>5. ShownInv'
    <2> SUFFICES ASSUME page = "list", ~due, options \notin NoColumns
                 PROVE  /\ NewestAsksOptions'
                        /\ (NewestHere \/ outdated \/ data = Nothing \/ data.query = options)'
      BY DEF ShownInv
    <2>1. NewestAsksOptions /\ (NewestHere \/ outdated \/ data = Nothing \/ data.query = options)
      BY DEF ListInv, ShownInv
    <2>2. NewestAsksOptions'
      BY <1>2, <2>1 DEF NewestAsksOptions
    <2>3. CASE ~f.here
      <3>1. NewestHere => NewestHere'
        BY <1>2, <2>3 DEF NewestHere
      <3> QED BY <2>1, <2>2, <2>3, <3>1
    <2>4. CASE f.here
      <3>1. f.newest => f.query = options
        BY <2>1, <2>4 DEF NewestAsksOptions
      <3> QED BY <1>1, <2>2, <2>4, <3>1 DEF Flight
    <2> QED BY <2>3, <2>4
  <1> QED BY <1>3, <1>4, <1>5

LEMMA QueryStep ==
    ASSUME ListInv, QueryFromCache \/ QueryNoColumns \/ QuerySend
    PROVE  ListInv'
  <1>1. CASE QueryFromCache
    <2>1. PICK hit \in Found(cache, options, clock) : data' = hit
      BY <1>1 DEF QueryFromCache
    <2>2. data'.query = options
      BY <2>1, FoundFiled, StatementAssumption DEF ListInv, Types, CacheHoldsItsQuery, Filed
    <2>3. Types' /\ NewestAsksOptions'
      BY <1>1, AgedFacts DEF ListInv, Types, QueryFromCache, NewestAsksOptions
    <2> QED
      BY <1>1, <2>2, <2>3
      DEF ListInv, QueryFromCache, CacheHoldsItsQuery, LoadingIsWaiting, ShownInv
  <1>2. CASE QueryNoColumns
    <2>1. CacheHoldsItsQuery'
      BY <1>2, AfterGetFiled DEF ListInv, QueryNoColumns, CacheHoldsItsQuery, Filed
    <2> QED
      BY <1>2, <2>1 DEF ListInv, QueryNoColumns, Types, LoadingIsWaiting, ShownInv
  <1>3. CASE QuerySend
    <2> DEFINE new == [query |-> options, here |-> TRUE, newest |-> TRUE]
    <2>1. CacheHoldsItsQuery'
      BY <1>3, AfterGetFiled DEF ListInv, QuerySend, CacheHoldsItsQuery, Filed
    <2>2. new \in Flight
      BY DEF ListInv, Types, Flight
    <2>3. /\ flights' \in Seq(Flight)
          /\ DOMAIN flights' = 1..(Len(Aged) + 1) /\ DOMAIN Aged = 1..Len(Aged)
          /\ Len(Aged) \in Nat
          /\ flights'[Len(Aged) + 1] = new
          /\ \A i \in DOMAIN Aged : flights'[i] = Aged[i]
      BY <1>3, <2>2, AgedFacts DEF ListInv, QuerySend
    <2>4. Types'
      BY <1>3, <2>3 DEF ListInv, Types, QuerySend
    <2>5. Len(Aged) + 1 \in DOMAIN flights'
      BY <2>3
    <2>6. Asked' /\ NewestHere'
      BY <2>3, <2>5 DEF Asked, NewestHere
    <2>7. NewestAsksOptions'
      <3> SUFFICES ASSUME NEW i \in DOMAIN flights', flights'[i].newest
                   PROVE  flights'[i].query = options'
        BY DEF NewestAsksOptions
      <3>1. i \in DOMAIN Aged => flights'[i].newest = FALSE
        BY <2>3, AgedFacts DEF ListInv
      <3>2. i = Len(Aged) + 1
        BY <2>3, <3>1
      <3> QED BY <1>3, <2>3, <3>2 DEF QuerySend
    <2> QED BY <2>1, <2>4, <2>6, <2>7 DEF ListInv, LoadingIsWaiting, ShownInv
  <1> QED BY <1>1, <1>2, <1>3

LEMMA AnswerStep ==
    ASSUME ListInv, NEW i \in DOMAIN flights, ListAnswer(i) \/ ListFails(i)
    PROVE  ListInv'
  <1>1. flights[i] \in Flight
    BY DEF ListInv, Types
  <1>2. CASE ListAnswer(i)
    <2>1. Types' /\ LoadingIsWaiting' /\ ShownInv'
      BY <1>1, <1>2, FlightEnds DEF ListAnswer, Flight
    <2>2. CacheHoldsItsQuery'
      <3> DEFINE answer == [query |-> flights[i].query]
      <3>1. cache' = SetItem(cache, flights[i].query, answer, clock)
        BY <1>2 DEF ListAnswer, CacheKey
      <3>2. Filed(cache) /\ answer.query = flights[i].query
        BY DEF ListInv, CacheHoldsItsQuery, Filed
      <3> HIDE DEF answer
      <3>3. Filed(cache')
        BY <3>1, <3>2, SetItemFiled
      <3> QED BY <3>3 DEF CacheHoldsItsQuery, Filed
    <2> QED BY <2>1, <2>2 DEF ListInv
  <1>3. CASE ListFails(i)
    <2>1. Types' /\ LoadingIsWaiting' /\ ShownInv'
      BY <1>1, <1>3, FlightEnds DEF ListFails, Flight
    <2> QED BY <1>3, <2>1 DEF ListInv, ListFails, CacheHoldsItsQuery
  <1> QED BY <1>2, <1>3

(* The steps that leave the requests for lists alone, or the page. *)
LEMMA PageStep ==
    ASSUME ListInv,
           \/ \E o \in Queries : SendQueryNow(o)
           \/ ConfigAnswer \/ RangesAnswer \/ ClickRow \/ Return \/ Tick
    PROVE  ListInv'
  <1>1. CASE \E o \in Queries : SendQueryNow(o)
    BY <1>1 DEF ListInv, SendQueryNow, Types, CacheHoldsItsQuery, LoadingIsWaiting,
                ShownInv, EmptyCache
  <1>2. CASE ConfigAnswer \/ RangesAnswer \/ Tick
    <2>1. /\ due' \in BOOLEAN /\ (due => due')
          /\ UNCHANGED <<page, options, cache, flights, data, loading, outdated>>
      BY <1>2 DEF ListInv, Types, ConfigAnswer, RangesAnswer, Tick
    <2> QED BY <2>1, OnlyDue
  <1>3. CASE ClickRow
    <2>1. flights' \in Seq(Flight)
      <3>1. \A i \in DOMAIN flights : flights[i] \in Flight
        BY DEF ListInv, Types
      <3>2. /\ flights' = [i \in DOMAIN flights |-> flights'[i]]
            /\ \A i \in DOMAIN flights : flights'[i] = [flights[i] EXCEPT !.here = FALSE]
        BY <1>3 DEF ClickRow
      <3>3. \A i \in DOMAIN flights : flights'[i] \in Flight
        BY <3>1, <3>2, FlightExcept
      <3> QED BY <3>2, <3>3, FlightsChanged DEF ListInv
    <2>2. CacheHoldsItsQuery'
      <3>1. Filed(cache) /\ cache' = SetItem(cache, Index, 1, clock)
        BY <1>3 DEF ListInv, CacheHoldsItsQuery, Filed, ClickRow
      <3>2. Filed(cache')
        BY <3>1, SetItemFiled
      <3> QED BY <3>2 DEF CacheHoldsItsQuery, Filed
    <2> QED BY <1>3, <2>1, <2>2 DEF ListInv, ClickRow, Types, LoadingIsWaiting, ShownInv
  <1>4. CASE Return
    BY <1>4 DEF ListInv, Return, Mounted, Types, CacheHoldsItsQuery, LoadingIsWaiting,
                ShownInv
  <1> QED BY <1>1, <1>2, <1>3, <1>4

LEMMA ListStep == ListInv /\ [Next]_vars => ListInv'
  <1> SUFFICES ASSUME ListInv, [Next]_vars PROVE ListInv'
    OBVIOUS
  <1>1. CASE UNCHANGED vars
    BY <1>1, OnlyDue DEF vars, ListInv, Types
  <1> QED BY <1>1, QueryStep, AnswerStep, PageStep DEF Next

(* The invariant of the page and its cache: requests are those the hook    *)
(* sends, and the three properties below hold between any two steps.       *)
THEOREM ListInvariant == Spec => []ListInv
  BY InitList, ListStep, PTL DEF Spec

(* The cache files every answer under the query it answers, although       *)
(* answers arrive after the options have changed or the page has gone.     *)
THEOREM AnswersFiledRight == Spec => []CacheHoldsItsQuery
  <1>1. ListInv => CacheHoldsItsQuery
    BY DEF ListInv
  <1> QED BY <1>1, ListInvariant, PTL

(* A list that says it is loading waits for a request of its own.          *)
THEOREM ListSpinnerWaits == Spec => []LoadingIsWaiting
  <1>1. ListInv => LoadingIsWaiting
    BY DEF ListInv
  <1> QED BY <1>1, ListInvariant, PTL

(* The list that is shown once all is answered is that of the current      *)
(* options, be it from the cache or from the server.                       *)
THEOREM ListShowsOptions == Spec => []ShowsCurrentOptions
  <1>1. ListInv => ShowsCurrentOptions
    BY DEF ListInv, ShownInv, NewestHere, ShowsCurrentOptions, Settled, Asked
  <1> QED BY <1>1, ListInvariant, PTL

-----------------------------------------------------------------------------
(* The cache's list of keys.                                               *)

(* The number of indices in S up to i. *)
Rank(S, i) == Cardinality({j \in S : j <= i})

(* The indices in S are numbered from 1 on, in their order. *)
LEMMA RankFacts ==
    ASSUME NEW n \in Nat, NEW S, S \subseteq 1..n
    PROVE  /\ IsFiniteSet(S) /\ Cardinality(S) \in Nat
           /\ \A i \in S : Rank(S, i) \in 1..Cardinality(S)
           /\ \A k \in 1..Cardinality(S) : \E i \in S : Rank(S, i) = k
           /\ \A i, j \in S : Rank(S, i) = Rank(S, j) => i = j
  <1> DEFINE c == Cardinality(S)
             rank == [i \in S |-> Rank(S, i)]
             Upto(i) == {j \in S : j <= i}
  <1>1. IsFiniteSet(1..n)
    BY FS_Interval
  <1>2. IsFiniteSet(S) /\ c \in Nat
    BY <1>1, FS_Subset, FS_CardinalityType
  <1>3. ASSUME NEW i \in S
        PROVE  /\ IsFiniteSet(Upto(i)) /\ Rank(S, i) = Cardinality(Upto(i))
               /\ Rank(S, i) \in 1..c
    <2>1. Upto(i) \subseteq S /\ i \in Upto(i)
      BY <1>2
    <2> HIDE DEF Upto
    <2>2. IsFiniteSet(Upto(i)) /\ Cardinality(Upto(i)) <= c
      BY <1>2, <2>1, FS_Subset
    <2>3. Cardinality(Upto(i)) \in Nat /\ Cardinality(Upto(i)) # 0
      BY <2>1, <2>2, FS_CardinalityType, FS_EmptySet
    <2>4. Rank(S, i) = Cardinality(Upto(i))
      BY DEF Rank, Upto
    <2> QED
      BY <1>2, <2>2, <2>3, <2>4
  <1>4. ASSUME NEW i \in S, NEW j \in S, i < j
        PROVE  Rank(S, i) # Rank(S, j)
    <2>0. i \in Nat /\ j \in Nat
      OBVIOUS
    <2>1. Upto(i) \subseteq Upto(j) /\ j \in Upto(j) /\ j \notin Upto(i)
      <3>1. \A k \in S : k \in Nat /\ (k <= i => k <= j)
        BY <1>4, <2>0
      <3>2. ~(j <= i) /\ j <= j
        BY <1>4, <2>0
      <3> QED
        BY <3>1, <3>2
    <2> HIDE DEF Upto
    <2>2. Cardinality(Upto(i)) # Cardinality(Upto(j))
      BY <1>3, <2>1, FS_Subset
    <2> QED
      BY <1>3, <2>2
  <1>5. ASSUME NEW i \in S, NEW j \in S, Rank(S, i) = Rank(S, j)
        PROVE  i = j
    BY <1>4, <1>5
  <1>6. rank \in Injection(S, 1..c)
    BY <1>3, <1>5 DEF Injection, IsInjective
  <1>7. IsFiniteSet(1..c) /\ Cardinality(1..c) = c
    BY <1>2, FS_Interval
  <1>8. rank \in Surjection(S, 1..c)
    <2> HIDE DEF rank
    <2>1. Cardinality(S) = Cardinality(1..c)
      BY <1>7
    <2> HIDE DEF c
    <2> QED
      BY <1>2, <1>6, <1>7, <2>1, FS_Injection
  <1>9. \A k \in 1..c : \E i \in S : Rank(S, i) = k
    BY <1>8 DEF Surjection
  <1> QED
    BY <1>2, <1>3, <1>5, <1>9

(* The indices of what filter leaves of a list. *)
Remaining(s, S) == {i \in DOMAIN s : s[i] \notin S}

(* What filter leaves of a list. *)
LEMMA WithoutFacts ==
    ASSUME NEW T, NEW s \in Seq(T), NEW S
    PROVE  /\ Cardinality(Remaining(s, S)) \in Nat
           /\ DOMAIN Without(s, S) = 1..Cardinality(Remaining(s, S))
           /\ \A k \in DOMAIN Without(s, S) :
                 \E i \in DOMAIN s : Without(s, S)[k] = s[i] /\ s[i] \notin S
           /\ Without(s, S) \in Seq(T \ S)
           /\ \A i \in DOMAIN s : s[i] \notin S => \E k \in DOMAIN Without(s, S) : Without(s, S)[k] = s[i]
           /\ (\A i, j \in DOMAIN s : s[i] = s[j] => i = j)
                => \A i, j \in DOMAIN Without(s, S) : Without(s, S)[i] = Without(s, S)[j] => i = j
  <1> DEFINE kept == Remaining(s, S)
             c == Cardinality(kept)
             t == Without(s, S)
             at(k) == CHOOSE i \in kept : Rank(kept, i) = k
  <1>0. PICK n \in Nat : n = Len(s)
    OBVIOUS
  <1>1. DOMAIN s = 1..n /\ kept \subseteq 1..n /\ \A i \in kept : i \in DOMAIN s /\ s[i] \notin S
    BY <1>0 DEF Remaining
  <1>a. t = [k \in 1..c |-> s[at(k)]]
    BY DEF Without, Rank, Remaining
  <1>b. \A i \in DOMAIN s : s[i] \notin S => i \in kept
    BY DEF Remaining
  <1> HIDE DEF kept
  <1>2. /\ c \in Nat
        /\ \A i \in kept : Rank(kept, i) \in 1..c
        /\ \A k \in 1..c : \E i \in kept : Rank(kept, i) = k
        /\ \A i, j \in kept : Rank(kept, i) = Rank(kept, j) => i = j
    BY <1>1, RankFacts
  <1> HIDE DEF t, c
  <1>3. \A k \in 1..c : at(k) \in kept /\ Rank(kept, at(k)) = k
    BY <1>2
  <1> HIDE DEF at
  <1>4. DOMAIN t = 1..c /\ \A k \in 1..c : t[k] = s[at(k)]
    BY <1>a
  <1>c. \A i \in DOMAIN s : s[i] \in T
    OBVIOUS
  <1>5. \A k \in 1..c : t[k] \in T \ S
    <2> SUFFICES ASSUME NEW k \in 1..c PROVE t[k] \in T \ S
      OBVIOUS
    <2>1. at(k) \in kept
      BY <1>3
    <2>2. s[at(k)] \in T /\ s[at(k)] \notin S
      BY <1>1, <1>c, <2>1, Zenon
    <2> QED
      BY <1>4, <2>2
  <1>6. t \in Seq(T \ S)
    <2>1. t \in [1..c -> T \ S]
      BY <1>a, <1>4, <1>5
    <2> QED
      BY <1>2, <2>1
  <1>d. \A k \in DOMAIN t : \E i \in DOMAIN s : t[k] = s[i] /\ s[i] \notin S
    BY <1>1, <1>3, <1>4, Zenon
  <1>7. ASSUME NEW i \in DOMAIN s, s[i] \notin S PROVE \E k \in DOMAIN t : t[k] = s[i]
    <2>1. i \in kept
      BY <1>7, <1>b
    <2>2. PICK k \in 1..c : k = Rank(kept, i)
      BY <1>2, <2>1
    <2>3. at(k) = i
      BY <1>2, <1>3, <2>1, <2>2
    <2> QED
      BY <1>4, <2>3
  <1>8. ASSUME \A i, j \in DOMAIN s : s[i] = s[j] => i = j,
               NEW i \in DOMAIN t, NEW j \in DOMAIN t, t[i] = t[j]
        PROVE  i = j
    <2>1. at(i) \in kept /\ at(j) \in kept /\ s[at(i)] = s[at(j)]
      BY <1>3, <1>4, <1>8
    <2>2. at(i) = at(j)
      BY <1>1, <1>8, <2>1
    <2>3. Rank(kept, at(i)) = i /\ Rank(kept, at(j)) = j
      BY <1>3, <1>4
    <2> QED
      BY <2>2, <2>3
  <1> QED
    BY <1>2, <1>4, <1>6, <1>d, <1>7, <1>8 DEF c, t, kept

(* The list names every item, and none twice. *)
Lists(keys, items) ==
    /\ keys \in Seq(DOMAIN items)
    /\ \A k \in DOMAIN items : \E i \in DOMAIN keys : keys[i] = k
    /\ \A i, j \in DOMAIN keys : keys[i] = keys[j] => i = j

Kept(c) == Lists(c.keys, c.items) /\ (Capacity > 0 => Len(c.keys) <= Capacity)

LEMMA KeptMatches ==
    ASSUME NEW c, Kept(c)
    PROVE  KeysMatchItems(c)
  <1> DEFINE n == Len(c.keys)
             D == DOMAIN c.items
  <1>1. /\ n \in Nat /\ DOMAIN c.keys = 1..n /\ c.keys \in [1..n -> D]
        /\ \A k \in D : \E i \in 1..n : c.keys[i] = k
        /\ \A i, j \in 1..n : c.keys[i] = c.keys[j] => i = j
    BY DEF Kept, Lists
  <1>2. c.keys \in Bijection(1..n, D)
    BY <1>1 DEF Bijection, Injection, Surjection, IsInjective
  <1>3. IsFiniteSet(1..n) /\ Cardinality(1..n) = n
    BY <1>1, FS_Interval
  <1>4. ExistsBijection(1..n, D)
    BY <1>2 DEF ExistsBijection
  <1>5. ToSet(c.keys) = D
    BY <1>1 DEF ToSet
  <1> HIDE DEF n, D
  <1>6. Cardinality(D) = n
    BY <1>3, <1>4, FS_Bijection
  <1> QED
    BY <1>5, <1>6 DEF KeysMatchItems, Kept, n, D

(* The items without those under the keys in S. *)
Minus(items, S) == [k \in DOMAIN items \ S |-> items[k]]

(* Removing a set of items and their keys. *)
LEMMA RemovedLists ==
    ASSUME NEW keys, NEW items, Lists(keys, items), NEW S
    PROVE  /\ Lists(Without(keys, S), Minus(items, S))
           /\ Len(Without(keys, S)) = Cardinality(Remaining(keys, S))
           /\ Len(Without(keys, S)) \in Nat
  <1> DEFINE t == Without(keys, S)
             kept == Remaining(keys, S)
             left == Minus(items, S)
  <1>0. PICK D : D = DOMAIN items
    OBVIOUS
  <1>1. /\ keys \in Seq(D)
        /\ \A k \in D : \E i \in DOMAIN keys : keys[i] = k
        /\ \A i, j \in DOMAIN keys : keys[i] = keys[j] => i = j
        /\ DOMAIN left = D \ S
    BY <1>0 DEF Lists, Minus
  <1>2. /\ t \in Seq(D \ S) /\ DOMAIN t = 1..Cardinality(kept) /\ Cardinality(kept) \in Nat
        /\ \A i \in DOMAIN keys : keys[i] \notin S => \E k \in DOMAIN t : t[k] = keys[i]
        /\ \A i, j \in DOMAIN t : t[i] = t[j] => i = j
    BY <1>1, WithoutFacts
  <1> HIDE DEF t, kept, left
  <1>3. Lists(t, left)
    BY <1>1, <1>2 DEF Lists
  <1>4. Len(t) = Cardinality(kept) /\ Len(t) \in Nat
    <2>1. Len(t) \in Nat /\ DOMAIN t = 1..Len(t)
      BY <1>2
    <2>2. \A m, n \in Nat : 1..m = 1..n => m = n
      <3> SUFFICES ASSUME NEW m \in Nat, NEW n \in Nat, 1..m = 1..n PROVE m = n
        OBVIOUS
      <3>1. \A k \in Nat : k \in 1..m <=> k \in 1..n
        OBVIOUS
      <3> QED
        BY <3>1
    <2> QED
      BY <1>2, <2>1, <2>2
  <1> QED
    BY <1>3, <1>4 DEF t, kept, left

LEMMA SetItemKept ==
    ASSUME NEW c, Kept(c), NEW key, NEW val, NEW now
    PROVE  Kept(SetItem(c, key, val, now))
  <1> DEFINE left == Minus(c.items, {key})
             items == Stored(c, key, val, now)
             rest == Without(c.keys, {key})
             keys == Append(rest, key)
             oldest == IF Capacity = 0 THEN {} ELSE ToSet(SubSeq(keys, 1, Len(keys) - Capacity))
             out == Evict(items, keys)
             kept == Remaining(keys, oldest)
  <1>1. Lists(rest, left)
    BY RemovedLists DEF Kept
  <1>2. DOMAIN items = DOMAIN left \cup {key} /\ key \notin DOMAIN left
    BY DEF Stored, Minus
  <1> HIDE DEF items, rest
  <1>3. /\ rest \in Seq(DOMAIN left) /\ Len(rest) \in Nat /\ DOMAIN rest = 1..Len(rest)
        /\ \A k \in DOMAIN left : \E i \in DOMAIN rest : rest[i] = k
        /\ \A i, j \in DOMAIN rest : rest[i] = rest[j] => i = j
    <2>1. PICK D : D = DOMAIN left
      OBVIOUS
    <2>2. rest \in Seq(D)
      BY <1>1, <2>1 DEF Lists
    <2>3. Len(rest) \in Nat /\ DOMAIN rest = 1..Len(rest)
      BY <2>2
    <2> QED
      BY <1>1, <2>3 DEF Lists
  <1> HIDE DEF left
  <1>4. /\ keys \in Seq(DOMAIN items) /\ Len(keys) = Len(rest) + 1
        /\ DOMAIN keys = 1..Len(keys)
        /\ \A i \in 1..Len(rest) : keys[i] = rest[i] /\ keys[i] \in DOMAIN left
        /\ keys[Len(keys)] = key
    BY <1>2, <1>3
  <1> HIDE DEF keys
  <1>5. Lists(keys, items)
    <2>1. ASSUME NEW k \in DOMAIN items PROVE \E i \in DOMAIN keys : keys[i] = k
      <3>1. CASE k = key
        BY <1>3, <1>4, <3>1
      <3>2. CASE k # key
        BY <1>2, <1>3, <1>4, <3>2
      <3> QED
        BY <3>1, <3>2
    <2>2. ASSUME NEW i \in DOMAIN keys, NEW j \in DOMAIN keys, keys[i] = keys[j] PROVE i = j
      <3>1. (i \in 1..Len(rest) \/ i = Len(keys)) /\ (j \in 1..Len(rest) \/ j = Len(keys))
        BY <1>3, <1>4
      <3> QED
        BY <1>2, <1>3, <1>4, <2>2, <3>1
    <2> QED
      BY <1>4, <2>1, <2>2 DEF Lists
  <1>6. out.items = Minus(items, oldest) /\ out.keys = Without(keys, oldest)
    BY DEF Evict, Minus
  <1> HIDE DEF out, oldest
  <1>7. Lists(out.keys, out.items) /\ Len(out.keys) = Cardinality(kept)
    BY <1>5, <1>6, RemovedLists
  <1>8. ASSUME Capacity > 0 PROVE Len(out.keys) <= Capacity
    <2> DEFINE m == Len(keys) - Capacity
               b == IF m > 0 THEN m + 1 ELSE 1
    <2>1. Capacity \in Nat /\ Len(keys) \in Nat
      BY <1>3, <1>4, CacheAssumption
    <2>2. ASSUME NEW i \in 1..m, m > 0 PROVE keys[i] \in oldest
      <3>1. oldest = ToSet(SubSeq(keys, 1, m))
        BY <1>8, <2>1 DEF oldest
      <3>2. m \in 1..Len(keys)
        BY <2>1, <2>2
      <3>3. i \in DOMAIN SubSeq(keys, 1, m) /\ SubSeq(keys, 1, m)[i] = keys[i]
        BY <1>4, <2>1, <2>2, <3>2
      <3> QED
        BY <3>1, <3>3 DEF ToSet
    <2>3. kept \subseteq b..Len(keys)
      BY <1>4, <2>1, <2>2 DEF Remaining
    <2>4. b \in Nat /\ IsFiniteSet(b..Len(keys)) /\ Cardinality(b..Len(keys)) <= Capacity
      <3>1. b \in Nat
        BY <2>1
      <3> HIDE DEF b
      <3>2. /\ IsFiniteSet(b..Len(keys))
            /\ Cardinality(b..Len(keys)) = IF b > Len(keys) THEN 0 ELSE Len(keys) - b + 1
        <4>1. \A a, d \in Int : /\ IsFiniteSet(a..d)
                                /\ Cardinality(a..d) = IF a > d THEN 0 ELSE d - a + 1
          BY FS_Interval
        <4>2. PICK l \in Int : l = Len(keys)
          BY <2>1
        <4>3. b \in Int
          BY <3>1
        <4> QED
          BY <4>1, <4>2, <4>3, Zenon
      <3>3. b > Len(keys) \/ Len(keys) - b + 1 <= Capacity
        BY <1>8, <2>1 DEF b
      <3> QED
        BY <2>1, <3>1, <3>2, <3>3
    <2> HIDE DEF b, kept
    <2>5. Cardinality(kept) <= Cardinality(b..Len(keys)) /\ IsFiniteSet(kept)
      BY <2>3, <2>4, FS_Subset
    <2>6. Cardinality(kept) \in Nat /\ Cardinality(b..Len(keys)) \in Nat
      BY <2>4, <2>5, FS_CardinalityType
    <2> QED
      BY <1>7, <2>1, <2>4, <2>5, <2>6
  <1>9. SetItem(c, key, val, now) = out
    BY DEF SetItem, out, items, keys, rest
  <1> QED
    BY <1>7, <1>8, <1>9 DEF Kept

LEMMA AfterGetKept ==
    ASSUME NEW c, Kept(c), NEW key, NEW now
    PROVE  Kept(AfterGet(c, key, now))
  <1>1. CASE AfterGet(c, key, now) = c
    BY <1>1
  <1>2. CASE AfterGet(c, key, now) = RemoveKey(c, key)
    <2> DEFINE t == Without(c.keys, {key})
               kept == Remaining(c.keys, {key})
    <2>1. /\ RemoveKey(c, key).items = Minus(c.items, {key})
          /\ RemoveKey(c, key).keys = t
      BY DEF RemoveKey, Minus
    <2>2. Lists(t, RemoveKey(c, key).items) /\ Len(t) = Cardinality(kept)
      BY <2>1, RemovedLists DEF Kept
    <2>3. Len(c.keys) \in Nat /\ kept \subseteq 1..Len(c.keys)
      BY DEF Kept, Lists, Remaining
    <2>4. IsFiniteSet(1..Len(c.keys)) /\ Cardinality(1..Len(c.keys)) = Len(c.keys)
      BY <2>3, FS_Interval
    <2> HIDE DEF kept, t
    <2>5. Cardinality(kept) <= Cardinality(1..Len(c.keys)) /\ IsFiniteSet(kept)
      BY <2>3, <2>4, FS_Subset
    <2>6. Cardinality(kept) \in Nat
      BY <2>5, FS_CardinalityType
    <2>7. Capacity > 0 => Len(t) <= Capacity
      BY <2>2, <2>3, <2>4, <2>5, <2>6, CacheAssumption DEF Kept
    <2> QED
      BY <1>2, <2>1, <2>2, <2>7 DEF Kept
  <1> QED
    BY <1>1, <1>2 DEF AfterGet

LEMMA EmptyKept == Kept(EmptyCache)
  <1>1. EmptyCache.keys = <<>> /\ DOMAIN EmptyCache.items = {}
    BY DEF EmptyCache
  <1> QED
    BY <1>1, CacheAssumption DEF Kept, Lists

(* The list of keys enumerates the items of the cache, each once and       *)
(* within the capacity, over eviction, expiry, clearing and late answers:  *)
(* set never removes the wrong item nor loops.                             *)
THEOREM CacheKeysInStep == Spec => []CacheKeysMatch
  <1>1. Init => Kept(cache)
    BY EmptyKept DEF Init
  <1>2. Kept(cache) /\ [Next]_vars => Kept(cache)'
    <2> SUFFICES ASSUME Kept(cache), [Next]_vars PROVE Kept(cache')
      BY DEF Kept, Lists
    <2>1. CASE QueryNoColumns \/ QuerySend
      BY <2>1, AfterGetKept DEF QueryNoColumns, QuerySend
    <2>2. ASSUME NEW i \in DOMAIN flights, ListAnswer(i) PROVE Kept(cache')
      <3>1. cache' = SetItem(cache, CacheKey(flights[i]), [query |-> flights[i].query], clock)
        BY <2>2 DEF ListAnswer
      <3> QED
        BY <3>1, SetItemKept
    <2>3. ASSUME NEW o \in Queries, SendQueryNow(o) PROVE Kept(cache')
      BY <2>3, EmptyKept DEF SendQueryNow
    <2>4. CASE ClickRow
      BY <2>4, SetItemKept DEF ClickRow
    <2>5. CASE \/ QueryFromCache \/ ConfigAnswer \/ RangesAnswer \/ Return \/ Tick \/ UNCHANGED vars
               \/ \E i \in DOMAIN flights : ListFails(i)
      BY <2>5 DEF QueryFromCache, ConfigAnswer, RangesAnswer, Return, Tick, vars, ListFails
    <2> QED
      BY <2>1, <2>2, <2>3, <2>4, <2>5 DEF Next
  <1>3. Kept(cache) => CacheKeysMatch
    BY KeptMatches DEF CacheKeysMatch
  <1> QED
    BY <1>1, <1>2, <1>3, PTL DEF Spec
=============================================================================
