----------------------------- MODULE StatLayers -----------------------------
(***************************************************************************)
(* The storage of the key visualizer (pkg/keyvisual/storage): layers of    *)
(* ring buffers, each compacting its oldest axes into one axis of the next *)
(* layer, mirrored row by row in the table keyviz_axis and rebuilt from it *)
(* when the service starts.                                                *)
(*                                                                         *)
(* An axis is abstracted to the set of samples compacted into it, a sample *)
(* being named by its end time.  Append holds the mutex of Stat, so no     *)
(* reader sees it half done; but its SQL statements are separate           *)
(* transactions, and the process may die between any two of them.  One     *)
(* action is one SQL statement with the memory updates around it; the      *)
(* nested calls Append -> Reduce -> Next.Append are a frame per layer.     *)
(* SQL statements are taken to succeed (the code ignores their errors).    *)
(***************************************************************************)
EXTENDS Naturals, FiniteSets, Sequences

CONSTANTS N,           \* number of layers
          LayerLen,    \* Len of each LayerConfig
          LayerRatio,  \* Ratio of each LayerConfig
          Tables,      \* what may be in the table at first: nothing, or the
                       \* rows an earlier version left
          FirstTime,   \* when the service starts first
          MaxTime,     \* bound on the clock
          MaxCrashes   \* bound on restarts

Nums == 0 .. N - 1

(* A compacting layer keeps something when it compacts: were Ratio = Len,  *)
(* a restart in the middle would find layer 0 without data and clear the   *)
(* table.                                                                  *)
ASSUME StatAssumption ==
  /\ N \in Nat \ {0}
  /\ LayerLen \in [Nums -> Nat \ {0}]
  /\ LayerRatio \in [Nums -> Nat]
  /\ \A i \in Nums : LayerRatio[i] < LayerLen[i] \/ LayerRatio[i] = 0
  /\ FirstTime \in Nat /\ MaxTime \in Nat /\ MaxCrashes \in Nat

(* What an earlier version left is what Append and Restore leave behind:   *)
(* rows with different times in each layer, no layer younger than the one  *)
(* above it, no layer of this version without a row, and no sample in two  *)
(* axes that Restore would load.                                           *)
ASSUME TablesAssumption ==
  \A old \in Tables :
    /\ IsFiniteSet(old)
    /\ \A r \in old : /\ r \in [layer : Nat, time : Nat, axis : SUBSET Nat]
                      /\ r.time < FirstTime /\ \A s \in r.axis : s <= r.time
                      /\ \A i \in Nums \cup 0 .. r.layer : \E q \in old : q.layer = i
    /\ \A r, q \in old :
         /\ r.layer = q.layer /\ r.time = q.time => r = q
         /\ r.layer > q.layer => r.time <= q.time
         /\ r # q /\ r.axis \cap q.axis # {} =>
              \E p \in {r, q} : \A x \in old : x.layer = p.layer => p.time <= x.time

(* What more the configuration of the service has: every layer compacts    *)
(* but the last one, which drops; and a table was left by complete calls   *)
(* of Append, with rings no longer than the present ones but for layer 0.  *)
Compacting == \A i \in 0 .. N - 2 : LayerRatio[i] > 0

Gapless ==
  \A old \in Tables \ {{}}, i \in 0 .. N - 2 :
    /\ Cardinality({r \in old : r.layer = i + 1}) <= LayerLen[i + 1] + 1
    /\ \E r, q \in old :
         /\ r.layer = i /\ \A x \in old : x.layer = i => r.time <= x.time
         /\ q.layer = i + 1 /\ \A x \in old : x.layer = i + 1 => x.time <= q.time
         /\ r.time = q.time

VARIABLES layers,   \* the layerStats
          table,    \* whether the table exists
          db,       \* its rows
          call,     \* per layer, the frame of layerStat.Append
          phase,    \* "boot" and "mark": Restore is running; "ready": it is done
          marked,   \* start rows createStartAxisModels has inserted
          now,      \* the clock
          appended, \* the samples given to Stat.Append so far
          crashes,  \* restarts so far
          torn      \* some restart interrupted Restore

vars == <<layers, table, db, call, phase, marked, now, appended, crashes, torn>>

-----------------------------------------------------------------------------
newLayerStat(i, startTime) ==
  [start |-> startTime, end |-> startTime,
   axes  |-> [k \in 0 .. LayerLen[i] - 1 |-> {}],
   times |-> [k \in 0 .. LayerLen[i] - 1 |-> 0],
   head |-> 0, tail |-> 0, empty |-> TRUE]

NoFrame == [pc |-> "none", axis |-> {}, time |-> 0, left |-> 0, acc |-> {}]

DropsSmallRatio(i) == LayerRatio[i] <= 1 \/ i = N - 1

(* Whether Reduce drops the oldest axis instead of compacting several.     *)
Drops(i) == LayerRatio[i] = 0 \/ i = N - 1

(* Append finds the ring full and calls Reduce first.                      *)
FullNever(i) == FALSE
Full(i) == layers[i].head = layers[i].tail /\ ~layers[i].empty

(* The frame of a call layers[i].Append(axis, time).                       *)
Frame(i, axis, time) ==
  [pc |-> IF Full(i) THEN "reduce" ELSE "insert", axis |-> axis, time |-> time,
   left |-> IF Drops(i) THEN 1 ELSE LayerRatio[i], acc |-> {}]

Row(i, time, axis) == [layer |-> i, time |-> time, axis |-> axis]
RowsOf(i) == {r \in db : r.layer = i}

(* No Append is in progress: what a reader sees once it has the mutex.     *)
Quiet == phase = "ready" /\ \A i \in Nums : call[i].pc = "none"

-----------------------------------------------------------------------------
(* Stat.Append and the cascade below it.                                   *)

StatAppend ==
  /\ Quiet
  /\ now < MaxTime
  /\ now' = now + 1
  /\ appended' = appended \cup {now'}
  /\ call' = [call EXCEPT ![0] = Frame(0, {now'}, now')]
  /\ UNCHANGED <<layers, table, db, phase, marked, crashes, torn>>

(* DeleteFirstAxisFromDb deletes the row at StartTime; the row of the axis *)
(* that leaves the ring then stands for the new StartTime.                 *)
DeletedRowsOnlyLast(i) == {r \in RowsOf(i) : r.time = layers[i].start /\ Drops(i)}
DeletedRows(i) == {r \in RowsOf(i) : r.time = layers[i].start}

(* The ring without its oldest axis.                                       *)
WithoutFirst(l, i) ==
  [l EXCEPT !.start = l.times[l.head],
            !.axes[l.head] = {},
            !.head = (l.head + 1) % LayerLen[i]]

(* One round of the loop in Reduce, or its early return when the layer     *)
(* drops.  After the last round the compacted axis goes to the next layer. *)
Reduce(i) ==
  /\ call[i].pc = "reduce"
  /\ LET l   == layers[i]
         acc == call[i].acc \cup l.axes[l.head]
     IN /\ db' = db \ DeletedRows(i)
        /\ layers' = [layers EXCEPT ![i] = WithoutFirst(l, i)]
        /\ IF call[i].left > 1
           THEN call' = [call EXCEPT ![i].left = @ - 1, ![i].acc = acc]
           ELSE IF Drops(i)
           THEN call' = [call EXCEPT ![i].pc = "insert"]
           ELSE call' = [call EXCEPT ![i].pc = "wait", ![i + 1] = Frame(i + 1, acc, layers'[i].start)]
  /\ UNCHANGED <<table, phase, marked, now, appended, crashes, torn>>

(* InsertLastAxisToDb and the ring's new axis; the frame returns to the    *)
(* Reduce that called it.                                                  *)
WithLastForgetEnd(l, i, axis, time) ==
  [l EXCEPT !.axes[l.tail] = axis, !.times[l.tail] = time, !.empty = FALSE,
            !.tail = (l.tail + 1) % LayerLen[i]]

WithLast(l, i, axis, time) ==
  [l EXCEPT !.axes[l.tail] = axis, !.times[l.tail] = time, !.empty = FALSE,
            !.end = time, !.tail = (l.tail + 1) % LayerLen[i]]

InsertLast(i) ==
  /\ call[i].pc = "insert"
  /\ db' = db \cup {Row(i, call[i].time, call[i].axis)}
  /\ layers' = [layers EXCEPT ![i] = WithLast(layers[i], i, call[i].axis, call[i].time)]
  /\ call' = [j \in Nums |-> IF j = i THEN NoFrame
                             ELSE IF j + 1 = i THEN [call[j] EXCEPT !.pc = "insert"]
                             ELSE call[j]]
  /\ UNCHANGED <<table, phase, marked, now, appended, crashes, torn>>

-----------------------------------------------------------------------------
(* Restore.                                                                *)

(* The k-th of a set of rows ordered by time, from 0.                      *)
RowAt(rows, k) ==
  CHOOSE r \in rows : Cardinality({q \in rows : q.time < r.time}) = k

(* The rows of a layer beyond what its ring can hold: the newest ones.     *)
Surplus(i) ==
  {r \in RowsOf(i) : Cardinality({q \in RowsOf(i) : q.time < r.time}) > LayerLen[i]}

(* Layer i as rebuilt from its rows, the first of which only holds the     *)
(* start time.                                                             *)
LoadedFromFirst(i) ==
  LET rows == RowsOf(i)
      n    == IF Cardinality(rows) > LayerLen[i] THEN LayerLen[i] ELSE Cardinality(rows)
  IN [start |-> RowAt(rows, 0).time,
      end   |-> RowAt(rows, n - 1).time,
      axes  |-> [k \in 0 .. LayerLen[i] - 1 |-> IF k < n THEN RowAt(rows, k).axis ELSE {}],
      times |-> [k \in 0 .. LayerLen[i] - 1 |-> IF k < n THEN RowAt(rows, k).time ELSE 0],
      head |-> 0, tail |-> n % LayerLen[i], empty |-> n = 0]

Loaded(i) ==
  LET rows == RowsOf(i)
      m    == Cardinality(rows) - 1
      n    == IF m > LayerLen[i] THEN LayerLen[i] ELSE m
  IN [start |-> RowAt(rows, 0).time,
      end   |-> RowAt(rows, n).time,
      axes  |-> [k \in 0 .. LayerLen[i] - 1 |-> IF k < n THEN RowAt(rows, k + 1).axis ELSE {}],
      times |-> [k \in 0 .. LayerLen[i] - 1 |-> IF k < n THEN RowAt(rows, k + 1).time ELSE 0],
      head |-> 0, tail |-> n % LayerLen[i], empty |-> m = 0]

(* The loop over layer numbers stops at the first one without rows.        *)
Visited(i) == \A j \in 0 .. i : RowsOf(j) # {}

NoTable ==
  /\ phase = "boot" /\ ~table
  /\ table' = TRUE
  /\ phase' = "mark"
  /\ UNCHANGED <<layers, db, call, marked, now, appended, crashes, torn>>

(* Layer 0 has its start row only: nothing was stored, start afresh.       *)
ClearTable ==
  /\ phase = "boot" /\ table
  /\ Cardinality(RowsOf(0)) = 1
  /\ db' = {}
  /\ phase' = "mark"
  /\ UNCHANGED <<layers, table, call, marked, now, appended, crashes, torn>>

(* One row of createStartAxisModels.                                       *)
InsertStart ==
  /\ phase = "mark"
  /\ db' = db \cup {Row(marked, layers[marked].start, {})}
  /\ marked' = marked + 1
  /\ phase' = IF marked' = N THEN "ready" ELSE "mark"
  /\ UNCHANGED <<layers, table, call, now, appended, crashes, torn>>

(* Load the layers; delete the rows of layers that no longer exist and     *)
(* those that do not fit.                                                  *)
LoadLayers ==
  /\ phase = "boot" /\ table
  /\ Cardinality(RowsOf(0)) # 1
  /\ layers' = [i \in Nums |-> IF Visited(i) THEN Loaded(i) ELSE layers[i]]
  /\ db' = db \ {r \in db : Visited(r.layer) /\ (r.layer >= N \/ r \in Surplus(r.layer))}
  /\ phase' = "ready"
  /\ UNCHANGED <<table, call, marked, now, appended, crashes, torn>>

-----------------------------------------------------------------------------
(* The process dies, or keyvisual is switched off, and a new Stat starts.  *)

Restart ==
  /\ crashes < MaxCrashes
  /\ now < MaxTime
  /\ crashes' = crashes + 1
  /\ torn' = (torn \/ phase = "mark")
  /\ now' = now + 1
  /\ layers' = [i \in Nums |-> newLayerStat(i, now')]
  /\ call' = [i \in Nums |-> NoFrame]
  /\ phase' = "boot"
  /\ marked' = 0
  /\ UNCHANGED <<table, db, appended>>

Init ==
  /\ now = FirstTime
  /\ layers = [i \in Nums |-> newLayerStat(i, now)]
  /\ db \in Tables
  /\ table = (db # {})
  /\ call = [i \in Nums |-> NoFrame]
  /\ phase = "boot"
  /\ marked = 0
  /\ appended = {}
  /\ crashes = 0
  /\ torn = FALSE

Next ==
  \/ StatAppend
  \/ \E i \in Nums : Reduce(i) \/ InsertLast(i)
  \/ NoTable \/ ClearTable \/ InsertStart \/ LoadLayers
  \/ Restart

Spec == Init /\ [][Next]_vars

-----------------------------------------------------------------------------
(* Reading the layers.                                                     *)

(* The number of axes in a ring, as Range computes it.                     *)
Size(l, i) ==
  IF l.empty THEN 0
  ELSE IF l.tail > l.head THEN l.tail - l.head ELSE l.tail + LayerLen[i] - l.head

RingTime(l, i, k) == l.times[(l.head + k) % LayerLen[i]]
RingAxis(l, i, k) == l.axes[(l.head + k) % LayerLen[i]]

(* sort.Search: the first index below n that is in hits, n if none is.     *)
Search(n, hits) ==
  CHOOSE k \in 0 .. n : (k = n \/ k \in hits) /\ \A j \in 0 .. k - 1 : j \notin hits

(* layerStat.Range, given what Next.Range returned.                        *)
LayerRangeExclusive(i, startTime, endTime, rest) ==
  LET l     == layers[i]
      size  == Size(l, i)
      start == Search(size, {k \in 0 .. size - 1 : RingTime(l, i, k) > startTime})
      end   == Search(size, {k \in 0 .. size - 1 : RingTime(l, i, k) >= endTime})
      first == IF start = 0 THEN l.start ELSE RingTime(l, i, start - 1)
  IN IF l.empty \/ ~(startTime < l.end /\ endTime > l.start) THEN rest
     ELSE [times |-> (IF rest.times = <<>> THEN <<first>> ELSE rest.times)
                       \o [k \in 1 .. end - start |-> RingTime(l, i, start + k - 1)],
           axes  |-> rest.axes \o [k \in 1 .. end - start |-> RingAxis(l, i, start + k - 1)]]

LayerRange(i, startTime, endTime, rest) ==
  LET l     == layers[i]
      size  == Size(l, i)
      start == Search(size, {k \in 0 .. size - 1 : RingTime(l, i, k) > startTime})
      bound == Search(size, {k \in 0 .. size - 1 : RingTime(l, i, k) >= endTime})
      end   == IF bound # size THEN bound + 1 ELSE bound
      first == IF start = 0 THEN l.start ELSE RingTime(l, i, start - 1)
  IN IF l.empty \/ ~(startTime < l.end /\ endTime > l.start) THEN rest
     ELSE [times |-> (IF rest.times = <<>> THEN <<first>> ELSE rest.times)
                       \o [k \in 1 .. end - start |-> RingTime(l, i, start + k - 1)],
           axes  |-> rest.axes \o [k \in 1 .. end - start |-> RingAxis(l, i, start + k - 1)]]

rangeRoot(startTime, endTime) ==
  LET from[i \in 0 .. N] == IF i = N THEN [times |-> <<>>, axes |-> <<>>]
                            ELSE LayerRange(i, startTime, endTime, from[i + 1])
  IN from[0]

-----------------------------------------------------------------------------
(* Properties.                                                             *)

(* The axes of layer i with the time each begins and ends at.              *)
Entries(l, i) ==
  {[from |-> IF k = 0 THEN l.start ELSE RingTime(l, i, k - 1),
    to |-> RingTime(l, i, k), axis |-> RingAxis(l, i, k)] : k \in 0 .. Size(l, i) - 1}

Stored == UNION {e.axis : e \in UNION {Entries(layers[i], i) : i \in Nums}}

(* Restore would rebuild from the table each layer as it is in memory. *)
TableMirrorsMemory ==
  Quiet /\ ~layers[0].empty =>
    \A i \in Nums :
      /\ RowsOf(i) # {}
      /\ LET l == Loaded(i) IN
         /\ Entries(l, i) = Entries(layers[i], i)
         /\ l.start = layers[i].start /\ l.end = layers[i].end
         /\ l.empty = layers[i].empty

(* A restart is transparent whenever no Append is in progress, wherever    *)
(* the process died before, Append included, except between CREATE TABLE   *)
(* and the last of the start rows.                                         *)
RestartIsTransparent == ~torn => TableMirrorsMemory

(* The same after any restart at all. *)
AnyRestartIsTransparent == TableMirrorsMemory

(* Wherever the process dies, the table never holds a sample in two axes   *)
(* that Restore would load: Reduce deletes rows before the compacted axis  *)
(* is inserted.                                                            *)
SampleStoredOnce ==
  LET kept == {r \in db : \E q \in RowsOf(r.layer) : q.time < r.time}
  IN \A r, q \in kept : r # q => r.axis \cap q.axis = {}

(* Between restarts no sample is lost before it has gone through every     *)
(* layer: what is stored is all that was appended since the start of the   *)
(* last layer.                                                             *)
NothingLostInCompaction ==
  Quiet /\ crashes = 0 =>
    {s \in Stored : s > FirstTime} = {s \in appended : s > layers[N - 1].start}

(* The layers follow each other in time, oldest last, and each ring is     *)
(* strictly ordered between its start and its end.  A layer's axes begin   *)
(* exactly where the next layer's end, unless a restart lost the axes in   *)
(* between.  (An interrupted Restore leaves a layer without its start.)    *)
LayersInOrder ==
  Quiet /\ ~torn =>
    /\ \A i \in Nums : LET l == layers[i] IN
         /\ \A e \in Entries(l, i) : e.from < e.to
         /\ l.end = IF l.empty THEN l.start ELSE RingTime(l, i, Size(l, i) - 1)
    /\ \A i \in 0 .. N - 2 :
         /\ layers[i + 1].end <= layers[i].start
         /\ crashes = 0 => layers[i + 1].end = layers[i].start

(* The table does not grow: at any moment a layer has at most one row per  *)
(* slot of its ring and its start row.                                     *)
TableBounded == phase = "ready" => \A i \in Nums : Cardinality(RowsOf(i)) <= LayerLen[i] + 1

(* What Range returns is what its definition asks for: the axes, from all  *)
(* layers and in order of time, that overlap the interval, and one more    *)
(* time than axes, which CreatePlane relies on.                            *)
RangeIsOverlap ==
  Quiet /\ ~torn => \A s \in 0 .. MaxTime, e \in 0 .. MaxTime : s < e =>
    LET r    == rangeRoot(s, e)
        hits == {x \in UNION {Entries(layers[i], i) : i \in Nums} : x.to > s /\ x.from < e}
    IN /\ Len(r.axes) = Cardinality(hits)
       /\ Len(r.times) = IF hits = {} THEN 0 ELSE Len(r.axes) + 1
       /\ \A k \in 1 .. Len(r.times) - 1 : r.times[k] < r.times[k + 1]
       /\ \A x \in hits : \E k \in 1 .. Len(r.axes) : r.axes[k] = x.axis /\ r.times[k + 1] = x.to
       /\ hits # {} => \E x \in hits : x.from = r.times[1]
=============================================================================
