-------------------------- MODULE StatLayersProofs --------------------------
(***************************************************************************)
(* Proofs about the storage of the key visualizer, for every number of     *)
(* layers, every ring length and ratio, and restarts anywhere.             *)
(*                                                                         *)
(* Every action is one SQL statement with the memory around it, so that    *)
(* table and rings correspond at every moment, also within Append.  The    *)
(* invariant says this once (Mirrored); all else it says of the rows.      *)
(***************************************************************************)
EXTENDS StatLayers, FiniteSetTheorems, TLAPS

-----------------------------------------------------------------------------
(* The inductive invariant.                                                *)

Rows == [layer : Nat, time : Nat, axis : SUBSET Nat]

Slots(i) == 0 .. LayerLen[i] - 1

Rings(i) == [start : Nat, end : Nat, axes : [Slots(i) -> SUBSET Nat],
             times : [Slots(i) -> Nat], head : Slots(i), tail : Slots(i), empty : BOOLEAN]

Frames == [pc : {"none", "reduce", "insert", "wait"}, axis : SUBSET Nat, time : Nat,
           left : Nat, acc : SUBSET Nat]

Types ==
  /\ layers \in [Nums -> UNION {Rings(i) : i \in Nums}] /\ \A i \in Nums : layers[i] \in Rings(i)
  /\ call \in [Nums -> Frames]
  /\ table \in BOOLEAN /\ torn \in BOOLEAN
  /\ phase \in {"boot", "mark", "ready"}
  /\ now \in Nat /\ crashes \in Nat /\ appended \in SUBSET Nat

(* The number of axes in ring i.  Between the removal of the only axis and *)
(* the insertion of the next one Size would count a full ring.             *)
Count(i) ==
  IF layers[i].head = layers[i].tail /\ (layers[i].empty \/ call[i].pc = "insert")
  THEN 0 ELSE Size(layers[i], i)

(* The row of the k-th axis of ring i. *)
RingRow(i, k) == Row(i, RingTime(layers[i], i, k), RingAxis(layers[i], i, k))

Busy(i) == call[i].pc # "none"

(* How many axes Reduce takes from layer i. *)
Takes(i) == IF Drops(i) THEN 1 ELSE LayerRatio[i]

(* The table, whatever the service does. *)
First(r) == \A q \in db : q.layer = r.layer => r.time <= q.time

TableOK ==
  /\ IsFiniteSet(db) /\ db \subseteq Rows
  /\ \A r \in db : r.time <= now /\ \A s \in r.axis : s <= r.time
  /\ \A r \in db : \A i \in 0 .. r.layer : \E q \in db : q.layer = i
  /\ \A r, q \in db : r.layer = q.layer /\ r.time = q.time => r = q
  /\ \A r, q \in db : r.layer > q.layer => r.time <= q.time
  /\ \A r, q \in db : ~First(r) /\ ~First(q) /\ r # q => r.axis \cap q.axis = {}
  /\ ~table => db = {}

(* The rows whose axes are in the rings. *)
Held == {r \in db : r.time # layers[r.layer].start}

(* Nothing was loaded yet, or the start rows are being inserted. *)
Unused ==
  /\ layers = [i \in Nums |-> newLayerStat(i, now)]
  /\ call = [i \in Nums |-> NoFrame]

Booting ==
  /\ Unused /\ marked = 0
  /\ \A r \in db : r.time < now
  /\ table /\ ~torn => \A i \in Nums : RowsOf(i) # {}

Marking ==
  /\ Unused /\ table
  /\ marked \in Nums
  /\ db = {Row(i, now, {}) : i \in 0 .. marked - 1}

(* A ring and the rows of its layer. *)
MirroredAt(i) ==
  /\ Count(i) \in 0 .. LayerLen[i]
  /\ layers[i].tail = (layers[i].head + Count(i)) % LayerLen[i]
  /\ \A j, k \in 0 .. Count(i) - 1 : j < k => RingRow(i, j).time < RingRow(i, k).time
  /\ {r \in Held : r.layer = i} = {RingRow(i, k) : k \in 0 .. Count(i) - 1}
  /\ layers[i].end = IF Count(i) = 0 THEN layers[i].start ELSE RingRow(i, Count(i) - 1).time
  /\ layers[i].start <= now

Mirrored == \A i \in Nums : MirroredAt(i)

(* The nested calls: the innermost reduces or inserts, the others wait.    *)
NestedAt(i) ==
  /\ Busy(i) => \A j \in Nums : j < i => call[j].pc = "wait"
  /\ call[i].pc = "wait" => i + 1 \in Nums /\ Busy(i + 1) /\ Count(i) \in 1 .. LayerLen[i] - 1
  /\ call[i].pc = "insert" => Count(i) < LayerLen[i]
  /\ call[i].pc = "reduce" =>
       call[i].left \in 1 .. Takes(i) /\ Count(i) = LayerLen[i] - Takes(i) + call[i].left
  /\ layers[i].empty = TRUE => Count(i) = 0
  /\ Count(i) = 0 /\ call[i].pc # "insert" => layers[i].empty = TRUE

Nested == \A i \in Nums : NestedAt(i)

(* The times of rows and starts. *)
Placed ==
  /\ \A r \in db : r.layer \in Nums
  /\ \A r \in Held, i \in Nums : r.layer <= i => r.time # layers[i].start
  /\ \A r \in db \ Held, q \in Held : r.layer = q.layer => r.time < q.time
  /\ \A r \in db, q \in Held : r.layer > q.layer => r.time < q.time

(* The times in the frames. *)
PendingAt(i) ==
  /\ call[i].time <= now /\ \A s \in call[i].axis : s <= call[i].time
  /\ i > 0 => call[i].time = layers[i - 1].start
  /\ \A r \in db : r.layer >= i => r.time < call[i].time
  /\ \A r \in db : r.layer < i => call[i].time <= r.time
  /\ \A r \in Held : r.layer < i => call[i].time < r.time
  /\ \A j \in Nums : j >= i => layers[j].start # call[i].time
  /\ \A j \in Nums : j < i /\ Busy(j) => call[i].time < call[j].time

Pending ==
  /\ \A i \in Nums : Busy(i) => PendingAt(i)
  /\ \A i \in Nums : call[i].pc = "reduce" =>
       \A s \in call[i].acc, r \in Held : r.layer = i => s <= r.time

(* No sample is in two places. *)
Apart ==
  /\ \A r, q \in Held : r # q => r.axis \cap q.axis = {}
  /\ \A i \in Nums : Busy(i) =>
       /\ \A r \in Held : call[i].axis \cap r.axis = {}
       /\ \A j \in Nums : Busy(j) /\ i # j => call[i].axis \cap call[j].axis = {}
  /\ \A i \in Nums : call[i].pc = "reduce" =>
       /\ \A r \in Held : call[i].acc \cap r.axis = {}
       /\ \A j \in Nums : Busy(j) => call[i].acc \cap call[j].axis = {}

(* Unless a Restore was interrupted, every layer has its start row.        *)
Started == ~torn => \A i \in Nums : \E r \in db : r.layer = i /\ r.time = layers[i].start

Serving == table /\ Mirrored /\ Nested /\ Placed /\ Pending /\ Apart /\ Started

Inv ==
  /\ Types /\ TableOK
  /\ crashes = 0 => ~torn
  /\ phase = "boot" => Booting
  /\ phase = "mark" => Marking
  /\ phase = "ready" => Serving

-----------------------------------------------------------------------------
(* What holds until the first restart.                                     *)

Early ==
  crashes = 0 =>
    /\ now >= FirstTime /\ \A s \in appended : s > FirstTime
    /\ phase # "ready" => now = FirstTime /\ appended = {}
    /\ phase = "boot" => db \in Tables

(* Two layers meet unless an axis is on its way from one to the other.     *)
Joined ==
  crashes = 0 /\ phase = "ready" => \A i \in 0 .. N - 2 :
    ~Busy(i + 1) /\ call[i].pc # "reduce" => layers[i + 1].end = layers[i].start

(* Where the sample s is. *)
Holds(s) ==
  \/ \E r \in Held : s \in r.axis
  \/ \E i \in Nums : Busy(i) /\ s \in call[i].axis
  \/ \E i \in Nums : call[i].pc = "reduce" /\ s \in call[i].acc

(* The samples of this run in the axis are younger than the row q.         *)
Younger(axis, q) == \A s \in axis : s > FirstTime => s > q.time

Complete ==
  /\ \A s \in appended : s > layers[N - 1].start => Holds(s)
  /\ \A s : Holds(s) /\ s > FirstTime => s \in appended
  /\ \A r \in Held, q \in db :
       q.layer > r.layer \/ (q.layer = r.layer /\ q.time < r.time) => Younger(r.axis, q)
  /\ \A i \in Nums, q \in db :
       /\ Busy(i) /\ q.layer >= i => Younger(call[i].axis, q)
       /\ call[i].pc = "reduce" /\ q.layer > i => Younger(call[i].acc, q)

NoneLost == crashes = 0 /\ phase = "ready" => Complete

-----------------------------------------------------------------------------
(* The order of rows by time.                                              *)

Below(rows, r) == {q \in rows : q.time < r.time}

Distinct(rows) ==
  /\ IsFiniteSet(rows) /\ \A r \in rows : r.time \in Nat
  /\ \A r, q \in rows : r.time = q.time => r = q

(* The number of earlier rows grows with the time. *)
LEMMA RankGrows ==
  ASSUME NEW rows, Distinct(rows), NEW r \in rows, NEW q \in rows, r.time < q.time
  PROVE  Cardinality(Below(rows, r)) < Cardinality(Below(rows, q))
  <1>1. Below(rows, r) \in SUBSET Below(rows, q)
    BY DEF Below, Distinct
  <1>2. r \in Below(rows, q) /\ r \notin Below(rows, r)
    BY DEF Below, Distinct
  <1>3. IsFiniteSet(Below(rows, q))
    <2>1. Below(rows, q) \in SUBSET rows
      BY DEF Below
    <2> QED
      BY <2>1, FS_Subset DEF Distinct
  <1>4. /\ IsFiniteSet(Below(rows, r))
        /\ Cardinality(Below(rows, r)) <= Cardinality(Below(rows, q))
        /\ Cardinality(Below(rows, r)) # Cardinality(Below(rows, q))
    BY <1>1, <1>2, <1>3, FS_Subset
  <1>5. Cardinality(Below(rows, r)) \in Nat /\ Cardinality(Below(rows, q)) \in Nat
    BY <1>3, <1>4, FS_CardinalityType
  <1> QED
    BY <1>4, <1>5

(* A row has fewer earlier rows than there are rows. *)
LEMMA RankBounded ==
  ASSUME NEW rows, Distinct(rows), NEW r \in rows
  PROVE  Cardinality(Below(rows, r)) \in 0 .. Cardinality(rows) - 1
  <1>1. Below(rows, r) \in SUBSET rows /\ r \notin Below(rows, r)
    BY DEF Below, Distinct
  <1>2. IsFiniteSet(rows)
    BY DEF Distinct
  <1>3. /\ IsFiniteSet(Below(rows, r))
        /\ Cardinality(Below(rows, r)) <= Cardinality(rows)
        /\ Cardinality(Below(rows, r)) # Cardinality(rows)
    BY <1>1, <1>2, FS_Subset
  <1>4. Cardinality(Below(rows, r)) \in Nat /\ Cardinality(rows) \in Nat
    BY <1>2, <1>3, FS_CardinalityType
  <1> QED
    BY <1>3, <1>4

(* The k-th row exists, and every row is the k-th for its k. *)
LEMMA RowAtFacts ==
  ASSUME NEW rows, Distinct(rows)
  PROVE  /\ Cardinality(rows) \in Nat
         /\ \A k \in 0 .. Cardinality(rows) - 1 :
              RowAt(rows, k) \in rows /\ Cardinality(Below(rows, RowAt(rows, k))) = k
         /\ \A r \in rows : RowAt(rows, Cardinality(Below(rows, r))) = r
         /\ \A j, k \in 0 .. Cardinality(rows) - 1 :
              j < k => RowAt(rows, j).time < RowAt(rows, k).time
  <1> DEFINE c == Cardinality(rows)
             rank == [r \in rows |-> Cardinality(Below(rows, r))]
  <1>1. c \in Nat /\ IsFiniteSet(rows)
    BY FS_CardinalityType DEF Distinct
  <1>2. IsFiniteSet(0 .. c - 1) /\ Cardinality(0 .. c - 1) = c
    BY <1>1, FS_Interval
  <1>3. rank \in [rows -> 0 .. c - 1]
    BY RankBounded
  <1>4. ASSUME NEW r \in rows, NEW q \in rows, rank[r] = rank[q]
        PROVE  r = q
    <2>1. r.time \in Nat /\ q.time \in Nat
      BY DEF Distinct
    <2>2. rank[r] \in Nat /\ rank[q] \in Nat
      BY <1>3
    <2>3. ~(r.time < q.time) /\ ~(q.time < r.time)
      BY <1>4, <2>2, RankGrows
    <2> QED
      BY <2>1, <2>3 DEF Distinct
  <1>5. rank \in Injection(rows, 0 .. c - 1)
    BY <1>3, <1>4 DEF Injection, IsInjective
  <1>6. rank \in Surjection(rows, 0 .. c - 1)
    <2> HIDE DEF rank
    <2>1. Cardinality(rows) = Cardinality(0 .. c - 1)
      BY <1>2
    <2> HIDE DEF c
    <2> QED
      BY <1>2, <1>5, <2>1, FS_Injection
  <1>7. ASSUME NEW k \in 0 .. c - 1
        PROVE  RowAt(rows, k) \in rows /\ Cardinality(Below(rows, RowAt(rows, k))) = k
    <2>1. \E r \in rows : rank[r] = k
      BY <1>6 DEF Surjection
    <2>2. \E r \in rows : Cardinality({q \in rows : q.time < r.time}) = k
      BY <2>1 DEF Below
    <2> QED
      BY <2>2 DEF RowAt, Below
  <1>8. ASSUME NEW r \in rows
        PROVE  RowAt(rows, Cardinality(Below(rows, r))) = r
    <2>1. rank[r] \in 0 .. c - 1 /\ rank[r] = Cardinality(Below(rows, r))
      BY <1>3
    <2>2. RowAt(rows, rank[r]) \in rows /\ rank[RowAt(rows, rank[r])] = rank[r]
      BY <1>7, <2>1
    <2> QED
      BY <1>4, <2>1, <2>2
  <1>9. ASSUME NEW j \in 0 .. c - 1, NEW k \in 0 .. c - 1, j < k
        PROVE  RowAt(rows, j).time < RowAt(rows, k).time
    <2> DEFINE r == RowAt(rows, j)
               q == RowAt(rows, k)
    <2>1. /\ r \in rows /\ Cardinality(Below(rows, r)) = j
          /\ q \in rows /\ Cardinality(Below(rows, q)) = k
      BY <1>7
    <2> HIDE DEF r, q
    <2>2. r.time \in Nat /\ q.time \in Nat
      BY <2>1 DEF Distinct
    <2>3. r # q
      BY <1>9, <2>1
    <2>4. ~(q.time < r.time)
      BY <1>9, <2>1, RankGrows
    <2>5. r.time # q.time
      BY <2>1, <2>3 DEF Distinct
    <2>6. r.time < q.time
      BY <2>2, <2>4, <2>5
    <2> QED
      BY <2>6 DEF r, q
  <1> QED
    BY <1>1, <1>7, <1>8, <1>9

(* Rows enumerated in order of time. *)
LEMMA Enumerated ==
  ASSUME NEW n \in Nat, NEW f, NEW rows,
         rows = {f[k] : k \in 0 .. n}, \A k \in 0 .. n : f[k].time \in Nat,
         \A j, k \in 0 .. n : j < k => f[j].time < f[k].time
  PROVE  /\ Distinct(rows) /\ Cardinality(rows) = n + 1
         /\ \A k \in 0 .. n : RowAt(rows, k) = f[k]
  <1>1. \A j, k \in 0 .. n : f[j].time = f[k].time => j = k
    OBVIOUS
  <1>2. ASSUME NEW m \in 0 .. n
        PROVE  IsFiniteSet({f[k] : k \in 0 .. m}) /\ Cardinality({f[k] : k \in 0 .. m}) = m + 1
    <2> DEFINE S == {f[k] : k \in 0 .. m}
               g == [k \in 0 .. m |-> f[k]]
    <2>1. IsFiniteSet(0 .. m) /\ Cardinality(0 .. m) = m + 1
      BY FS_Interval
    <2>2. g \in Bijection(0 .. m, S)
      <3>1. g \in [0 .. m -> S] /\ \A x \in S : \E k \in 0 .. m : g[k] = x
        OBVIOUS
      <3>2. \A j, k \in 0 .. m : g[j] = g[k] => j = k
        BY <1>1
      <3> QED
        BY <3>1, <3>2 DEF Bijection, Injection, Surjection, IsInjective
    <2>3. ExistsBijection(0 .. m, S)
      BY <2>2 DEF ExistsBijection
    <2> HIDE DEF S
    <2>4. IsFiniteSet(S) /\ Cardinality(S) = m + 1
      BY <2>1, <2>3, FS_Bijection
    <2> QED
      BY <2>4 DEF S
  <1>3. IsFiniteSet(rows) /\ Cardinality(rows) = n + 1
    BY <1>2
  <1>4. Distinct(rows)
    BY <1>1, <1>3 DEF Distinct
  <1>5. ASSUME NEW k \in 0 .. n PROVE Cardinality(Below(rows, f[k])) = k
    <2>1. CASE k = 0
      <3>1. Below(rows, f[k]) = {}
        BY <2>1 DEF Below
      <3> QED
        BY <2>1, <3>1, FS_EmptySet
    <2>2. CASE k > 0
      <3>1. k - 1 \in 0 .. n
        BY <2>2
      <3>2. \A j \in 0 .. n : f[j].time < f[k].time <=> j \in 0 .. k - 1
        BY <1>1
      <3>3. Below(rows, f[k]) = {f[j] : j \in 0 .. k - 1}
        BY <3>1, <3>2 DEF Below
      <3>4. Cardinality({f[j] : j \in 0 .. k - 1}) = (k - 1) + 1
        BY <1>2, <3>1
      <3>5. (k - 1) + 1 = k
        OBVIOUS
      <3> QED
        BY <3>3, <3>4, <3>5, Zenon
    <2> QED
      BY <2>1, <2>2
  <1>6. ASSUME NEW k \in 0 .. n PROVE RowAt(rows, k) = f[k]
    <2>1. f[k] \in rows
      OBVIOUS
    <2>2. RowAt(rows, Cardinality(Below(rows, f[k]))) = f[k]
      BY <1>4, <2>1, RowAtFacts
    <2> QED
      BY <1>5, <2>2
  <1> QED
    BY <1>3, <1>4, <1>6

-----------------------------------------------------------------------------
(* Rings.                                                                  *)

LEMMA Config ==
  ASSUME NEW i \in Nums
  PROVE  /\ i \in Nat /\ LayerLen[i] \in Nat /\ LayerLen[i] > 0 /\ LayerRatio[i] \in Nat
         /\ Takes(i) \in 1 .. LayerLen[i] /\ (~Drops(i) => Takes(i) < LayerLen[i] /\ i + 1 \in Nums)
  <1>1. i \in Nat /\ i < N /\ N \in Nat
    BY StatAssumption DEF Nums
  <1>2. /\ LayerLen[i] \in Nat /\ LayerLen[i] > 0 /\ LayerRatio[i] \in Nat
        /\ LayerRatio[i] < LayerLen[i] \/ LayerRatio[i] = 0
    BY StatAssumption
  <1> QED
    BY <1>1, <1>2 DEF Takes, Drops, Nums

(* The slot k places after h, kept apart from the arithmetic of the        *)
(* provers.                                                                *)
At(h, k, L) == (h + k) % L

(* Once around the ring at most. *)
LEMMA Wrap ==
  ASSUME NEW L \in Nat \ {0}, NEW x \in 0 .. 2 * L - 1
  PROVE  x % L = (IF x < L THEN x ELSE x - L)
  <1>1. CASE x < L
    BY <1>1, Z3
  <1>2. CASE ~(x < L)
    BY <1>2, Z3
  <1> QED
    BY <1>1, <1>2

LEMMA RingSlot ==
  ASSUME NEW L \in Nat \ {0}, NEW h \in 0 .. L - 1, NEW k \in 0 .. L
  PROVE  /\ At(h, k, L) = IF h + k < L THEN h + k ELSE h + k - L
         /\ At(h, k, L) \in 0 .. L - 1
  <1>1. PICK x \in 0 .. 2 * L - 1 : x = h + k
    OBVIOUS
  <1>2. x % L = IF x < L THEN x ELSE x - L
    BY Wrap
  <1>3. At(h, k, L) = x % L
    BY <1>1, Zenon DEF At
  <1>4. At(h, k, L) = IF x < L THEN x ELSE x - L
    BY <1>2, <1>3, Zenon
  <1> QED
    BY <1>1, <1>4

LEMMA RingIndex ==
  ASSUME NEW L \in Nat \ {0}, NEW h \in 0 .. L - 1
  PROVE  /\ \A k \in 0 .. L : At(h, k, L) \in 0 .. L - 1
         /\ \A j, k \in 0 .. L - 1 : At(h, j, L) = At(h, k, L) => j = k
         /\ At(h, 0, L) = h
  <1>1. \A k \in 0 .. L : At(h, k, L) \in 0 .. L - 1
    BY RingSlot
  <1>2. ASSUME NEW j \in 0 .. L - 1, NEW k \in 0 .. L - 1, At(h, j, L) = At(h, k, L)
        PROVE  j = k
    <2>1. j \in 0 .. L /\ k \in 0 .. L
      OBVIOUS
    <2>2. PICK a \in 0 .. L - 1 :
            a = At(h, j, L) /\ a = IF h + j < L THEN h + j ELSE h + j - L
      BY <2>1, RingSlot
    <2>3. a = IF h + k < L THEN h + k ELSE h + k - L
      BY <1>2, <2>1, <2>2, RingSlot
    <2>4. (a = h + j \/ a = h + j - L) /\ (a = h + k \/ a = h + k - L)
      BY <2>2, <2>3
    <2> QED
      BY <2>4
  <1>3. At(h, 0, L) = h
    <2>1. 0 \in 0 .. L
      OBVIOUS
    <2>2. At(h, 0, L) = IF h + 0 < L THEN h + 0 ELSE h + 0 - L
      BY <2>1, RingSlot
    <2> QED
      BY <2>2
  <1> QED
    BY <1>1, <1>2, <1>3

(* The slots from the next one on, and the next one after the k-th. *)
LEMMA RingNext ==
  ASSUME NEW L \in Nat \ {0}, NEW h \in 0 .. L - 1, NEW k \in 0 .. L - 1
  PROVE  /\ At(At(h, 1, L), k, L) = At(h, k + 1, L)
         /\ At(At(h, k, L), 1, L) = At(h, k + 1, L)
  <1>1. 1 \in 0 .. L /\ k \in 0 .. L /\ k + 1 \in 0 .. L
    OBVIOUS
  <1>2. PICK a \in 0 .. L - 1 :
          a = At(h, 1, L) /\ a = IF h + 1 < L THEN h + 1 ELSE h + 1 - L
    BY <1>1, RingSlot
  <1>3. PICK b \in 0 .. L - 1 :
          b = At(h, k, L) /\ b = IF h + k < L THEN h + k ELSE h + k - L
    BY <1>1, RingSlot
  <1>4. PICK c \in 0 .. L - 1 :
          /\ c = At(h, k + 1, L)
          /\ c = IF h + (k + 1) < L THEN h + (k + 1) ELSE h + (k + 1) - L
    BY <1>1, RingSlot
  <1>5. At(a, k, L) = IF a + k < L THEN a + k ELSE a + k - L
    BY <1>1, RingSlot
  <1>6. At(b, 1, L) = IF b + 1 < L THEN b + 1 ELSE b + 1 - L
    BY <1>1, RingSlot
  <1>7. At(a, k, L) = c
    BY <1>2, <1>4, <1>5
  <1>8. At(b, 1, L) = c
    BY <1>3, <1>4, <1>6
  <1> QED
    BY <1>2, <1>3, <1>4, <1>7, <1>8

(* What Range takes for the size of a ring with n axes. *)
LEMMA RingSize ==
  ASSUME NEW i \in Nums, NEW l \in Rings(i), NEW n \in 0 .. LayerLen[i],
         l.tail = (l.head + n) % LayerLen[i]
  PROVE  /\ l.head = l.tail <=> n = 0 \/ n = LayerLen[i]
         /\ n > 0 /\ l.empty = FALSE => Size(l, i) = n
         /\ l.empty = TRUE => Size(l, i) = 0
  <1>1. PICK L \in Nat \ {0} : L = LayerLen[i]
    BY Config
  <1>2. PICK h \in 0 .. L - 1, t \in 0 .. L - 1 : h = l.head /\ t = l.tail
    BY <1>1 DEF Rings, Slots
  <1>3. t = At(h, n, L) /\ n \in 0 .. L
    BY <1>1, <1>2, Zenon DEF At
  <1>4. t = IF h + n < L THEN h + n ELSE h + n - L
    BY <1>3, RingSlot
  <1>5. h = t <=> n = 0 \/ n = L
    BY <1>3, <1>4
  <1>6. n > 0 => (IF t > h THEN t - h ELSE t + L - h) = n
    BY <1>3, <1>4
  <1>7. ASSUME n > 0, l.empty = FALSE PROVE Size(l, i) = n
    <2>1. ~l.empty
      BY <1>7, Zenon
    <2>2. Size(l, i) = IF t > h THEN t - h ELSE t + L - h
      BY <1>1, <1>2, <2>1, Zenon DEF Size
    <2> QED
      BY <1>6, <1>7, <2>2
  <1>8. ASSUME l.empty = TRUE PROVE Size(l, i) = 0
    BY <1>8, Zenon DEF Size
  <1> QED
    BY <1>1, <1>2, <1>5, <1>7, <1>8

(* The ring without its first axis. *)
LEMMA FirstRemoved ==
  ASSUME NEW i \in Nums, NEW l \in Rings(i), NEW n \in 1 .. LayerLen[i],
         l.tail = (l.head + n) % LayerLen[i],
         NEW m, m = WithoutFirst(l, i)
  PROVE  /\ m \in Rings(i)
         /\ m.start = RingTime(l, i, 0) /\ m.end = l.end /\ m.empty = l.empty
         /\ m.tail = (m.head + (n - 1)) % LayerLen[i]
         /\ \A k \in 0 .. n - 2 : /\ RingTime(m, i, k) = RingTime(l, i, k + 1)
                                  /\ RingAxis(m, i, k) = RingAxis(l, i, k + 1)
         /\ RingAxis(l, i, 0) = l.axes[l.head]
  <1>1. PICK L \in Nat \ {0} : L = LayerLen[i]
    BY Config
  <1>2. PICK h \in 0 .. L - 1 : h = l.head
    BY <1>1 DEF Rings, Slots
  <1>3. Slots(i) = 0 .. L - 1 /\ n \in 1 .. L
    BY <1>1 DEF Slots
  <1>4. /\ m.start = l.times[h] /\ m.end = l.end /\ m.empty = l.empty
        /\ m.axes = [l.axes EXCEPT ![h] = {}] /\ m.times = l.times
        /\ m.head = At(h, 1, L) /\ m.tail = l.tail
    <2> DEFINE x == (l.head + 1) % LayerLen[i]
    <2>1. m = [l EXCEPT !.start = l.times[l.head], !.axes[l.head] = {}, !.head = x]
      BY DEF WithoutFirst
    <2>2. x = At(h, 1, L)
      BY <1>1, <1>2 DEF At
    <2> HIDE DEF x
    <2> QED
      BY <1>2, <2>1, <2>2 DEF Rings
  <1>5. l.tail = At(h, n, L) /\ \A k : /\ RingTime(l, i, k) = l.times[At(h, k, L)]
                                       /\ RingAxis(l, i, k) = l.axes[At(h, k, L)]
                                       /\ RingTime(m, i, k) = m.times[At(m.head, k, L)]
                                       /\ RingAxis(m, i, k) = m.axes[At(m.head, k, L)]
    BY <1>1, <1>2, Zenon DEF At, RingTime, RingAxis
  <1>6. At(h, 0, L) = h /\ At(h, 1, L) \in 0 .. L - 1
    BY RingIndex
  <1>7. m \in Rings(i)
    <2>1. l.times[h] \in Nat /\ [l.axes EXCEPT ![h] = {}] \in [Slots(i) -> SUBSET Nat]
      BY <1>2, <1>3 DEF Rings
    <2>2. m = [l EXCEPT !.start = m.start, !.axes = m.axes, !.head = m.head]
      <3> DEFINE x == (l.head + 1) % LayerLen[i]
      <3>1. m = [l EXCEPT !.start = l.times[l.head], !.axes[l.head] = {}, !.head = x]
        BY DEF WithoutFirst
      <3> HIDE DEF x
      <3> QED
        BY <3>1 DEF Rings
    <2> QED
      BY <1>3, <1>4, <1>6, <2>1, <2>2 DEF Rings
  <1>8. m.tail = (m.head + (n - 1)) % LayerLen[i]
    <2>1. PICK k \in 0 .. L - 1 : k = n - 1 /\ k + 1 = n
      BY <1>3
    <2>2. At(At(h, 1, L), k, L) = At(h, n, L)
      BY <2>1, RingNext
    <2>3. m.tail = At(m.head, n - 1, L)
      BY <1>4, <1>5, <2>1, <2>2
    <2> QED
      BY <1>1, <2>3, Zenon DEF At
  <1>9. ASSUME NEW k \in 0 .. n - 2
        PROVE  /\ RingTime(m, i, k) = RingTime(l, i, k + 1)
               /\ RingAxis(m, i, k) = RingAxis(l, i, k + 1)
    <2>1. k \in 0 .. L - 1 /\ k + 1 \in 0 .. L - 1 /\ k + 1 # 0 /\ 0 \in 0 .. L - 1 /\ k + 1 \in 0 .. L
      BY <1>3
    <2>2. PICK x \in 0 .. L - 1 : x = At(h, k + 1, L)
      BY <2>1, RingIndex
    <2>3. At(m.head, k, L) = x
      BY <1>4, <2>1, <2>2, RingNext
    <2>4. x # h
      BY <1>6, <2>1, <2>2, RingIndex
    <2>5. m.axes[x] = l.axes[x] /\ m.times[x] = l.times[x]
      BY <1>3, <1>4, <2>4 DEF Rings
    <2> QED
      BY <1>5, <2>2, <2>3, <2>5
  <1> QED
    BY <1>2, <1>4, <1>5, <1>6, <1>7, <1>8, <1>9

(* The ring l of layer i, with n axes, becomes m with one more. *)
Adds(i, l, n, axis, time, m) ==
  /\ i \in Nums /\ l \in Rings(i) /\ n \in 0 .. LayerLen[i] - 1
  /\ l.tail = (l.head + n) % LayerLen[i]
  /\ axis \in SUBSET Nat /\ time \in Nat /\ m = WithLast(l, i, axis, time)

Added(i, l, n, axis, time, m) ==
  /\ m \in Rings(i)
  /\ m.start = l.start /\ m.end = time /\ m.empty = FALSE
  /\ m.tail = (m.head + (n + 1)) % LayerLen[i]
  /\ \A k \in 0 .. n - 1 : /\ RingTime(m, i, k) = RingTime(l, i, k)
                           /\ RingAxis(m, i, k) = RingAxis(l, i, k)
  /\ RingTime(m, i, n) = time /\ RingAxis(m, i, n) = axis

LEMMA LastAdded ==
  ASSUME NEW i, NEW l, NEW n, NEW axis, NEW time, NEW m, Adds(i, l, n, axis, time, m)
  PROVE  Added(i, l, n, axis, time, m)
  <1> /\ i \in Nums /\ l \in Rings(i) /\ n \in 0 .. LayerLen[i] - 1
      /\ l.tail = (l.head + n) % LayerLen[i]
      /\ axis \in SUBSET Nat /\ time \in Nat /\ m = WithLast(l, i, axis, time)
    BY Zenon DEF Adds
  <1>1. PICK L \in Nat \ {0} : L = LayerLen[i]
    BY Config
  <1>2. PICK h \in 0 .. L - 1, t \in 0 .. L - 1 : h = l.head /\ t = l.tail
    BY <1>1 DEF Rings, Slots
  <1>3. Slots(i) = 0 .. L - 1 /\ n \in 0 .. L - 1
    BY <1>1 DEF Slots
  <1> DEFINE x == (l.tail + 1) % LayerLen[i]
  <1>4. x = At(t, 1, L)
    BY <1>1, <1>2 DEF At
  <1>5. m = [l EXCEPT !.axes[l.tail] = axis, !.times[l.tail] = time, !.empty = FALSE,
                      !.end = time, !.tail = x]
    BY DEF WithLast
  <1> HIDE DEF x
  <1>6. /\ m.start = l.start /\ m.end = time /\ m.empty = FALSE
        /\ m.axes = [l.axes EXCEPT ![t] = axis] /\ m.times = [l.times EXCEPT ![t] = time]
        /\ m.head = h /\ m.tail = x
    BY <1>2, <1>5 DEF Rings
  <1>7. t = At(h, n, L) /\ \A k : /\ RingTime(l, i, k) = l.times[At(h, k, L)]
                                  /\ RingAxis(l, i, k) = l.axes[At(h, k, L)]
                                  /\ RingTime(m, i, k) = m.times[At(m.head, k, L)]
                                  /\ RingAxis(m, i, k) = m.axes[At(m.head, k, L)]
    BY <1>1, <1>2, Zenon DEF At, RingTime, RingAxis
  <1>8. m \in Rings(i)
    <2>1. x \in Slots(i)
      <3>1. 1 \in 0 .. L
        OBVIOUS
      <3> QED
        BY <1>3, <1>4, <3>1, RingIndex
    <2>2. /\ [l.axes EXCEPT ![t] = axis] \in [Slots(i) -> SUBSET Nat]
          /\ [l.times EXCEPT ![t] = time] \in [Slots(i) -> Nat]
      BY <1>2, <1>3 DEF Rings
    <2>3. m = [l EXCEPT !.axes = m.axes, !.times = m.times, !.empty = FALSE, !.end = time, !.tail = x]
      BY <1>5 DEF Rings
    <2> QED
      BY <1>6, <2>1, <2>2, <2>3 DEF Rings
  <1>9. m.tail = (m.head + (n + 1)) % LayerLen[i]
    <2>1. m.tail = At(h, n + 1, L)
      BY <1>3, <1>4, <1>6, <1>7, RingNext
    <2> QED
      BY <1>1, <1>6, <2>1, Zenon DEF At
  <1>10. ASSUME NEW k \in 0 .. n - 1
        PROVE  /\ RingTime(m, i, k) = RingTime(l, i, k)
               /\ RingAxis(m, i, k) = RingAxis(l, i, k)
    <2>1. k \in 0 .. L - 1 /\ k # n /\ k \in 0 .. L
      BY <1>3
    <2>2. PICK y \in 0 .. L - 1 : y = At(h, k, L)
      BY <2>1, RingIndex
    <2>3. y # t
      BY <1>3, <1>7, <2>1, <2>2, RingIndex
    <2>4. m.axes[y] = l.axes[y] /\ m.times[y] = l.times[y]
      BY <1>3, <1>6, <2>3 DEF Rings
    <2> QED
      BY <1>6, <1>7, <2>2, <2>4
  <1>11. RingTime(m, i, n) = time /\ RingAxis(m, i, n) = axis
    <2>1. m.axes[t] = axis /\ m.times[t] = time
      BY <1>2, <1>3, <1>6 DEF Rings
    <2> QED
      BY <1>6, <1>7, <2>1
  <1> QED
    BY <1>6, <1>8, <1>9, <1>10, <1>11 DEF Added

-----------------------------------------------------------------------------
(* What the steps of Append do to rings and rows.                          *)

LEMMA TypeFacts ==
  ASSUME Types, NEW i \in Nums
  PROVE  /\ layers[i] \in Rings(i) /\ call[i] \in Frames
         /\ layers[i].start \in Nat /\ layers[i].end \in Nat /\ layers[i].empty \in BOOLEAN
         /\ call[i].time \in Nat /\ call[i].axis \subseteq Nat /\ call[i].acc \subseteq Nat
         /\ call[i].left \in Nat
  BY DEF Types, Rings, Frames

(* The count of a ring that is left alone. *)
LEMMA CountFrame ==
  ASSUME NEW j \in Nums, layers'[j] = layers[j],
         \/ call'[j].pc = call[j].pc
         \/ layers[j].head # layers[j].tail
         \/ layers[j].empty = TRUE
         \/ call[j].pc # "insert" /\ call'[j].pc # "insert"
  PROVE  Count(j)' = Count(j)
  <1>1. Size(layers[j], j)' = Size(layers[j], j)
    BY DEF Size
  <1>2. CASE layers[j].empty = TRUE
    BY <1>1, <1>2, Zenon DEF Count
  <1>3. CASE layers[j].head # layers[j].tail
    BY <1>1, <1>3, Zenon DEF Count
  <1>4. CASE call'[j].pc = call[j].pc
    BY <1>1, <1>4, Zenon DEF Count
  <1>5. CASE call[j].pc # "insert" /\ call'[j].pc # "insert"
    BY <1>1, <1>5, Zenon DEF Count
  <1> QED
    BY <1>2, <1>3, <1>4, <1>5

LEMMA MirrorFrame ==
  ASSUME NEW j \in Nums, MirroredAt(j), layers'[j] = layers[j], Count(j)' = Count(j),
         now \in Nat, now' \in Nat, now <= now', layers[j].start \in Nat,
         {r \in Held' : r.layer = j} = {r \in Held : r.layer = j}
  PROVE  MirroredAt(j)'
  <1>1. \A k : RingRow(j, k)' = RingRow(j, k)
    BY DEF RingRow, RingTime, RingAxis
  <1>2. {RingRow(j, k)' : k \in 0 .. Count(j)' - 1} = {RingRow(j, k) : k \in 0 .. Count(j) - 1}
    BY <1>1
  <1>3. layers'[j].start <= now'
    BY DEF MirroredAt
  <1>4. /\ Count(j)' \in 0 .. LayerLen[j]
        /\ layers'[j].tail = (layers'[j].head + Count(j)') % LayerLen[j]
    BY Zenon DEF MirroredAt
  <1>5. \A a, b \in 0 .. Count(j)' - 1 : a < b => RingRow(j, a)'.time < RingRow(j, b)'.time
    BY <1>1, Zenon DEF MirroredAt
  <1>6. layers'[j].end = IF Count(j)' = 0 THEN layers'[j].start ELSE RingRow(j, Count(j) - 1)'.time
    BY <1>1, Zenon DEF MirroredAt
  <1>7. {r \in Held' : r.layer = j} = {RingRow(j, k)' : k \in 0 .. Count(j)' - 1}
    BY <1>2, Zenon DEF MirroredAt
  <1> QED
    BY <1>3, <1>4, <1>5, <1>6, <1>7, Zenon DEF MirroredAt

(* The rows of a ring are held, in the order of their slots. *)
LEMMA RingRows ==
  ASSUME Types, NEW i \in Nums, MirroredAt(i)
  PROVE  /\ Count(i) \in Nat
         /\ \A k \in 0 .. Count(i) - 1 :
              /\ RingRow(i, k) \in Held /\ RingRow(i, k).layer = i
              /\ RingRow(i, k).time = RingTime(layers[i], i, k)
              /\ RingRow(i, k).axis = RingAxis(layers[i], i, k)
         /\ \A r \in Held : r.layer = i => \E k \in 0 .. Count(i) - 1 : r = RingRow(i, k)
  <1>1. Count(i) \in Nat
    BY Config DEF MirroredAt
  <1>2. \A k : /\ RingRow(i, k).layer = i
               /\ RingRow(i, k).time = RingTime(layers[i], i, k)
               /\ RingRow(i, k).axis = RingAxis(layers[i], i, k)
    BY DEF RingRow, Row
  <1>3. {r \in Held : r.layer = i} = {RingRow(i, k) : k \in 0 .. Count(i) - 1}
    BY DEF MirroredAt
  <1> QED
    BY <1>1, <1>2, <1>3

(* The first axis of a ring is the oldest row that is held in its layer. *)
LEMMA FirstHeld ==
  ASSUME Types, NEW i \in Nums, MirroredAt(i), Count(i) > 0
  PROVE  /\ RingRow(i, 0) \in Held /\ RingRow(i, 0).layer = i
         /\ RingRow(i, 0).time = RingTime(layers[i], i, 0)
         /\ RingRow(i, 0).axis = RingAxis(layers[i], i, 0)
         /\ \A r \in Held : r.layer = i /\ r # RingRow(i, 0) => RingRow(i, 0).time < r.time
  <1>1. 0 \in 0 .. Count(i) - 1
    BY RingRows
  <1>2. ASSUME NEW r \in Held, r.layer = i, r # RingRow(i, 0)
        PROVE  RingRow(i, 0).time < r.time
    <2>1. PICK k \in 0 .. Count(i) - 1 : r = RingRow(i, k)
      BY <1>2, RingRows
    <2>2. 0 < k
      BY <1>2, <2>1
    <2> QED
      BY <1>1, <2>1, <2>2 DEF MirroredAt
  <1> QED
    BY <1>1, <1>2, RingRows

(* The ways a round of Reduce ends, h being the row of the axis it takes:  *)
(* there is more to take, the layer drops it, or what was taken is passed  *)
(* to the next layer.                                                      *)
OtherCalls(S) == \A j \in Nums \ S : call'[j] = call[j]

TakesMore(i, h) ==
  /\ OtherCalls({i}) /\ ~Drops(i) /\ call[i].left > 1
  /\ call'[i] = [call[i] EXCEPT !.left = call[i].left - 1, !.acc = call[i].acc \cup h.axis]

DropsIt(i) ==
  OtherCalls({i}) /\ Drops(i) /\ call[i].left = 1 /\ call'[i] = [call[i] EXCEPT !.pc = "insert"]

PassesOn(i, h) ==
  /\ OtherCalls({i, i + 1}) /\ ~Drops(i) /\ call[i].left = 1
  /\ i + 1 \in Nums /\ ~Busy(i + 1)
  /\ call'[i] = [call[i] EXCEPT !.pc = "wait"]
  /\ call'[i + 1] = Frame(i + 1, call[i].acc \cup h.axis, h.time)

Reduced(i, h) ==
  /\ \A r \in db : r \in db' <=> ~(r.layer = i /\ r.time = layers[i].start)
  /\ db' \subseteq db /\ Held' = Held \ {h}
  /\ h \in Held /\ h.layer = i /\ \A r \in Held : r.layer = i /\ r # h => h.time < r.time
  /\ \A j \in Nums : layers'[j].start = IF j = i THEN h.time ELSE layers[j].start
  /\ call[i].pc = "reduce"
  /\ TakesMore(i, h) \/ DropsIt(i) \/ PassesOn(i, h)

LEMMA ReduceCalls ==
  ASSUME Types, NEW i \in Nums, Mirrored, Nested, Reduce(i)
  PROVE  /\ Count(i) \in 1 .. LayerLen[i] /\ call[i].pc = "reduce"
         /\ TakesMore(i, RingRow(i, 0)) \/ DropsIt(i) \/ PassesOn(i, RingRow(i, 0))
         /\ layers' = [layers EXCEPT ![i] = WithoutFirst(layers[i], i)]
         /\ layers'[i].start = RingRow(i, 0).time
  <1>1. /\ call[i].pc = "reduce" /\ call[i].left \in 1 .. Takes(i)
        /\ Count(i) = LayerLen[i] - Takes(i) + call[i].left
        /\ MirroredAt(i)
    BY DEF Reduce, Nested, NestedAt, Mirrored
  <1>2. Count(i) \in 1 .. LayerLen[i]
    BY <1>1, Config
  <1>3. /\ RingRow(i, 0).axis = layers[i].axes[layers[i].head]
        /\ WithoutFirst(layers[i], i).start = RingRow(i, 0).time
    <2>1. /\ WithoutFirst(layers[i], i).start = RingTime(layers[i], i, 0)
          /\ RingAxis(layers[i], i, 0) = layers[i].axes[layers[i].head]
      BY <1>1, <1>2, TypeFacts, FirstRemoved DEF MirroredAt
    <2> QED
      BY <2>1 DEF RingRow, Row
  <1>4. layers' = [layers EXCEPT ![i] = WithoutFirst(layers[i], i)]
    BY DEF Reduce
  <1>5. layers'[i] = WithoutFirst(layers[i], i)
    BY <1>4 DEF Types
  <1> DEFINE acc == call[i].acc \cup RingRow(i, 0).axis
  <1>6. IF call[i].left > 1
        THEN call' = [call EXCEPT ![i].left = @ - 1, ![i].acc = acc]
        ELSE IF Drops(i)
        THEN call' = [call EXCEPT ![i].pc = "insert"]
        ELSE call' = [call EXCEPT ![i].pc = "wait", ![i + 1] = Frame(i + 1, acc, layers'[i].start)]
    BY <1>3 DEF Reduce
  <1> HIDE DEF acc
  <1>7. call \in [Nums -> Frames] /\ i \in Nat
    BY Config DEF Types
  <1>8. CASE call[i].left > 1
    <2>1. ~Drops(i)
      BY <1>1, <1>8 DEF Takes
    <2>2. call' = [call EXCEPT ![i].left = @ - 1, ![i].acc = acc]
      BY <1>6, <1>8
    <2>3. call'[i] = [call[i] EXCEPT !.left = call[i].left - 1, !.acc = acc] /\ OtherCalls({i})
      BY <1>7, <2>2 DEF OtherCalls, Frames
    <2>4. TakesMore(i, RingRow(i, 0))
      BY <1>8, <2>1, <2>3 DEF TakesMore, acc
    <2> QED
      BY <1>1, <1>2, <1>3, <1>4, <1>5, <2>4
  <1>9. CASE ~(call[i].left > 1) /\ Drops(i)
    <2>1. call' = [call EXCEPT ![i].pc = "insert"]
      BY <1>6, <1>9
    <2>2. call[i].left = 1
      BY <1>1, <1>9, Config
    <2>3. DropsIt(i)
      BY <1>7, <1>9, <2>1, <2>2 DEF DropsIt, OtherCalls
    <2> QED
      BY <1>1, <1>2, <1>3, <1>4, <1>5, <2>3
  <1>10. CASE ~(call[i].left > 1) /\ ~Drops(i)
    <2>1. call' = [call EXCEPT ![i].pc = "wait", ![i + 1] = Frame(i + 1, acc, layers'[i].start)]
      BY <1>6, <1>10
    <2>2. call[i].left = 1 /\ i + 1 \in Nums
      BY <1>1, <1>10, Config
    <2>3. ~Busy(i + 1)
      <3>1. i < i + 1
        BY <1>7
      <3> QED
        BY <1>1, <2>2, <3>1 DEF Nested, NestedAt
    <2>4. /\ OtherCalls({i, i + 1})
          /\ call'[i] = [call[i] EXCEPT !.pc = "wait"]
          /\ call'[i + 1] = Frame(i + 1, acc, layers'[i].start)
      BY <1>7, <2>1, <2>2 DEF OtherCalls
    <2>5. PassesOn(i, RingRow(i, 0))
      BY <1>3, <1>5, <1>10, <2>2, <2>3, <2>4 DEF PassesOn, acc
    <2> QED
      BY <1>1, <1>2, <1>3, <1>4, <1>5, <2>5
  <1> QED
    BY <1>8, <1>9, <1>10

(* The row that is taken, and what becomes of the table. *)
LEMMA ReduceRows ==
  ASSUME Types, TableOK, NEW i \in Nums, Mirrored, Nested, Placed, Reduce(i)
  PROVE  Reduced(i, RingRow(i, 0))
  <1> DEFINE h == RingRow(i, 0)
  <1>1. /\ Count(i) \in 1 .. LayerLen[i] /\ call[i].pc = "reduce"
        /\ TakesMore(i, h) \/ DropsIt(i) \/ PassesOn(i, h)
        /\ layers' = [layers EXCEPT ![i] = WithoutFirst(layers[i], i)]
        /\ layers'[i].start = h.time
    BY ReduceCalls
  <1>2. Count(i) > 0
    BY <1>1, Config
  <1>3. h \in Held /\ h.layer = i /\ \A r \in Held : r.layer = i /\ r # h => h.time < r.time
    BY <1>2, FirstHeld DEF Mirrored
  <1> HIDE DEF h
  <1>4. db' = db \ {r \in db : r.layer = i /\ r.time = layers[i].start}
    BY DEF Reduce, DeletedRows, RowsOf
  <1>5. \A j \in Nums : layers'[j].start = IF j = i THEN h.time ELSE layers[j].start
    BY <1>1 DEF Types
  <1>6. Held' = Held \ {h}
    <2>1. \A r \in db : r.layer \in Nums /\ (r.layer = i /\ r.time = h.time => r = h)
      BY <1>3 DEF Placed, Held, TableOK
    <2>2. ASSUME NEW r \in db' PROVE r \in Held' <=> r \in Held /\ r # h
      <3>1. r \in db /\ r.layer \in Nums
        BY <1>4, <2>1
      <3>2. CASE r.layer = i
        BY <1>3, <1>4, <1>5, <2>1, <3>1, <3>2 DEF Held
      <3>3. CASE r.layer # i
        BY <1>3, <1>5, <3>1, <3>3 DEF Held
      <3> QED
        BY <3>2, <3>3
    <2>3. \A r \in Held : r \in db'
      BY <1>4 DEF Held
    <2>4. Held' \subseteq db'
      BY DEF Held
    <2> QED
      BY <2>2, <2>3, <2>4
  <1>7. Reduced(i, h)
    BY <1>1, <1>3, <1>4, <1>5, <1>6 DEF Reduced
  <1> QED
    BY <1>7 DEF h

(* A new frame: Reduce is called first exactly if the ring is full. *)
LEMMA FrameFields ==
  ASSUME NEW i \in Nums, NEW axis, NEW time
  PROVE  /\ Frame(i, axis, time).axis = axis /\ Frame(i, axis, time).time = time
         /\ Frame(i, axis, time).acc = {} /\ Frame(i, axis, time).left = Takes(i)
         /\ Frame(i, axis, time).pc = IF Full(i) THEN "reduce" ELSE "insert"
  BY DEF Frame, Takes

LEMMA FrameType ==
  ASSUME NEW i \in Nums, NEW axis \in SUBSET Nat, NEW time \in Nat
  PROVE  Frame(i, axis, time) \in Frames
  <1>1. Takes(i) \in Nat
    BY Config
  <1> QED
    BY <1>1 DEF Frame, Frames, Takes

LEMMA FrameFacts ==
  ASSUME Types, NEW i \in Nums, MirroredAt(i), NestedAt(i), ~Busy(i)
  PROVE  \/ Full(i) /\ Count(i) = LayerLen[i]
         \/ /\ ~Full(i) /\ Count(i) < LayerLen[i]
            /\ layers[i].head # layers[i].tail \/ layers[i].empty = TRUE
  <1>1. LayerLen[i] \in Nat \ {0} /\ layers[i] \in Rings(i) /\ call[i].pc = "none"
    BY Config, TypeFacts DEF Busy
  <1>2. layers[i].empty = TRUE \/ layers[i].empty = FALSE
    BY TypeFacts
  <1>3. /\ layers[i].head = layers[i].tail <=> Count(i) = 0 \/ Count(i) = LayerLen[i]
        /\ Count(i) \in 0 .. LayerLen[i]
    BY <1>1, RingSize DEF MirroredAt
  <1>4. Count(i) = 0 <=> layers[i].empty = TRUE
    BY <1>1 DEF NestedAt
  <1>5. CASE layers[i].head = layers[i].tail /\ layers[i].empty = FALSE
    <2>1. Full(i)
      BY <1>5, Zenon DEF Full
    <2>2. Count(i) = LayerLen[i]
      BY <1>1, <1>3, <1>4, <1>5
    <2> QED
      BY <2>1, <2>2
  <1>6. CASE layers[i].head # layers[i].tail \/ layers[i].empty = TRUE
    <2>1. ~Full(i)
      BY <1>6, Zenon DEF Full
    <2>2. Count(i) < LayerLen[i]
      BY <1>1, <1>3, <1>4, <1>6
    <2> QED
      BY <1>6, <2>1, <2>2
  <1> QED
    BY <1>2, <1>5, <1>6

LEMMA ReduceCounts ==
  ASSUME Types, TableOK, NEW i \in Nums, Mirrored, Nested, Placed, Reduce(i)
  PROVE  /\ Count(i)' = Count(i) - 1
         /\ \A j \in Nums \ {i} : Count(j)' = Count(j) /\ layers'[j] = layers[j]
         /\ layers' \in [Nums -> UNION {Rings(j) : j \in Nums}]
         /\ layers'[i] \in Rings(i)
         /\ layers'[i].empty = FALSE /\ layers[i].empty = FALSE
         /\ Count(i) \in 1 .. LayerLen[i]
  <1> DEFINE h == RingRow(i, 0)
  <1>1. /\ Count(i) \in 1 .. LayerLen[i] /\ call[i].pc = "reduce"
        /\ TakesMore(i, h) \/ DropsIt(i) \/ PassesOn(i, h)
        /\ layers' = [layers EXCEPT ![i] = WithoutFirst(layers[i], i)]
    BY ReduceCalls
  <1>2. /\ h \in Held /\ h \in Rows /\ h.axis \in SUBSET Nat /\ h.time \in Nat
    BY ReduceRows DEF Reduced, Held, TableOK, Rows
  <1> HIDE DEF h
  <1>3. layers[i].empty = FALSE
    <2>1. layers[i].empty = TRUE \/ layers[i].empty = FALSE
      BY TypeFacts
    <2>2. Count(i) # 0
      BY <1>1, Config
    <2> QED
      BY <2>1, <2>2 DEF Nested, NestedAt
  <1> DEFINE m == WithoutFirst(layers[i], i)
  <1>4. layers'[i] = m /\ \A j \in Nums \ {i} : layers'[j] = layers[j]
    BY <1>1 DEF Types
  <1>5. /\ m \in Rings(i) /\ m.empty = FALSE
        /\ m.tail = (m.head + (Count(i) - 1)) % LayerLen[i]
    BY <1>1, <1>3, TypeFacts, FirstRemoved DEF Mirrored, MirroredAt
  <1>6. layers' \in [Nums -> UNION {Rings(j) : j \in Nums}]
    BY <1>1, <1>5 DEF Types
  <1> HIDE DEF m
  <1>7. Count(i)' = Count(i) - 1
    <2>1. PICK n \in 0 .. LayerLen[i] : n = Count(i) - 1 /\ n # LayerLen[i]
      BY <1>1, Config
    <2>2. /\ m.head = m.tail <=> n = 0
          /\ n > 0 => Size(m, i) = n
      BY <1>5, <2>1, RingSize
    <2>3. CASE n > 0
      <3>1. Count(i)' = Size(m, i)
        BY <1>4, <2>2, <2>3 DEF Count, Size
      <3> QED
        BY <2>1, <2>2, <2>3, <3>1
    <2>4. CASE n = 0
      <3>1. Takes(i) = LayerLen[i] /\ call[i].left = 1
        <4>1. /\ call[i].left \in 1 .. Takes(i)
              /\ Count(i) = LayerLen[i] - Takes(i) + call[i].left
          BY <1>1 DEF Nested, NestedAt
        <4>2. Takes(i) \in 1 .. LayerLen[i] /\ LayerLen[i] \in Nat /\ Takes(i) \in Nat
          BY Config
        <4>3. Count(i) = 1
          BY <1>1, <2>1, <2>4, <4>2
        <4> QED
          BY <4>1, <4>2, <4>3
      <3>2. Drops(i)
        BY <3>1, Config
      <3>3. call'[i].pc = "insert"
        BY <1>1, <3>2, TypeFacts DEF TakesMore, DropsIt, PassesOn, Frames
      <3>4. m.head = m.tail
        BY <2>2, <2>4
      <3>5. Count(i)' = 0
        BY <1>4, <3>3, <3>4, Zenon DEF Count
      <3> QED
        BY <2>1, <2>4, <3>5
    <2>5. LayerLen[i] \in Nat
      BY Config
    <2>6. n > 0 \/ n = 0
      BY <2>5
    <2> QED
      BY <2>3, <2>4, <2>6
  <1>8. ASSUME NEW j \in Nums \ {i} PROVE Count(j)' = Count(j)
    <2>1. CASE call'[j] = call[j]
      BY <1>4, <2>1, CountFrame
    <2>2. CASE call'[j] # call[j]
      <3>1. PassesOn(i, h) /\ j = i + 1
        BY <1>1, <2>2 DEF TakesMore, DropsIt, PassesOn, OtherCalls
      <3> DEFINE f == Frame(j, call[i].acc \cup h.axis, h.time)
      <3>2. call'[j] = f /\ ~Busy(j)
        BY <3>1 DEF PassesOn
      <3>3. \/ f.pc = "reduce"
            \/ layers[j].head # layers[j].tail \/ layers[j].empty = TRUE
        <4>1. j \in Nums /\ MirroredAt(j) /\ NestedAt(j)
          BY DEF Mirrored, Nested
        <4>2. Full(j) \/ layers[j].head # layers[j].tail \/ layers[j].empty = TRUE
          BY <3>2, <4>1, FrameFacts
        <4>3. f.pc = IF Full(j) THEN "reduce" ELSE "insert"
          BY FrameFields
        <4> QED
          BY <4>2, <4>3
      <3> HIDE DEF f
      <3>4. call[j].pc # "insert"
        BY <3>2 DEF Busy
      <3> QED
        BY <1>4, <3>2, <3>3, <3>4, CountFrame
    <2> QED
      BY <2>1, <2>2
  <1> QED
    BY <1>1, <1>3, <1>4, <1>5, <1>6, <1>7, <1>8

LEMMA ReduceMirrored ==
  ASSUME Types, TableOK, NEW i \in Nums, Mirrored, Nested, Placed, Reduce(i)
  PROVE  Mirrored'
  <1> DEFINE h == RingRow(i, 0)
             m == layers'[i]
             l == layers[i]
  <1>1. Reduced(i, h)
    BY ReduceRows
  <1>2. PICK n \in 1 .. LayerLen[i] : n = Count(i) /\ n \in Nat
    <2>1. Count(i) \in 1 .. LayerLen[i]
      BY ReduceCounts
    <2>2. LayerLen[i] \in Nat
      BY Config
    <2> QED
      BY <2>1, <2>2
  <1>3. Count(i)' = n - 1
    BY <1>2, ReduceCounts
  <1>4. MirroredAt(i) /\ l \in Rings(i) /\ m = WithoutFirst(l, i) /\ now' = now /\ now \in Nat
    BY ReduceCalls, TypeFacts DEF Mirrored, Types, Reduce
  <1>5. /\ m \in Rings(i)
        /\ m.start = RingTime(l, i, 0) /\ m.end = l.end
        /\ m.tail = (m.head + (n - 1)) % LayerLen[i]
        /\ \A k \in 0 .. n - 2 : /\ RingTime(m, i, k) = RingTime(l, i, k + 1)
                                 /\ RingAxis(m, i, k) = RingAxis(l, i, k + 1)
    BY <1>2, <1>4, FirstRemoved DEF MirroredAt
  <1>6. \A k \in 0 .. n - 2 : RingRow(i, k)' = RingRow(i, k + 1)
    BY <1>5 DEF RingRow
  <1>7. /\ h \in Held /\ h.layer = i /\ h.time = RingTime(l, i, 0) /\ Held' = Held \ {h}
        /\ \A r \in db : r.time \in Nat /\ r.time <= now
    BY <1>1, <1>2, <1>4, FirstHeld DEF Reduced, TableOK, Rows
  <1>8. MirroredAt(i)'
    <2>1. (n - 1) \in 0 .. LayerLen[i] /\ n - 1 - 1 = n - 2
      BY <1>2, Config
    <2>2. ASSUME NEW j \in 0 .. n - 2, NEW k \in 0 .. n - 2, j < k
          PROVE  RingRow(i, j)'.time < RingRow(i, k)'.time
      <3>1. j + 1 \in 0 .. n - 1 /\ k + 1 \in 0 .. n - 1 /\ j + 1 < k + 1
        BY <2>2
      <3>2. RingRow(i, j + 1).time < RingRow(i, k + 1).time
        BY <1>2, <1>4, <3>1 DEF MirroredAt
      <3> QED
        BY <1>6, <3>2
    <2>3. {r \in Held' : r.layer = i} = {RingRow(i, k)' : k \in 0 .. n - 2}
      <3>1. ASSUME NEW r \in Held', r.layer = i
            PROVE  \E k \in 0 .. n - 2 : r = RingRow(i, k)'
        <4>1. r \in Held /\ r # RingRow(i, 0)
          BY <1>7, <3>1
        <4>2. PICK k \in 0 .. n - 1 : r = RingRow(i, k)
          BY <1>2, <1>4, <3>1, <4>1, RingRows
        <4>3. k # 0
          BY <4>1, <4>2
        <4>4. PICK j \in 0 .. n - 2 : j + 1 = k
          BY <4>2, <4>3
        <4> QED
          BY <1>6, <4>2, <4>4
      <3>2. ASSUME NEW k \in 0 .. n - 2
            PROVE  RingRow(i, k)' \in Held' /\ RingRow(i, k)'.layer = i
        <4>1. k + 1 \in 0 .. n - 1 /\ 0 \in 0 .. n - 1 /\ 0 < k + 1
          OBVIOUS
        <4>2. PICK q : q = RingRow(i, k + 1)
          OBVIOUS
        <4>3. q \in Held /\ q.layer = i
          BY <1>2, <1>4, <4>1, <4>2, RingRows
        <4>4. h.time < q.time
          BY <1>2, <1>4, <4>1, <4>2 DEF MirroredAt
        <4>5. q # h
          BY <1>7, <4>3, <4>4 DEF Held
        <4> QED
          BY <1>6, <1>7, <4>2, <4>3, <4>5
      <3> QED
        BY <3>1, <3>2
    <2>4. m.end = IF n - 1 = 0 THEN m.start ELSE RingRow(i, n - 2)'.time
      <3>1. m.end = RingRow(i, n - 1).time
        BY <1>2, <1>4, <1>5 DEF MirroredAt
      <3>2. CASE n - 1 = 0
        BY <1>5, <1>7, <3>1, <3>2
      <3>3. CASE n - 1 # 0
        <4>1. PICK k \in 0 .. n - 2 : k = n - 2 /\ k + 1 = n - 1
          BY <3>3
        <4> QED
          BY <1>6, <3>1, <3>3, <4>1
      <3> QED
        BY <3>2, <3>3
    <2>5. m.start <= now
      BY <1>5, <1>7 DEF Held
    <2>6. /\ Count(i)' - 1 = n - 2 /\ Count(i)' \in 0 .. LayerLen[i]
          /\ (Count(i)' = 0 <=> n - 1 = 0)
      BY <1>3, <2>1
    <2>7. {RingRow(i, k)' : k \in 0 .. n - 2} = {RingRow(i, k)' : k \in 0 .. Count(i)' - 1}
      BY <2>6
    <2>8. m.end = IF Count(i)' = 0 THEN m.start ELSE RingRow(i, Count(i) - 1)'.time
      BY <2>4, <2>6
    <2>9. \A j, k \in 0 .. Count(i)' - 1 : j < k => RingRow(i, j)'.time < RingRow(i, k)'.time
      BY <2>2, <2>6
    <2> HIDE DEF h
    <2> QED
      BY <1>3, <1>4, <1>5, <2>3, <2>5, <2>6, <2>7, <2>8, <2>9, Zenon DEF MirroredAt
  <1>9. ASSUME NEW j \in Nums \ {i} PROVE MirroredAt(j)'
    <2>1. {r \in Held' : r.layer = j} = {r \in Held : r.layer = j}
      BY <1>7
    <2>2. MirroredAt(j) /\ layers[j].start \in Nat /\ now' \in Nat /\ now <= now'
      BY <1>4, TypeFacts DEF Mirrored
    <2>3. Count(j)' = Count(j) /\ layers'[j] = layers[j]
      BY ReduceCounts
    <2> QED
      BY <1>4, <2>1, <2>2, <2>3, MirrorFrame
  <1> QED
    BY <1>8, <1>9 DEF Mirrored

(* Rows have times and belong to layers. *)
LEMMA RowFacts ==
  ASSUME TableOK
  PROVE  /\ \A r \in db : /\ r.time \in Nat /\ r.layer \in Nat /\ r.axis \subseteq Nat
                          /\ r.time <= now
         /\ Held \subseteq db
  BY DEF TableOK, Rows, Held

(* The innermost call is the only one that does not wait. *)
LEMMA Innermost ==
  ASSUME Types, Nested, NEW i \in Nums, call[i].pc \in {"reduce", "insert"}
  PROVE  \A j \in Nums : /\ j > i => ~Busy(j)
                         /\ j < i => call[j].pc = "wait"
                         /\ Busy(j) => j <= i /\ (j # i => call[j].pc = "wait")
  <1>1. i \in Nat /\ Busy(i)
    BY Config DEF Busy
  <1>2. ASSUME NEW j \in Nums
        PROVE  /\ j > i => ~Busy(j)
               /\ j < i => call[j].pc = "wait"
    <2>1. j \in Nat
      BY Config
    <2> QED
      BY <1>1, <2>1 DEF Nested, NestedAt
  <1>3. \A j \in Nums : j \in Nat
    BY Config
  <1> QED
    BY <1>1, <1>2, <1>3

LEMMA ReduceTable ==
  ASSUME TableOK, NEW i \in Nums, NEW h, Reduced(i, h), UNCHANGED <<now, table>>
  PROVE  TableOK'
  <1>1. db' \subseteq db /\ \A r \in db : r.layer # i => r \in db'
    BY DEF Reduced
  <1>2. h \in db' /\ h.layer = i
    BY DEF Reduced, Held
  <1>3. IsFiniteSet(db') /\ db' \subseteq Rows
    BY <1>1, FS_Subset DEF TableOK
  <1>4. ASSUME NEW r \in db', NEW j \in 0 .. r.layer
        PROVE  \E q \in db' : q.layer = j
    <2>1. PICK q \in db : q.layer = j
      BY <1>1 DEF TableOK
    <2> QED
      BY <1>1, <1>2, <2>1
  <1>5. ASSUME NEW r \in db', First(r) PROVE First(r)'
    BY <1>1, <1>5 DEF First
  <1>6. \A r, q \in db' : ~First(r)' /\ ~First(q)' /\ r # q => r.axis \cap q.axis = {}
    BY <1>1, <1>5 DEF TableOK
  <1>7. /\ \A r \in db' : r.time <= now' /\ \A s \in r.axis : s <= r.time
        /\ \A r, q \in db' : r.layer = q.layer /\ r.time = q.time => r = q
        /\ \A r, q \in db' : r.layer > q.layer => r.time <= q.time
        /\ ~table' => db' = {}
    BY <1>1 DEF TableOK
  <1> QED
    BY <1>3, <1>4, <1>6, <1>7 DEF TableOK

(* The frames after a round of Reduce. *)
LEMMA ReducedFrames ==
  ASSUME Types, TableOK, NEW i \in Nums, NEW h, Reduced(i, h)
  PROVE  /\ call'[i] \in Frames /\ call'[i].axis = call[i].axis /\ call'[i].time = call[i].time
         /\ TakesMore(i, h) => /\ call'[i].pc = "reduce" /\ call'[i].left = call[i].left - 1
                               /\ call'[i].acc = call[i].acc \cup h.axis
         /\ DropsIt(i) => call'[i].pc = "insert"
         /\ PassesOn(i, h) =>
              /\ call'[i].pc = "wait"
              /\ call'[i + 1] \in Frames /\ call'[i + 1].axis = call[i].acc \cup h.axis
              /\ call'[i + 1].time = h.time /\ call'[i + 1].acc = {}
              /\ call'[i + 1].left = Takes(i + 1)
              /\ call'[i + 1].pc = IF Full(i + 1) THEN "reduce" ELSE "insert"
  <1>1. call[i] \in Frames /\ h.axis \in SUBSET Nat /\ h.time \in Nat
    BY TypeFacts, RowFacts DEF Reduced
  <1>2. PICK a \in SUBSET Nat : a = call[i].acc \cup h.axis
    BY <1>1, TypeFacts
  <1>3. CASE TakesMore(i, h)
    <2>1. PICK n \in Nat : n = call[i].left - 1
      BY <1>3, TypeFacts DEF TakesMore
    <2>2. call'[i] = [call[i] EXCEPT !.left = n, !.acc = a] /\ call[i].pc = "reduce"
      BY <1>2, <1>3, <2>1 DEF TakesMore, Reduced
    <2>3. /\ call'[i] \in Frames /\ call'[i].axis = call[i].axis /\ call'[i].time = call[i].time
          /\ call'[i].pc = "reduce" /\ call'[i].left = n /\ call'[i].acc = a
      BY <1>1, <2>2 DEF Frames
    <2>4. ~DropsIt(i) /\ ~PassesOn(i, h)
      BY <1>3 DEF TakesMore, DropsIt, PassesOn
    <2> QED
      BY <1>2, <2>1, <2>3, <2>4
  <1>4. CASE DropsIt(i)
    <2>1. call'[i] = [call[i] EXCEPT !.pc = "insert"]
      BY <1>4 DEF DropsIt
    <2>2. /\ call'[i] \in Frames /\ call'[i].axis = call[i].axis /\ call'[i].time = call[i].time
          /\ call'[i].pc = "insert"
      BY <1>1, <2>1 DEF Frames
    <2>3. ~TakesMore(i, h) /\ ~PassesOn(i, h)
      BY <1>4 DEF TakesMore, DropsIt, PassesOn
    <2> QED
      BY <2>2, <2>3
  <1>5. CASE PassesOn(i, h)
    <2>1. call'[i] = [call[i] EXCEPT !.pc = "wait"]
      BY <1>5 DEF PassesOn
    <2>2. /\ call'[i] \in Frames /\ call'[i].axis = call[i].axis /\ call'[i].time = call[i].time
          /\ call'[i].pc = "wait"
      BY <1>1, <2>1 DEF Frames
    <2>3. ~TakesMore(i, h) /\ ~DropsIt(i)
      BY <1>5 DEF TakesMore, DropsIt, PassesOn
    <2>4. PICK j \in Nums, t \in Nat : j = i + 1 /\ t = h.time
      BY <1>1, <1>5 DEF PassesOn
    <2>5. call'[j] = Frame(j, a, t)
      BY <1>2, <1>5, <2>4 DEF PassesOn
    <2>6. /\ call'[j].axis = a /\ call'[j].time = t
          /\ call'[j].acc = {} /\ call'[j].left = Takes(j)
          /\ call'[j].pc = IF Full(j) THEN "reduce" ELSE "insert"
          /\ call'[j] \in Frames
      <3>2. /\ call'[j].axis = a /\ call'[j].time = t
            /\ call'[j].acc = {} /\ call'[j].left = Takes(j)
        BY <2>5, FrameFields
      <3>3. call'[j].pc = IF Full(j) THEN "reduce" ELSE "insert"
        BY <2>5, FrameFields
      <3>4. call'[j] \in Frames
        BY <2>5, FrameType, Zenon
      <3> QED
        BY <3>2, <3>3, <3>4
    <2> QED
      BY <1>2, <2>2, <2>3, <2>4, <2>6
  <1> QED
    BY <1>3, <1>4, <1>5 DEF Reduced

LEMMA ReduceTypes ==
  ASSUME Types, TableOK, NEW i \in Nums, Mirrored, Nested, Placed, Reduce(i)
  PROVE  Types'
  <1>1. PICK h : Reduced(i, h)
    BY ReduceRows
  <1>2. layers' \in [Nums -> UNION {Rings(j) : j \in Nums}] /\ \A j \in Nums : layers'[j] \in Rings(j)
    BY ReduceCounts DEF Types
  <1>3. call' = [j \in Nums |-> call'[j]]
    BY DEF Reduce, Types
  <1>4. ASSUME NEW j \in Nums PROVE call'[j] \in Frames
    <2>1. call[j] \in Frames
      BY TypeFacts
    <2>2. \/ call'[j] = call[j]
          \/ j = i
          \/ PassesOn(i, h) /\ j = i + 1
      BY <1>1 DEF Reduced, TakesMore, DropsIt, PassesOn, OtherCalls
    <2> QED
      BY <1>1, <2>1, <2>2, ReducedFrames
  <1>5. UNCHANGED <<table, phase, now, appended, crashes, torn>>
    BY DEF Reduce
  <1> QED
    BY <1>2, <1>3, <1>4, <1>5 DEF Types

LEMMA ReduceNested ==
  ASSUME Types, TableOK, NEW i \in Nums, Mirrored, Nested, Placed, Reduce(i)
  PROVE  Nested'
  <1>1. PICK h : Reduced(i, h)
    BY ReduceRows
  <1>2. /\ Count(i)' = Count(i) - 1
        /\ \A j \in Nums \ {i} : Count(j)' = Count(j) /\ layers'[j] = layers[j]
        /\ layers'[i].empty = FALSE
        /\ Count(i) \in 1 .. LayerLen[i]
    BY ReduceCounts
  <1>3. i \in Nat /\ LayerLen[i] \in Nat /\ Takes(i) \in 1 .. LayerLen[i] /\ call[i].pc = "reduce"
    BY <1>1, Config DEF Reduced
  <1>4. call[i].left \in 1 .. Takes(i) /\ Count(i) = LayerLen[i] - Takes(i) + call[i].left
    BY <1>3 DEF Nested, NestedAt
  <1>5. \A j \in Nums : /\ j \in Nat /\ (j > i => ~Busy(j)) /\ (j < i => call[j].pc = "wait")
    BY <1>3, Innermost, Config
  <1>6. ~Drops(i) => Takes(i) < LayerLen[i]
    BY Config
  <1>7. Drops(i) => Takes(i) = 1
    BY DEF Takes
  <1>8. /\ Busy(i)' /\ ~(layers'[i].empty = TRUE)
        /\ Count(i)' = 0 => DropsIt(i)
    <2>1. Busy(i)'
      BY <1>1, ReducedFrames DEF Busy, Reduced
    <2>2. Count(i)' = 0 => call[i].left = 1 /\ Takes(i) = LayerLen[i]
      BY <1>2, <1>3, <1>4
    <2>3. Count(i)' = 0 => Drops(i)
      BY <1>3, <1>6, <2>2
    <2>4. Drops(i) => DropsIt(i)
      BY <1>1 DEF Reduced, TakesMore, PassesOn
    <2> QED
      BY <1>2, <2>1, <2>3, <2>4
  <1>9. CASE TakesMore(i, h)
    <2>1. \A j \in Nums \ {i} : call'[j] = call[j]
      BY <1>9 DEF TakesMore, OtherCalls
    <2>2. call'[i].pc = "reduce" /\ call'[i].left = call[i].left - 1 /\ call[i].left > 1 /\ ~DropsIt(i)
      BY <1>1, <1>9, ReducedFrames DEF TakesMore, DropsIt
    <2>3. NestedAt(i)'
      <3>1. call'[i].left \in 1 .. Takes(i) /\ Count(i)' = LayerLen[i] - Takes(i) + call'[i].left
        BY <1>2, <1>3, <1>4, <2>2
      <3>2. \A j \in Nums : j < i => call'[j].pc = "wait"
        BY <1>3, <1>5, <2>1
      <3>3. Takes(i)' = Takes(i)
        BY DEF Takes, Drops
      <3> QED
        BY <1>8, <2>2, <3>1, <3>2, <3>3 DEF NestedAt
    <2>4. ASSUME NEW j \in Nums \ {i} PROVE NestedAt(j)'
      <3>1. call'[j] = call[j] /\ layers'[j] = layers[j] /\ Count(j)' = Count(j) /\ NestedAt(j)
        BY <1>2, <2>1 DEF Nested
      <3>2. \A k \in Nums : Busy(k)' <=> Busy(k)
        BY <1>3, <1>8, <2>1 DEF Busy
      <3>3. \A k \in Nums : call'[k].pc = call[k].pc
        BY <1>3, <2>1, <2>2
      <3>4. Takes(j)' = Takes(j)
        BY DEF Takes, Drops
      <3> QED
        BY <3>1, <3>2, <3>3, <3>4 DEF NestedAt
    <2> QED
      BY <2>3, <2>4 DEF Nested
  <1>10. CASE DropsIt(i)
    <2>1. \A j \in Nums \ {i} : call'[j] = call[j]
      BY <1>10 DEF DropsIt, OtherCalls
    <2>2. call'[i].pc = "insert" /\ Count(i)' < LayerLen[i]
      BY <1>1, <1>2, <1>3, <1>10, ReducedFrames
    <2>3. NestedAt(i)'
      <3>1. \A j \in Nums : j < i => call'[j].pc = "wait"
        BY <1>3, <1>5, <2>1
      <3> QED
        BY <1>8, <2>2, <3>1 DEF NestedAt
    <2>4. ASSUME NEW j \in Nums \ {i} PROVE NestedAt(j)'
      <3>1. call'[j] = call[j] /\ layers'[j] = layers[j] /\ Count(j)' = Count(j) /\ NestedAt(j)
        BY <1>2, <2>1 DEF Nested
      <3>2. \A k \in Nums : Busy(k)' <=> Busy(k)
        BY <1>3, <1>8, <2>1 DEF Busy
      <3>3. \A k \in Nums : call[k].pc = "wait" => call'[k].pc = "wait"
        BY <1>3, <2>1
      <3>4. Takes(j)' = Takes(j)
        BY DEF Takes, Drops
      <3> QED
        BY <3>1, <3>2, <3>3, <3>4 DEF NestedAt
    <2> QED
      BY <2>3, <2>4 DEF Nested
  <1>11. CASE PassesOn(i, h)
    <2>1. PICK n \in Nums : n = i + 1 /\ n # i /\ ~Busy(n)
      BY <1>3, <1>11 DEF PassesOn
    <2>2. \A j \in Nums \ {i, n} : call'[j] = call[j]
      BY <1>11, <2>1 DEF PassesOn, OtherCalls
    <2>3. /\ call'[i].pc = "wait" /\ call'[n].left = Takes(n)
          /\ call'[n].pc = IF Full(n) THEN "reduce" ELSE "insert"
      BY <1>1, <1>11, <2>1, ReducedFrames
    <2>4. call[i].left = 1 /\ Takes(i) < LayerLen[i] /\ ~DropsIt(i)
      BY <1>6, <1>11 DEF PassesOn, DropsIt
    <2>5. Busy(n)'
      BY <2>3 DEF Busy
    <2>6. \A k \in Nums : call[k].pc = "wait" => call'[k].pc = "wait"
      BY <1>3, <2>1, <2>2 DEF Busy
    <2>7. NestedAt(i)'
      <3>1. Count(i)' \in 1 .. LayerLen[i] - 1
        BY <1>2, <1>3, <1>4, <2>4
      <3>2. \A j \in Nums : j < i => call'[j].pc = "wait"
        BY <1>5, <2>6
      <3> QED
        BY <1>8, <2>1, <2>3, <2>4, <2>5, <3>1, <3>2 DEF NestedAt
    <2>8. NestedAt(n)'
      <3>1. \A j \in Nums : j < n => call'[j].pc = "wait"
        BY <1>3, <1>5, <2>1, <2>3, <2>6
      <3>2. Count(n)' = Count(n) /\ layers'[n] = layers[n] /\ NestedAt(n) /\ MirroredAt(n)
        BY <1>2, <2>1 DEF Nested, Mirrored
      <3>3. \/ Full(n) /\ Count(n) = LayerLen[n]
            \/ ~Full(n) /\ Count(n) < LayerLen[n]
        BY <2>1, <3>2, FrameFacts
      <3>4. Takes(n) \in 1 .. LayerLen[n] /\ LayerLen[n] \in Nat
        BY Config
      <3>5. /\ call'[n].pc # "wait"
            /\ call'[n].pc = "insert" => Count(n)' < LayerLen[n]
            /\ call'[n].pc = "reduce" => /\ call'[n].left \in 1 .. Takes(n)
                                         /\ Count(n)' = LayerLen[n] - Takes(n) + call'[n].left
        BY <2>3, <3>2, <3>3, <3>4
      <3>6. /\ layers'[n].empty = TRUE => Count(n)' = 0
            /\ Count(n)' = 0 => layers'[n].empty = TRUE
        BY <2>1, <3>2 DEF NestedAt, Busy
      <3>7. Takes(n)' = Takes(n)
        BY DEF Takes, Drops
      <3> QED
        BY <3>1, <3>5, <3>6, <3>7 DEF NestedAt
    <2>9. ASSUME NEW j \in Nums \ {i, n} PROVE NestedAt(j)'
      <3>1. call'[j] = call[j] /\ layers'[j] = layers[j] /\ Count(j)' = Count(j) /\ NestedAt(j)
        BY <1>2, <2>2 DEF Nested
      <3>2. \A k \in Nums : Busy(k) => Busy(k)'
        BY <1>8, <2>2, <2>5 DEF Busy
      <3>3. Busy(j)' <=> Busy(j)
        BY <3>1 DEF Busy
      <3>4. Takes(j)' = Takes(j)
        BY DEF Takes, Drops
      <3> QED
        BY <2>6, <3>1, <3>2, <3>3, <3>4 DEF NestedAt
    <2> QED
      BY <2>7, <2>8, <2>9 DEF Nested
  <1> QED
    BY <1>1, <1>9, <1>10, <1>11 DEF Reduced

LEMMA ReducePlaced ==
  ASSUME Types, TableOK, NEW i \in Nums, NEW h, Reduced(i, h), Placed
  PROVE  Placed'
  <1>1. /\ db' \subseteq db /\ Held' = Held \ {h} /\ h \in Held /\ h.layer = i
        /\ \A r \in Held : r.layer = i /\ r # h => h.time < r.time
        /\ \A j \in Nums : layers'[j].start = IF j = i THEN h.time ELSE layers[j].start
        /\ i \in Nat /\ Held \subseteq db
    BY Config, RowFacts DEF Reduced
  <1>2. \A r \in db : r.time \in Nat /\ r.layer \in Nat
    BY RowFacts
  <1>3. ASSUME NEW r \in Held', NEW j \in Nums, r.layer <= j
        PROVE  r.time # layers'[j].start
    <2>1. CASE j = i
      <3>1. h.time < r.time
        BY <1>1, <1>2, <1>3, <2>1 DEF Placed
      <3> QED
        BY <1>1, <1>2, <2>1, <3>1
    <2>2. CASE j # i
      BY <1>1, <1>3, <2>2 DEF Placed
    <2> QED
      BY <2>1, <2>2
  <1>4. ASSUME NEW r \in db' \ Held', NEW q \in Held', r.layer = q.layer
        PROVE  r.time < q.time
    <2>1. CASE r = h
      BY <1>1, <1>4, <2>1
    <2>2. CASE r # h
      BY <1>1, <1>4, <2>2 DEF Placed
    <2> QED
      BY <2>1, <2>2
  <1> QED
    BY <1>1, <1>3, <1>4 DEF Placed

LEMMA ReducePending ==
  ASSUME Types, TableOK, NEW i \in Nums, NEW h, Reduced(i, h), Nested, Placed, Pending, now' = now
  PROVE  Pending'
  <1>1. /\ db' \subseteq db /\ Held' = Held \ {h} /\ h \in Held /\ h.layer = i
        /\ \A r \in Held : r.layer = i /\ r # h => h.time < r.time
        /\ \A j \in Nums : layers'[j].start = IF j = i THEN h.time ELSE layers[j].start
        /\ i \in Nat /\ Held \subseteq db /\ call[i].pc = "reduce"
    BY Config, RowFacts DEF Reduced
  <1>2. \A r \in db : r.time \in Nat /\ r.layer \in Nat /\ r.time <= now
    BY RowFacts
  <1>3. now \in Nat /\ \A j \in Nums : j \in Nat /\ call[j].time \in Nat
    BY Config, TypeFacts DEF Types
  <1>4. \A j \in Nums : Busy(j) => j <= i /\ PendingAt(j) /\ (call[j].pc = "reduce" => j = i)
    BY <1>1, Innermost DEF Pending
  <1>5. ASSUME NEW j \in Nums, Busy(j) PROVE PendingAt(j)'
    <2>1. call'[j].time = call[j].time /\ call'[j].axis = call[j].axis
      <3>1. CASE j = i
        BY <3>1, ReducedFrames
      <3>2. CASE j # i
        BY <1>5, <3>2 DEF Reduced, TakesMore, DropsIt, PassesOn, OtherCalls
      <3> QED
        BY <3>1, <3>2
    <2>2. j > 0 => call'[j].time = layers'[j - 1].start
      <3>1. j > 0 => j - 1 \in Nums /\ j - 1 # i
        BY <1>1, <1>3, <1>4, <1>5, StatAssumption DEF Nums
      <3> QED
        BY <1>1, <1>4, <1>5, <2>1, <3>1 DEF PendingAt
    <2>3. ASSUME NEW k \in Nums, k >= j PROVE layers'[k].start # call'[j].time
      <3>1. CASE k = i
        BY <1>1, <1>2, <1>3, <1>4, <1>5, <2>1, <2>3, <3>1 DEF PendingAt
      <3>2. CASE k # i
        BY <1>1, <1>4, <1>5, <2>1, <2>3, <3>2 DEF PendingAt
      <3> QED
        BY <3>1, <3>2
    <2>4. ASSUME NEW k \in Nums, k < j, Busy(k)' PROVE call'[j].time < call'[k].time
      <3>1. k # i /\ k # i + 1 /\ ~(k > i)
        BY <1>1, <1>3, <1>4, <1>5, <2>4
      <3>2. call'[k] = call[k]
        BY <3>1 DEF Reduced, TakesMore, DropsIt, PassesOn, OtherCalls
      <3> QED
        BY <1>4, <1>5, <2>1, <2>4, <3>2 DEF PendingAt, Busy
    <2>5. /\ call'[j].time <= now' /\ \A s \in call'[j].axis : s <= call'[j].time
          /\ \A r \in db' : r.layer >= j => r.time < call'[j].time
          /\ \A r \in db' : r.layer < j => call'[j].time <= r.time
          /\ \A r \in Held' : r.layer < j => call'[j].time < r.time
      BY <1>1, <1>4, <1>5, <2>1 DEF PendingAt
    <2> QED
      BY <2>2, <2>3, <2>4, <2>5 DEF PendingAt
  <1>6. ASSUME NEW j \in Nums, Busy(j)', ~Busy(j) PROVE PendingAt(j)'
    <2>1. PassesOn(i, h) /\ j = i + 1
      <3>1. j # i /\ call'[j] # call[j]
        BY <1>1, <1>6 DEF Busy
      <3> QED
        BY <3>1 DEF Reduced, TakesMore, DropsIt, PassesOn, OtherCalls
    <2>2. call'[j].axis = call[i].acc \cup h.axis /\ call'[j].time = h.time
      BY <2>1, ReducedFrames
    <2>3. ASSUME NEW s \in call'[j].axis PROVE s <= h.time
      BY <1>1, <2>2 DEF Pending, TableOK
    <2>4. h.time <= now' /\ (j > 0 => h.time = layers'[j - 1].start)
      <3>1. j - 1 = i
        BY <1>1, <2>1
      <3> QED
        BY <1>1, <1>2, <3>1
    <2>5. ASSUME NEW r \in db', r.layer >= j PROVE r.time < h.time
      <3>1. r \in db /\ r.layer > i
        BY <1>1, <1>2, <2>1, <2>5
      <3> QED
        BY <1>1, <3>1 DEF Placed
    <2>6. ASSUME NEW r \in db', r.layer < j PROVE h.time <= r.time /\ (r \in Held' => h.time < r.time)
      <3>1. r \in db /\ (r.layer = i \/ r.layer < i)
        BY <1>1, <1>2, <2>1, <2>6
      <3>2. CASE r.layer = i
        <4>1. r \in Held
          BY <1>1, <3>1, <3>2 DEF Reduced, Held
        <4> QED
          BY <1>1, <1>2, <3>2, <4>1
      <3>3. CASE r.layer < i
        BY <1>1, <1>2, <3>1, <3>3 DEF Placed, TableOK
      <3> QED
        BY <3>1, <3>2, <3>3
    <2>7. ASSUME NEW k \in Nums, k >= j PROVE layers'[k].start # h.time
      <3>1. k # i /\ i <= k
        BY <1>1, <1>3, <2>1, <2>7
      <3> QED
        BY <1>1, <3>1 DEF Placed
    <2>8. ASSUME NEW k \in Nums, k < j, Busy(k)' PROVE h.time < call'[k].time
      <3>1. Busy(k) /\ k <= i
        <4>1. k <= i
          BY <1>1, <1>3, <2>1, <2>8
        <4>2. CASE k = i
          BY <1>1, <4>2 DEF Busy
        <4>3. CASE k # i
          <5>1. call[k].pc = "wait"
            BY <1>1, <1>3, <4>1, <4>3, Innermost
          <5> QED
            BY <4>1, <5>1 DEF Busy
        <4> QED
          BY <4>2, <4>3
      <3>2. call'[k].time = call[k].time
        <4>1. CASE k = i
          BY <4>1, ReducedFrames
        <4>2. CASE k # i
          BY <2>1, <3>1, <4>2 DEF PassesOn, OtherCalls
        <4> QED
          BY <4>1, <4>2
      <3> QED
        BY <1>1, <1>4, <3>1, <3>2 DEF PendingAt
    <2>9. Held' \subseteq db'
      BY DEF Held
    <2> QED
      BY <2>2, <2>3, <2>4, <2>5, <2>6, <2>7, <2>8, <2>9 DEF PendingAt
  <1>7. ASSUME NEW j \in Nums, call'[j].pc = "reduce", NEW s \in call'[j].acc,
               NEW r \in Held', r.layer = j
        PROVE  s <= r.time
    <2>1. CASE j = i
      <3>1. TakesMore(i, h) /\ call'[i].acc = call[i].acc \cup h.axis
        BY <1>7, <2>1, ReducedFrames DEF Reduced
      <3>2. CASE s \in call[i].acc
        BY <1>1, <1>7, <2>1, <3>2 DEF Pending
      <3>3. CASE s \in h.axis
        <4>1. s \in Nat /\ s <= h.time /\ h.time < r.time
          BY <1>1, <1>7, <2>1, <3>3, RowFacts DEF TableOK
        <4> QED
          BY <1>1, <1>2, <4>1
      <3> QED
        BY <1>7, <2>1, <3>1, <3>2, <3>3
    <2>2. CASE j # i
      <3>1. ~(call'[j] = call[j])
        BY <1>4, <1>7, <2>2 DEF Busy
      <3>2. PassesOn(i, h) /\ j = i + 1
        BY <2>2, <3>1 DEF Reduced, TakesMore, DropsIt, PassesOn, OtherCalls
      <3> QED
        BY <1>7, <3>2, ReducedFrames
    <2> QED
      BY <2>1, <2>2
  <1> QED
    BY <1>5, <1>6, <1>7 DEF Pending

LEMMA ReduceApart ==
  ASSUME Types, TableOK, NEW i \in Nums, NEW h, Reduced(i, h), Nested, Apart
  PROVE  Apart'
  <1>1. Held' = Held \ {h} /\ h \in Held /\ i \in Nat /\ call[i].pc = "reduce" /\ Busy(i)
    BY Config DEF Reduced, Busy
  <1>2. \A j \in Nums : Busy(j) /\ call[j].pc = "reduce" => j = i
    BY <1>1, Innermost
  <1>3. ASSUME NEW j \in Nums
        PROVE  \/ Busy(j) /\ call'[j].axis = call[j].axis
               \/ PassesOn(i, h) /\ j = i + 1 /\ call'[j].axis = call[i].acc \cup h.axis
               \/ ~Busy(j)'
    <2>1. CASE j = i
      BY <1>1, <2>1, ReducedFrames
    <2>2. CASE j # i /\ call'[j] = call[j]
      BY <2>2 DEF Busy
    <2>3. CASE j # i /\ call'[j] # call[j]
      <3>1. PassesOn(i, h) /\ j = i + 1
        BY <2>3 DEF Reduced, TakesMore, DropsIt, PassesOn, OtherCalls
      <3> QED
        BY <3>1, ReducedFrames
    <2> QED
      BY <2>1, <2>2, <2>3
  <1>4. ASSUME NEW j \in Nums, call'[j].pc = "reduce", call'[j].acc # {}
        PROVE  j = i /\ TakesMore(i, h) /\ call'[i].acc = call[i].acc \cup h.axis
    <2>1. CASE j = i
      BY <1>4, <2>1, ReducedFrames DEF Reduced
    <2>2. CASE j # i
      <3>1. ~(call'[j] = call[j])
        BY <1>2, <1>4, <2>2 DEF Busy
      <3>2. PassesOn(i, h) /\ j = i + 1
        BY <2>2, <3>1 DEF Reduced, TakesMore, DropsIt, PassesOn, OtherCalls
      <3> QED
        BY <1>4, <3>2, ReducedFrames
    <2> QED
      BY <2>1, <2>2
  <1>5. /\ \A r \in Held' : (call[i].acc \cup h.axis) \cap r.axis = {}
        /\ \A j \in Nums : Busy(j) => (call[i].acc \cup h.axis) \cap call[j].axis = {}
    BY <1>1 DEF Apart
  <1>6. ASSUME NEW j \in Nums, Busy(j)', NEW r \in Held' PROVE call'[j].axis \cap r.axis = {}
    BY <1>1, <1>3, <1>5, <1>6 DEF Apart
  <1>7. ASSUME NEW j \in Nums, Busy(j)', NEW k \in Nums, Busy(k)', j # k
        PROVE  call'[j].axis \cap call'[k].axis = {}
    BY <1>3, <1>5, <1>7 DEF Apart
  <1>8. ASSUME NEW j \in Nums, call'[j].pc = "reduce"
        PROVE  /\ \A r \in Held' : call'[j].acc \cap r.axis = {}
               /\ \A k \in Nums : Busy(k)' => call'[j].acc \cap call'[k].axis = {}
    <2>1. CASE call'[j].acc = {}
      BY <2>1
    <2>2. CASE call'[j].acc # {}
      <3>1. j = i /\ TakesMore(i, h) /\ call'[j].acc = call[i].acc \cup h.axis
        BY <1>4, <1>8, <2>2
      <3>2. ~PassesOn(i, h)
        BY <3>1 DEF TakesMore, PassesOn
      <3> QED
        BY <1>3, <1>5, <3>1, <3>2
    <2> QED
      BY <2>1, <2>2
  <1>9. \A r, q \in Held' : r # q => r.axis \cap q.axis = {}
    BY <1>1 DEF Apart
  <1> QED
    BY <1>6, <1>7, <1>8, <1>9 DEF Apart

LEMMA ReduceStarted ==
  ASSUME TableOK, NEW i \in Nums, NEW h, Reduced(i, h), Started, torn' = torn
  PROVE  Started'
  <1> SUFFICES ASSUME ~torn, NEW j \in Nums
               PROVE  \E r \in db' : r.layer = j /\ r.time = layers'[j].start
    BY DEF Started
  <1>1. CASE j = i
    BY <1>1 DEF Reduced, Held
  <1>2. CASE j # i
    <2>1. PICK r \in db : r.layer = j /\ r.time = layers[j].start
      BY DEF Started
    <2> QED
      BY <1>2, <2>1 DEF Reduced
  <1> QED
    BY <1>1, <1>2

LEMMA ReduceServing ==
  ASSUME Types, TableOK, Serving, NEW i \in Nums, Reduce(i)
  PROVE  Types' /\ TableOK' /\ Serving'
  <1>1. Mirrored /\ Nested /\ Placed /\ Pending /\ Apart /\ Started /\ table
    BY DEF Serving
  <1>2. PICK h : Reduced(i, h)
    BY <1>1, ReduceRows
  <1>3. UNCHANGED <<now, table, torn>>
    BY DEF Reduce
  <1>4. Types' /\ Mirrored' /\ Nested'
    BY <1>1, ReduceTypes, ReduceMirrored, ReduceNested
  <1>5. TableOK' /\ Placed' /\ Pending' /\ Apart' /\ Started'
    BY <1>1, <1>2, <1>3, ReduceTable, ReducePlaced, ReducePending, ReduceApart, ReduceStarted
  <1> QED
    BY <1>1, <1>3, <1>4, <1>5 DEF Serving

(* An insertion, n being the row inserted: the call returns to the waiting *)
(* Reduce of the layer before, which inserts next.                         *)
Inserted(i, n) ==
  /\ n = Row(i, call[i].time, call[i].axis) /\ n \in Rows
  /\ n.layer = i /\ n.time = call[i].time /\ n.axis = call[i].axis
  /\ db' = db \cup {n} /\ Held' = Held \cup {n}
  /\ \A j \in Nums : layers'[j].start = layers[j].start
  /\ \A j \in Nums \ {i} : layers'[j] = layers[j]
  /\ call[i].pc = "insert" /\ Busy(i)
  /\ \A j \in Nums : Busy(j)' <=> j < i
  /\ \A j \in Nums : j < i => /\ Busy(j) /\ call[j].pc = "wait"
                              /\ call'[j].axis = call[j].axis /\ call'[j].time = call[j].time
                              /\ call'[j].pc = IF j + 1 = i THEN "insert" ELSE "wait"

LEMMA InsertCalls ==
  ASSUME Types, NEW i \in Nums, Nested, InsertLast(i)
  PROVE  /\ \A j \in Nums : Busy(j)' <=> j < i
         /\ \A j \in Nums : j < i => /\ Busy(j) /\ call[j].pc = "wait"
                                     /\ call'[j].axis = call[j].axis /\ call'[j].time = call[j].time
                                     /\ call'[j].pc = IF j + 1 = i THEN "insert" ELSE "wait"
         /\ call' \in [Nums -> Frames]
         /\ \A j \in Nums : j > i => call'[j] = call[j] /\ ~Busy(j)
  <1>1. call[i].pc = "insert" /\ i \in Nat
    BY Config DEF InsertLast
  <1>2. call' = [j \in Nums |-> IF j = i THEN NoFrame
                               ELSE IF j + 1 = i THEN [call[j] EXCEPT !.pc = "insert"]
                               ELSE call[j]]
    BY DEF InsertLast
  <1>3. NoFrame \in Frames /\ NoFrame.pc = "none"
    BY DEF NoFrame, Frames
  <1>4. ASSUME NEW j \in Nums
        PROVE  /\ j \in Nat /\ (j > i => ~Busy(j))
               /\ j < i => call[j].pc = "wait" /\ Busy(j)
    BY <1>1, Innermost, Config DEF Busy
  <1>5. ASSUME NEW j \in Nums
        PROVE  LET f == [call[j] EXCEPT !.pc = "insert"] IN
               f \in Frames /\ f.pc = "insert" /\ f.axis = call[j].axis /\ f.time = call[j].time
    BY TypeFacts DEF Frames
  <1>6. ASSUME NEW j \in Nums PROVE call'[j] \in Frames
    <2>1. CASE j = i
      BY <1>2, <1>3, <2>1
    <2>2. CASE j # i /\ j + 1 = i
      BY <1>2, <1>5, <2>2
    <2>3. CASE j # i /\ j + 1 # i
      BY <1>2, <2>3, TypeFacts
    <2> QED
      BY <2>1, <2>2, <2>3
  <1>7. ASSUME NEW j \in Nums, j < i
        PROVE  /\ call'[j].axis = call[j].axis /\ call'[j].time = call[j].time
               /\ call'[j].pc = IF j + 1 = i THEN "insert" ELSE "wait"
    <2>1. j # i
      BY <1>1, <1>4, <1>7
    <2>2. CASE j + 1 = i
      BY <1>2, <1>5, <2>1, <2>2
    <2>3. CASE j + 1 # i
      BY <1>2, <1>4, <1>7, <2>1, <2>3
    <2> QED
      BY <2>2, <2>3
  <1>8. ASSUME NEW j \in Nums, j > i PROVE call'[j] = call[j] /\ ~Busy(j) /\ ~Busy(j)'
    <2>1. j # i /\ j + 1 # i
      BY <1>1, <1>4, <1>8
    <2>2. call'[j] = call[j]
      BY <1>2, <2>1
    <2> QED
      BY <1>4, <1>8, <2>2 DEF Busy
  <1>9. ~Busy(i)'
    BY <1>2, <1>3 DEF Busy
  <1>10. ASSUME NEW j \in Nums, j < i PROVE Busy(j)'
    BY <1>7, <1>10 DEF Busy
  <1>11. ASSUME NEW j \in Nums PROVE Busy(j)' <=> j < i
    <2>1. j < i \/ j = i \/ j > i
      BY <1>1, <1>4
    <2>2. j = i \/ j > i => ~(j < i)
      BY <1>1, <1>4
    <2> QED
      BY <1>8, <1>9, <1>10, <2>1, <2>2
  <1>12. call' \in [Nums -> Frames]
    BY <1>2, <1>6
  <1> QED
    BY <1>4, <1>7, <1>8, <1>11, <1>12

LEMMA InsertRing ==
  ASSUME Types, NEW i \in Nums, MirroredAt(i), NestedAt(i), InsertLast(i), NEW n, n = Count(i)
  PROVE  LET l == layers[i] m == layers'[i] IN
         /\ layers' = [layers EXCEPT ![i] = WithLast(layers[i], i, call[i].axis, call[i].time)]
         /\ m \in Rings(i) /\ m.start = l.start /\ m.end = call[i].time /\ m.empty = FALSE
         /\ m.tail = (m.head + (n + 1)) % LayerLen[i]
         /\ \A k \in 0 .. n - 1 : RingRow(i, k)' = RingRow(i, k)
         /\ RingRow(i, n)' = Row(i, call[i].time, call[i].axis)
         /\ n \in 0 .. LayerLen[i] - 1
  <1>1. call[i].pc = "insert"
    BY DEF InsertLast
  <1>2. n \in 0 .. LayerLen[i] - 1
    BY <1>1, Config DEF NestedAt, MirroredAt
  <1>3. layers' = [layers EXCEPT ![i] = WithLast(layers[i], i, call[i].axis, call[i].time)]
    BY DEF InsertLast
  <1>4. PICK a \in SUBSET Nat, t \in Nat : a = call[i].axis /\ t = call[i].time
    BY TypeFacts
  <1>5. PICK l \in Rings(i) : l = layers[i] /\ l.tail = (l.head + n) % LayerLen[i]
    BY TypeFacts, Zenon DEF MirroredAt
  <1>6. PICK m : m = WithLast(l, i, a, t) /\ m = layers'[i]
    BY <1>3, <1>4, <1>5 DEF Types
  <1>7. /\ m \in Rings(i)
        /\ m.start = l.start /\ m.end = t /\ m.empty = FALSE
        /\ m.tail = (m.head + (n + 1)) % LayerLen[i]
        /\ \A k \in 0 .. n - 1 : /\ RingTime(m, i, k) = RingTime(l, i, k)
                                 /\ RingAxis(m, i, k) = RingAxis(l, i, k)
        /\ RingTime(m, i, n) = t /\ RingAxis(m, i, n) = a
    <2>1. Adds(i, l, n, a, t, m)
      BY <1>2, <1>5, <1>6, Zenon DEF Adds
    <2>2. Added(i, l, n, a, t, m)
      BY <2>1, LastAdded
    <2> QED
      BY <2>2, Zenon DEF Added
  <1>8. \A k \in 0 .. n - 1 : RingRow(i, k)' = RingRow(i, k)
    BY <1>5, <1>6, <1>7 DEF RingRow
  <1>9. RingRow(i, n)' = Row(i, t, a)
    <2>1. RingRow(i, n)' = Row(i, RingTime(m, i, n), RingAxis(m, i, n))
      BY <1>6 DEF RingRow
    <2> QED
      BY <1>7, <2>1
  <1> QED
    BY <1>2, <1>3, <1>4, <1>5, <1>6, <1>7, <1>8, <1>9, Zenon

LEMMA InsertRows ==
  ASSUME Types, TableOK, Serving, NEW i \in Nums, InsertLast(i)
  PROVE  Inserted(i, Row(i, call[i].time, call[i].axis))
  <1>1. Mirrored /\ Nested /\ Placed /\ Pending /\ MirroredAt(i) /\ NestedAt(i)
    BY DEF Serving, Mirrored, Nested
  <1>2. PICK n : n = Row(i, call[i].time, call[i].axis)
    OBVIOUS
  <1>3. /\ n \in Rows /\ n.layer = i /\ n.time = call[i].time /\ n.axis = call[i].axis
    BY <1>2, TypeFacts, Config DEF Row, Rows
  <1>4. PICK c : c = Count(i)
    OBVIOUS
  <1>5. /\ layers' = [layers EXCEPT ![i] = WithLast(layers[i], i, call[i].axis, call[i].time)]
        /\ layers'[i].start = layers[i].start
    BY <1>1, <1>4, InsertRing
  <1>6. \A j \in Nums \ {i} : layers'[j] = layers[j]
    BY <1>5 DEF Types
  <1>7. \A j \in Nums : layers'[j].start = layers[j].start
    BY <1>5, <1>6
  <1>8. db' = db \cup {n} /\ call[i].pc = "insert"
    BY <1>2 DEF InsertLast
  <1>9. Busy(i) /\ PendingAt(i) /\ i \in Nat
    BY <1>1, <1>8, Config DEF Busy, Pending
  <1>10. n.time # layers[i].start
    BY <1>3, <1>9 DEF PendingAt
  <1>11. Held' = Held \cup {n}
    <2>1. \A r \in db : r.layer \in Nums
      BY <1>1 DEF Placed
    <2>2. \A r \in db \cup {n} : r.layer \in Nums /\ layers'[r.layer].start = layers[r.layer].start
      BY <1>3, <1>7, <2>1
    <2> QED
      BY <1>3, <1>8, <1>10, <2>2 DEF Held
  <1>12. Inserted(i, n)
    BY <1>1, <1>2, <1>3, <1>6, <1>7, <1>8, <1>9, <1>11, InsertCalls DEF Inserted
  <1> QED
    BY <1>2, <1>12

LEMMA InsertCounts ==
  ASSUME Types, NEW i \in Nums, Mirrored, Nested, InsertLast(i)
  PROVE  /\ Count(i)' = Count(i) + 1
         /\ \A j \in Nums \ {i} : Count(j)' = Count(j) /\ layers'[j] = layers[j]
  <1>1. MirroredAt(i) /\ NestedAt(i)
    BY DEF Mirrored, Nested
  <1>2. LayerLen[i] \in Nat
    BY Config
  <1>3. PICK n \in Nat : n = Count(i)
    BY <1>1, <1>2 DEF MirroredAt
  <1>4. /\ layers' = [layers EXCEPT ![i] = WithLast(layers[i], i, call[i].axis, call[i].time)]
        /\ layers'[i] \in Rings(i) /\ layers'[i].empty = FALSE
        /\ layers'[i].tail = (layers'[i].head + (n + 1)) % LayerLen[i]
        /\ n \in 0 .. LayerLen[i] - 1
    BY <1>1, <1>3, InsertRing
  <1>5. \A j \in Nums \ {i} : layers'[j] = layers[j]
    BY <1>4 DEF Types
  <1>6. /\ \A j \in Nums : Busy(j)' <=> j < i
        /\ \A j \in Nums : j < i => /\ call[j].pc = "wait"
                                    /\ call'[j].pc = IF j + 1 = i THEN "insert" ELSE "wait"
        /\ \A j \in Nums : j > i => call'[j] = call[j]
    BY InsertCalls
  <1>7. i \in Nat /\ ~Busy(i)'
    BY <1>6, Config
  <1>8. Count(i)' = n + 1
    <2>1. PICK c \in 0 .. LayerLen[i] : c = n + 1 /\ c > 0
      BY <1>2, <1>4
    <2>2. PICK m \in Rings(i) : m = layers'[i] /\ m.tail = (m.head + c) % LayerLen[i] /\ m.empty = FALSE
      BY <1>4, <2>1, Zenon
    <2>3. Size(m, i) = c
      BY <2>1, <2>2, RingSize
    <2>4. ~m.empty /\ call'[i].pc # "insert"
      BY <1>7, <2>2 DEF Busy
    <2>5. Count(i)' = Size(m, i)
      <3>1. Size(layers[i], i)' = Size(m, i)
        BY <2>2, Zenon DEF Size
      <3> QED
        BY <2>2, <2>4, <3>1, Zenon DEF Count
    <2> QED
      BY <2>1, <2>3, <2>5
  <1>9. ASSUME NEW j \in Nums \ {i} PROVE Count(j)' = Count(j)
    <2>1. j \in Nat /\ LayerLen[j] \in Nat \ {0} /\ layers[j] \in Rings(j) /\ layers'[j] = layers[j]
      BY <1>5, Config, TypeFacts
    <2>2. CASE j < i
      <3>1. call[j].pc = "wait" /\ Count(j) \in 1 .. LayerLen[j] - 1 /\ MirroredAt(j)
        BY <1>6, <2>2 DEF Nested, NestedAt, Mirrored
      <3>2. PICK c \in 0 .. LayerLen[j] : c = Count(j) /\ c # 0 /\ c # LayerLen[j]
        BY <2>1, <3>1
      <3>3. layers[j].tail = (layers[j].head + c) % LayerLen[j]
        BY <3>1, <3>2, Zenon DEF MirroredAt
      <3>4. layers[j].head # layers[j].tail
        BY <2>1, <3>2, <3>3, RingSize
      <3> QED
        BY <2>1, <3>4, CountFrame
    <2>3. CASE j > i
      BY <1>6, <2>1, <2>3, CountFrame
    <2> QED
      BY <1>7, <2>1, <2>2, <2>3
  <1> QED
    BY <1>3, <1>5, <1>8, <1>9

LEMMA InsertMirrored ==
  ASSUME Types, TableOK, Serving, NEW i \in Nums, InsertLast(i)
  PROVE  Mirrored'
  <1>1. Mirrored /\ Nested /\ MirroredAt(i) /\ NestedAt(i)
    BY DEF Serving, Mirrored, Nested
  <1>2. PICK q : Inserted(i, q) /\ q = Row(i, call[i].time, call[i].axis)
    BY InsertRows
  <1>3. LayerLen[i] \in Nat
    BY Config
  <1>4. PICK n \in Nat : n = Count(i)
    BY <1>1, <1>3 DEF MirroredAt
  <1>5. /\ layers'[i].start = layers[i].start /\ layers'[i].end = call[i].time
        /\ layers'[i].tail = (layers'[i].head + (n + 1)) % LayerLen[i]
        /\ \A k \in 0 .. n - 1 : RingRow(i, k)' = RingRow(i, k)
        /\ RingRow(i, n)' = q
        /\ n \in 0 .. LayerLen[i] - 1
    BY <1>1, <1>2, <1>4, InsertRing
  <1>6. /\ q.layer = i /\ q.time = call[i].time /\ Held' = Held \cup {q}
        /\ PendingAt(i) /\ now' = now /\ now \in Nat
    BY <1>2 DEF Inserted, Serving, Pending, InsertLast, Types
  <1>7. \A r \in Held : r.layer = i => r.time < q.time
    BY <1>6, RowFacts DEF PendingAt
  <1>8. Count(i)' = n + 1
    BY <1>1, <1>4, InsertCounts
  <1>9. MirroredAt(i)'
    <2>1. /\ Count(i)' - 1 = n /\ Count(i)' \in 0 .. LayerLen[i] /\ Count(i)' # 0
      BY <1>3, <1>5, <1>8
    <2>2. ASSUME NEW j \in 0 .. n, NEW k \in 0 .. n, j < k
          PROVE  RingRow(i, j)'.time < RingRow(i, k)'.time
      <3>1. j \in 0 .. n - 1 /\ RingRow(i, j)' = RingRow(i, j)
        BY <1>5, <2>2
      <3>2. RingRow(i, j) \in Held /\ RingRow(i, j).layer = i
        BY <1>1, <1>4, <3>1, RingRows
      <3>3. CASE k = n
        BY <1>5, <1>7, <3>1, <3>2, <3>3
      <3>4. CASE k # n
        <4>1. k \in 0 .. n - 1 /\ RingRow(i, k)' = RingRow(i, k)
          BY <1>5, <3>4
        <4> QED
          BY <1>1, <1>4, <2>2, <3>1, <4>1 DEF MirroredAt
      <3> QED
        BY <3>3, <3>4
    <2>3. {r \in Held' : r.layer = i} = {RingRow(i, k)' : k \in 0 .. n}
      <3>1. ASSUME NEW r \in Held', r.layer = i
            PROVE  \E k \in 0 .. n : r = RingRow(i, k)'
        <4>1. CASE r = q
          BY <1>5, <4>1
        <4>2. CASE r \in Held
          <5>1. PICK k \in 0 .. n - 1 : r = RingRow(i, k)
            BY <1>1, <1>4, <3>1, <4>2, RingRows
          <5> QED
            BY <1>5, <5>1
        <4> QED
          BY <1>6, <4>1, <4>2
      <3>2. ASSUME NEW k \in 0 .. n
            PROVE  RingRow(i, k)' \in Held' /\ RingRow(i, k)'.layer = i
        <4>1. CASE k = n
          BY <1>5, <1>6, <4>1
        <4>2. CASE k # n
          <5>1. k \in 0 .. n - 1
            BY <4>2
          <5> QED
            BY <1>1, <1>4, <1>5, <1>6, <5>1, RingRows
        <4> QED
          BY <4>1, <4>2
      <3> QED
        BY <3>1, <3>2
    <2>4. {RingRow(i, k)' : k \in 0 .. n} = {RingRow(i, k)' : k \in 0 .. Count(i)' - 1}
      BY <2>1
    <2>5. layers'[i].end = IF Count(i)' = 0 THEN layers'[i].start ELSE RingRow(i, Count(i) - 1)'.time
      BY <1>5, <1>6, <2>1
    <2>6. \A j, k \in 0 .. Count(i)' - 1 : j < k => RingRow(i, j)'.time < RingRow(i, k)'.time
      BY <2>1, <2>2
    <2>7. layers'[i].start <= now' /\ layers'[i].tail = (layers'[i].head + Count(i)') % LayerLen[i]
      BY <1>1, <1>5, <1>6, <1>8, Zenon DEF MirroredAt
    <2> QED
      BY <2>1, <2>3, <2>4, <2>5, <2>6, <2>7, Zenon DEF MirroredAt
  <1>10. ASSUME NEW j \in Nums \ {i} PROVE MirroredAt(j)'
    <2>1. {r \in Held' : r.layer = j} = {r \in Held : r.layer = j}
      BY <1>6
    <2>2. MirroredAt(j) /\ layers[j].start \in Nat /\ now' \in Nat /\ now <= now'
      BY <1>1, <1>6, TypeFacts DEF Mirrored
    <2>3. Count(j)' = Count(j) /\ layers'[j] = layers[j]
      BY <1>1, InsertCounts
    <2> QED
      BY <1>6, <2>1, <2>2, <2>3, MirrorFrame
  <1> QED
    BY <1>9, <1>10 DEF Mirrored

LEMMA InsertNested ==
  ASSUME Types, NEW i \in Nums, Mirrored, Nested, InsertLast(i)
  PROVE  Nested'
  <1>1. /\ \A j \in Nums : Busy(j)' <=> j < i
        /\ \A j \in Nums : j < i => /\ Busy(j) /\ call[j].pc = "wait"
                                    /\ call'[j].pc = IF j + 1 = i THEN "insert" ELSE "wait"
        /\ \A j \in Nums : j > i => call'[j] = call[j] /\ ~Busy(j)
    BY InsertCalls
  <1>2. /\ Count(i)' = Count(i) + 1
        /\ \A j \in Nums \ {i} : Count(j)' = Count(j) /\ layers'[j] = layers[j]
    BY InsertCounts
  <1>3. i \in Nat /\ LayerLen[i] \in Nat /\ Count(i) \in Nat
    BY Config DEF Mirrored, MirroredAt
  <1>4. layers'[i].empty = FALSE
    BY InsertRing DEF Mirrored, Nested
  <1>5. NestedAt(i)'
    <2>1. call'[i].pc = "none" /\ ~Busy(i)'
      BY <1>1, <1>3 DEF Busy
    <2>2. Count(i)' # 0
      BY <1>2, <1>3
    <2> QED
      BY <1>4, <2>1, <2>2 DEF NestedAt
  <1>6. ASSUME NEW j \in Nums, j < i PROVE NestedAt(j)'
    <2>1. /\ j \in Nat /\ LayerLen[j] \in Nat /\ j # i /\ Busy(j) /\ call[j].pc = "wait"
          /\ call'[j].pc = IF j + 1 = i THEN "insert" ELSE "wait"
      BY <1>1, <1>3, <1>6, Config
    <2>2. NestedAt(j) /\ Count(j)' = Count(j) /\ layers'[j] = layers[j]
      BY <1>2, <2>1 DEF Nested
    <2>3. j + 1 \in Nums /\ Count(j) \in 1 .. LayerLen[j] - 1
      BY <2>1, <2>2 DEF NestedAt
    <2>4. \A k \in Nums : k < j => call'[k].pc = "wait"
      <3>1. \A k \in Nums : k \in Nat
        BY Config
      <3> QED
        BY <1>1, <1>3, <1>6, <2>1, <3>1
    <2>5. j + 1 # i => Busy(j + 1)'
      BY <1>1, <1>3, <1>6, <2>1, <2>3
    <2>6. Count(j)' # 0 /\ Count(j)' < LayerLen[j]
      BY <2>1, <2>2, <2>3
    <2>7. ~(layers'[j].empty = TRUE)
      BY <2>2, <2>6 DEF NestedAt
    <2> QED
      BY <2>1, <2>2, <2>3, <2>4, <2>5, <2>6, <2>7 DEF NestedAt
  <1>7. ASSUME NEW j \in Nums, j > i PROVE NestedAt(j)'
    <2>1. j # i /\ j \in Nat
      BY <1>3, <1>7, Config
    <2>2. NestedAt(j) /\ Count(j)' = Count(j) /\ layers'[j] = layers[j] /\ call'[j] = call[j]
          /\ ~Busy(j)
      BY <1>1, <1>2, <1>7, <2>1 DEF Nested
    <2> QED
      BY <2>2 DEF NestedAt, Busy
  <1>8. \A j \in Nums : j < i \/ j = i \/ j > i
    BY <1>3, Config
  <1> QED
    BY <1>5, <1>6, <1>7, <1>8 DEF Nested

LEMMA InsertTypes ==
  ASSUME Types, NEW i \in Nums, Mirrored, Nested, InsertLast(i)
  PROVE  Types'
  <1>1. PICK n : n = Count(i)
    OBVIOUS
  <1>2. MirroredAt(i) /\ NestedAt(i)
    BY DEF Mirrored, Nested
  <1>3. /\ layers' = [layers EXCEPT ![i] = WithLast(layers[i], i, call[i].axis, call[i].time)]
        /\ layers'[i] \in Rings(i)
    BY <1>1, <1>2, InsertRing
  <1> DEFINE m == WithLast(layers[i], i, call[i].axis, call[i].time)
  <1>4. m \in Rings(i) /\ layers' = [layers EXCEPT ![i] = m]
    BY <1>3 DEF Types
  <1> HIDE DEF m
  <1>5. layers' \in [Nums -> UNION {Rings(j) : j \in Nums}] /\ \A j \in Nums : layers'[j] \in Rings(j)
    BY <1>4 DEF Types
  <1>6. call' \in [Nums -> Frames]
    BY InsertCalls
  <1>7. UNCHANGED <<table, phase, now, appended, crashes, torn>>
    BY DEF InsertLast
  <1> QED
    BY <1>5, <1>6, <1>7 DEF Types

LEMMA InsertPlaced ==
  ASSUME TableOK, NEW i \in Nums, NEW n, Inserted(i, n), Placed, Pending
  PROVE  Placed'
  <1>1. /\ n.layer = i /\ n.time = call[i].time /\ PendingAt(i)
        /\ db' = db \cup {n} /\ Held' = Held \cup {n} /\ Held \subseteq db
        /\ \A j \in Nums : layers'[j].start = layers[j].start
    BY RowFacts DEF Inserted, Pending
  <1>2. i \in Nat /\ \A r \in db : r.layer \in Nat
    BY Config, RowFacts
  <1>3. ASSUME NEW r \in Held', NEW j \in Nums, r.layer <= j PROVE r.time # layers'[j].start
    <2>1. CASE r \in Held
      BY <1>1, <1>3, <2>1 DEF Placed
    <2>2. CASE r = n
      <3>1. j >= i
        BY <1>1, <1>3, <2>2, Config
      <3> QED
        BY <1>1, <2>2, <3>1 DEF PendingAt
    <2> QED
      BY <1>1, <2>1, <2>2
  <1>4. ASSUME NEW r \in db' \ Held', NEW q \in Held', r.layer = q.layer PROVE r.time < q.time
    <2>1. CASE q \in Held
      BY <1>1, <1>4, <2>1 DEF Placed
    <2>2. CASE q = n
      <3>1. r \in db /\ r.layer >= i
        BY <1>1, <1>2, <1>4, <2>2
      <3> QED
        BY <1>1, <2>2, <3>1 DEF PendingAt
    <2> QED
      BY <1>1, <2>1, <2>2
  <1>5. ASSUME NEW r \in db', NEW q \in Held', r.layer > q.layer PROVE r.time < q.time
    <2>1. CASE r \in db /\ q \in Held
      BY <1>5, <2>1 DEF Placed
    <2>2. CASE r \in db /\ q = n
      <3>1. r.layer >= i
        BY <1>1, <1>2, <1>5, <2>2
      <3> QED
        BY <1>1, <2>2, <3>1 DEF PendingAt
    <2>3. CASE r = n /\ q \in Held
      <3>1. q.layer < i
        BY <1>1, <1>2, <1>5, <2>3
      <3> QED
        BY <1>1, <2>3, <3>1 DEF PendingAt
    <2>4. CASE r = n /\ q = n
      BY <1>1, <1>2, <1>5, <2>4
    <2> QED
      BY <1>1, <2>1, <2>2, <2>3, <2>4
  <1>6. \A r \in db' : r.layer \in Nums
    BY <1>1 DEF Placed
  <1> QED
    BY <1>3, <1>4, <1>5, <1>6 DEF Placed

LEMMA InsertPending ==
  ASSUME Types, TableOK, NEW i \in Nums, NEW n, Inserted(i, n), Pending, now' = now
  PROVE  Pending'
  <1>1. /\ n.layer = i /\ n.time = call[i].time /\ PendingAt(i) /\ i \in Nat
        /\ db' = db \cup {n} /\ Held' = Held \cup {n}
        /\ \A j \in Nums : layers'[j].start = layers[j].start
    BY Config DEF Inserted, Pending
  <1>2. \A j \in Nums : /\ j \in Nat /\ (Busy(j)' <=> j < i)
                        /\ j < i => /\ Busy(j) /\ PendingAt(j) /\ call'[j].pc # "reduce"
                                    /\ call'[j].axis = call[j].axis /\ call'[j].time = call[j].time
    BY Config DEF Inserted, Pending
  <1>3. ASSUME NEW j \in Nums, Busy(j)' PROVE PendingAt(j)'
    <2>1. /\ j < i /\ Busy(j) /\ PendingAt(j)
          /\ call'[j].axis = call[j].axis /\ call'[j].time = call[j].time
      BY <1>2, <1>3
    <2>2. n.time < call[j].time /\ ~(n.layer < j)
      BY <1>1, <1>2, <2>1 DEF PendingAt
    <2>3. j > 0 => j - 1 \in Nums
      BY <1>2, StatAssumption DEF Nums
    <2>4. \A k \in Nums : k < j => k < i
      BY <1>1, <1>2, <2>1
    <2>5. ASSUME NEW k \in Nums, k < j, Busy(k)' PROVE call'[j].time < call'[k].time
      BY <1>2, <2>1, <2>4, <2>5 DEF PendingAt
    <2>6. /\ j > 0 => call'[j].time = layers'[j - 1].start
          /\ \A k \in Nums : k >= j => layers'[k].start # call'[j].time
      BY <1>1, <2>1, <2>3 DEF PendingAt
    <2>7. /\ call'[j].time <= now' /\ \A s \in call'[j].axis : s <= call'[j].time
          /\ \A r \in db' : r.layer >= j => r.time < call'[j].time
          /\ \A r \in db' : r.layer < j => call'[j].time <= r.time
          /\ \A r \in Held' : r.layer < j => call'[j].time < r.time
      BY <1>1, <2>1, <2>2 DEF PendingAt
    <2> QED
      BY <2>5, <2>6, <2>7 DEF PendingAt
  <1>4. \A j \in Nums : call'[j].pc # "reduce"
    BY <1>2 DEF Busy
  <1> QED
    BY <1>3, <1>4 DEF Pending

LEMMA InsertApart ==
  ASSUME Types, NEW i \in Nums, NEW n, Inserted(i, n), Apart
  PROVE  Apart'
  <1>1. n.axis = call[i].axis /\ Held' = Held \cup {n} /\ Busy(i) /\ i \in Nat
    BY Config DEF Inserted
  <1>2. \A j \in Nums : /\ j \in Nat /\ (Busy(j)' <=> j < i)
                        /\ j < i => /\ Busy(j) /\ j # i /\ call'[j].pc # "reduce"
                                    /\ call'[j].axis = call[j].axis
    BY <1>1, Config DEF Inserted
  <1>3. \A j \in Nums : call'[j].pc # "reduce"
    BY <1>2 DEF Busy
  <1>4. \A r, q \in Held' : r # q => r.axis \cap q.axis = {}
    BY <1>1 DEF Apart
  <1>5. ASSUME NEW j \in Nums, Busy(j)'
        PROVE  /\ \A r \in Held' : call'[j].axis \cap r.axis = {}
               /\ \A k \in Nums : Busy(k)' /\ j # k => call'[j].axis \cap call'[k].axis = {}
    BY <1>1, <1>2, <1>5 DEF Apart
  <1> QED
    BY <1>3, <1>4, <1>5 DEF Apart

(* A row that is not the first of its layer is in its ring. *)
LEMMA NotFirstHeld ==
  ASSUME TableOK, Placed, NEW r \in db, ~First(r)
  PROVE  r \in Held
  <1>1. PICK q \in db : q.layer = r.layer /\ ~(r.time <= q.time)
    BY DEF First
  <1>2. q.time < r.time /\ r.time \in Nat /\ q.time \in Nat
    BY <1>1, RowFacts
  <1> QED
    BY <1>1, <1>2 DEF Placed, Held

LEMMA InsertTable ==
  ASSUME Types, TableOK, Serving, NEW i \in Nums, NEW n, Inserted(i, n), InsertLast(i), Placed', Apart'
  PROVE  TableOK'
  <1>1. /\ n.layer = i /\ n.time = call[i].time /\ n.axis = call[i].axis /\ n \in Rows
        /\ db' = db \cup {n} /\ i \in Nat /\ PendingAt(i)
        /\ Mirrored /\ Nested /\ Busy(i)
    BY Config DEF Inserted, Serving, Pending
  <1>2. IsFiniteSet(db') /\ db' \subseteq Rows
    BY <1>1, FS_AddElement DEF TableOK
  <1>3. UNCHANGED <<now, table>> /\ table
    BY DEF InsertLast, Serving
  <1>4. ASSUME NEW r \in db', NEW j \in 0 .. r.layer PROVE \E q \in db' : q.layer = j
    <2>1. CASE r \in db
      BY <1>1, <2>1 DEF TableOK
    <2>2. CASE r = n /\ j = i
      BY <1>1, <2>2
    <2>3. CASE r = n /\ j # i
      <3>1. j \in Nums /\ j < i
        BY <1>1, <2>3, StatAssumption DEF Nums
      <3>2. call[j].pc = "wait" /\ MirroredAt(j) /\ NestedAt(j)
        BY <1>1, <3>1 DEF Mirrored, Nested, NestedAt
      <3>3. Count(j) > 0
        BY <3>1, <3>2, Config DEF NestedAt
      <3> QED
        BY <1>1, <3>1, <3>2, <3>3, FirstHeld, RowFacts
    <2> QED
      BY <1>1, <2>1, <2>2, <2>3
  <1>5. \A r \in db : /\ r.time \in Nat /\ r.layer \in Nat
                      /\ r.layer >= i => r.time < n.time
                      /\ r.layer < i => n.time <= r.time
    BY <1>1, RowFacts DEF PendingAt
  <1>6. n.time \in Nat
    BY <1>1, TypeFacts
  <1>7. ASSUME NEW r \in db', NEW q \in db'
        PROVE  /\ r.layer = q.layer /\ r.time = q.time => r = q
               /\ r.layer > q.layer => r.time <= q.time
    BY <1>1, <1>5, <1>6 DEF TableOK
  <1>8. \A r \in db' : r.time <= now' /\ \A s \in r.axis : s <= r.time
    BY <1>1, <1>3 DEF TableOK, PendingAt
  <1>9. ASSUME NEW r \in db', ~First(r)' PROVE r \in Held'
    <2>1. PICK q \in db' : q.layer = r.layer /\ ~(r.time <= q.time)
      BY <1>9 DEF First
    <2>2. q.time < r.time /\ r.time \in Nat /\ q.time \in Nat
      BY <1>1, <1>5, <1>6, <2>1
    <2> QED
      BY <2>1, <2>2 DEF Placed, Held
  <1>10. \A r, q \in db' : ~First(r)' /\ ~First(q)' /\ r # q => r.axis \cap q.axis = {}
    BY <1>9 DEF Apart
  <1> QED
    BY <1>2, <1>3, <1>4, <1>7, <1>8, <1>10 DEF TableOK

LEMMA InsertServing ==
  ASSUME Types, TableOK, Serving, NEW i \in Nums, InsertLast(i)
  PROVE  Types' /\ TableOK' /\ Serving'
  <1>1. Mirrored /\ Nested /\ Placed /\ Pending /\ Apart /\ Started /\ table
    BY DEF Serving
  <1>2. PICK n : Inserted(i, n)
    BY InsertRows
  <1>3. UNCHANGED <<now, table, torn>>
    BY DEF InsertLast
  <1>4. Types' /\ Mirrored' /\ Nested'
    BY <1>1, InsertTypes, InsertMirrored, InsertNested
  <1>5. Placed' /\ Pending' /\ Apart'
    BY <1>1, <1>2, <1>3, InsertPlaced, InsertPending, InsertApart
  <1>6. TableOK'
    BY <1>2, <1>5, InsertTable
  <1>7. Started'
    BY <1>1, <1>2, <1>3 DEF Started, Inserted
  <1> QED
    BY <1>1, <1>3, <1>4, <1>5, <1>6, <1>7 DEF Serving

-----------------------------------------------------------------------------
(* Stat.Append.                                                            *)

LEMMA AppendServing ==
  ASSUME Types, TableOK, Serving, StatAppend
  PROVE  Types' /\ TableOK' /\ Serving'
  <1>1. Mirrored /\ Nested /\ Placed /\ Pending /\ Apart /\ Started /\ table
    BY DEF Serving
  <1>2. 0 \in Nums
    BY StatAssumption DEF Nums
  <1>3. /\ UNCHANGED <<layers, table, db, phase, marked, crashes, torn>>
        /\ now \in Nat /\ now' = now + 1 /\ \A j \in Nums : ~Busy(j)
    BY DEF StatAppend, Quiet, Types, Busy
  <1>4. PICK t \in Nat, a \in SUBSET Nat : t = now + 1 /\ a = {t}
    <2>1. PICK t \in Nat : t = now + 1
      BY <1>3
    <2>2. {t} \in SUBSET Nat
      OBVIOUS
    <2> QED
      BY <2>1, <2>2
  <1>5. call' = [call EXCEPT ![0] = Frame(0, a, t)]
    BY <1>3, <1>4 DEF StatAppend
  <1>6. call'[0] = Frame(0, a, t) /\ \A j \in Nums \ {0} : call'[j] = call[j]
    BY <1>2, <1>5 DEF Types
  <1>7. Frame(0, a, t) \in Frames
    BY <1>2, FrameType, Zenon
  <1>8. /\ call'[0].axis = a /\ call'[0].time = t
        /\ call'[0].acc = {} /\ call'[0].left = Takes(0)
        /\ call'[0].pc = IF Full(0) THEN "reduce" ELSE "insert"
    BY <1>2, <1>6, FrameFields
  <1>9. \/ Full(0) /\ Count(0) = LayerLen[0]
        \/ /\ ~Full(0) /\ Count(0) < LayerLen[0]
           /\ layers[0].head # layers[0].tail \/ layers[0].empty = TRUE
    BY <1>1, <1>2, <1>3, FrameFacts DEF Mirrored, Nested
  <1>10. ASSUME NEW j \in Nums PROVE Count(j)' = Count(j)
    <2>1. call[j].pc = "none" /\ layers'[j] = layers[j]
      BY <1>3 DEF Busy
    <2>2. CASE j = 0 /\ Full(0)
      BY <1>8, <2>1, <2>2, CountFrame
    <2>3. CASE j = 0 /\ ~Full(0)
      BY <1>9, <2>1, <2>3, CountFrame
    <2>4. CASE j # 0
      BY <1>6, <2>1, <2>4, CountFrame
    <2> QED
      BY <2>2, <2>3, <2>4
  <1>11. Types'
    <2>1. call' \in [Nums -> Frames]
      BY <1>5, <1>7 DEF Types
    <2>2. appended' \in SUBSET Nat
      BY <1>3 DEF StatAppend, Types
    <2> QED
      BY <1>3, <2>1, <2>2 DEF Types
  <1>12. Held' = Held
    BY <1>3 DEF Held
  <1>13. TableOK'
    <2>1. \A r \in db : r.time <= now'
      BY <1>3, RowFacts
    <2>2. \A r : First(r)' <=> First(r)
      BY <1>3 DEF First
    <2> QED
      BY <1>3, <2>1, <2>2 DEF TableOK
  <1>14. Mirrored'
    <2>1. ASSUME NEW j \in Nums PROVE MirroredAt(j)'
      <3>1. MirroredAt(j) /\ layers[j].start \in Nat /\ now' \in Nat /\ now <= now'
        BY <1>1, <1>3, TypeFacts DEF Mirrored
      <3>2. {r \in Held' : r.layer = j} = {r \in Held : r.layer = j}
        BY <1>12
      <3> QED
        BY <1>3, <1>10, <3>1, <3>2, MirrorFrame
    <2> QED
      BY <2>1 DEF Mirrored
  <1>15. Nested'
    <2>1. NestedAt(0)'
      <3>1. \A j \in Nums : ~(j < 0)
        BY Config
      <3>2. Takes(0) \in 1 .. LayerLen[0] /\ LayerLen[0] \in Nat /\ Takes(0)' = Takes(0)
        BY <1>2, Config DEF Takes, Drops
      <3>3. /\ call'[0].pc # "wait"
            /\ call'[0].pc = "insert" => Count(0)' < LayerLen[0]
            /\ call'[0].pc = "reduce" => /\ call'[0].left \in 1 .. Takes(0)
                                         /\ Count(0)' = LayerLen[0] - Takes(0) + call'[0].left
        BY <1>2, <1>8, <1>9, <1>10, <3>2
      <3>4. /\ layers'[0].empty = TRUE => Count(0)' = 0
            /\ Count(0)' = 0 => layers'[0].empty = TRUE
        BY <1>1, <1>2, <1>3, <1>10 DEF Nested, NestedAt, Busy
      <3> QED
        BY <3>1, <3>2, <3>3, <3>4 DEF NestedAt
    <2>2. ASSUME NEW j \in Nums \ {0} PROVE NestedAt(j)'
      <3>1. NestedAt(j) /\ call'[j] = call[j] /\ layers'[j] = layers[j] /\ Count(j)' = Count(j)
            /\ ~Busy(j)
        BY <1>1, <1>3, <1>6, <1>10 DEF Nested
      <3> QED
        BY <3>1 DEF NestedAt, Busy
    <2> QED
      BY <2>1, <2>2 DEF Nested
  <1>16. Placed'
    BY <1>1, <1>3, <1>12 DEF Placed
  <1>17. \A j \in Nums : Busy(j)' <=> j = 0
    BY <1>3, <1>6, <1>8 DEF Busy
  <1>18. Pending'
    <2>1. PendingAt(0)'
      <3>1. \A r \in db : r.layer \in Nat /\ r.time < t
        BY <1>3, <1>4, RowFacts
      <3>2. \A j \in Nums : j \in Nat /\ layers[j].start # t
        BY <1>1, <1>3, <1>4, TypeFacts, Config DEF Mirrored, MirroredAt
      <3>3. t <= now' /\ \A s \in a : s <= t
        BY <1>3, <1>4
      <3>4. \A r \in db : ~(r.layer < 0)
        BY <3>1
      <3>5. Held \subseteq db /\ \A j \in Nums : ~(j < 0)
        BY <3>2 DEF Held
      <3>6. db' = db /\ layers' = layers /\ ~(0 > 0)
        BY <1>3
      <3> QED
        BY <1>8, <1>12, <3>1, <3>2, <3>3, <3>4, <3>5, <3>6 DEF PendingAt
    <2> QED
      BY <1>8, <1>17, <2>1 DEF Pending, Busy
  <1>19. Apart'
    <2>1. ASSUME NEW r \in Held PROVE a \cap r.axis = {}
      <3>1. \A s \in r.axis : s \in Nat /\ s <= now
        BY RowFacts, <1>3 DEF TableOK
      <3> QED
        BY <1>3, <1>4, <3>1
    <2>2. \A j \in Nums : call'[j].pc = "reduce" => call'[j].acc = {}
      BY <1>8, <1>17 DEF Busy
    <2> QED
      BY <1>1, <1>8, <1>12, <1>17, <2>1, <2>2 DEF Apart
  <1>20. Started'
    BY <1>1, <1>3 DEF Started
  <1> QED
    BY <1>1, <1>3, <1>11, <1>13, <1>14, <1>15, <1>16, <1>18, <1>19, <1>20 DEF Serving

-----------------------------------------------------------------------------
(* Restore.                                                                *)

LEMMA NewRing ==
  ASSUME NEW i \in Nums, NEW t \in Nat
  PROVE  LET l == newLayerStat(i, t) IN
         /\ l \in Rings(i) /\ l.start = t /\ l.end = t
         /\ l.head = 0 /\ l.tail = 0 /\ l.empty = TRUE
  <1>1. 0 \in Slots(i)
    BY Config DEF Slots
  <1>2. /\ [k \in Slots(i) |-> {}] \in [Slots(i) -> SUBSET Nat]
        /\ [k \in Slots(i) |-> 0] \in [Slots(i) -> Nat]
    OBVIOUS
  <1> QED
    BY <1>1, <1>2 DEF newLayerStat, Rings, Slots

(* A ring that was never used corresponds to a layer without held rows. *)
LEMMA EmptyRing ==
  ASSUME Types', NEW i \in Nums, layers'[i].head = layers'[i].tail, layers'[i].empty = TRUE,
         layers'[i].end = layers'[i].start, layers'[i].start <= now', \A r \in Held' : r.layer # i
  PROVE  Count(i)' = 0 /\ MirroredAt(i)'
  <1>1. Count(i)' = 0
    BY Zenon DEF Count
  <1>2. PICK L \in Nat \ {0} : L = LayerLen[i]
    BY Config
  <1>3. PICK h \in 0 .. L - 1 : h = layers'[i].head
    BY <1>2 DEF Types, Rings, Slots
  <1>4. layers'[i].tail = (layers'[i].head + Count(i)') % LayerLen[i]
    <2>1. At(h, 0, L) = h
      BY RingIndex
    <2> QED
      BY <1>1, <1>2, <1>3, <2>1, Zenon DEF At
  <1>5. {r \in Held' : r.layer = i} = {RingRow(i, k)' : k \in 0 .. Count(i)' - 1}
    BY <1>1
  <1>6. Count(i)' \in 0 .. LayerLen[i]
    BY <1>1, <1>2
  <1>7. \A j, k \in 0 .. Count(i)' - 1 : j < k => RingRow(i, j)'.time < RingRow(i, k)'.time
    BY <1>1
  <1> QED
    BY <1>1, <1>4, <1>5, <1>6, <1>7, Zenon DEF MirroredAt

(* The start rows inserted so far. *)
StartRows(m, t) == {Row(i, t, {}) : i \in 0 .. m - 1}

LEMMA StartRowFacts ==
  ASSUME NEW m \in Nat, NEW t \in Nat
  PROVE  /\ \A r \in StartRows(m, t) :
              r \in Rows /\ r.time = t /\ r.axis = {} /\ r.layer \in 0 .. m - 1
         /\ \A i \in 0 .. m - 1 : \E r \in StartRows(m, t) : r.layer = i
         /\ StartRows(m + 1, t) = StartRows(m, t) \cup {Row(m, t, {})}
         /\ StartRows(0, t) = {}
  <1>1. \A i : Row(i, t, {}).layer = i /\ Row(i, t, {}).time = t /\ Row(i, t, {}).axis = {}
    BY DEF Row
  <1>2. \A i \in 0 .. m - 1 : Row(i, t, {}) \in Rows
    BY DEF Row, Rows
  <1>3. 0 .. (m + 1) - 1 = (0 .. m - 1) \cup {m} /\ 0 .. 0 - 1 = {}
    OBVIOUS
  <1>4. StartRows(m + 1, t) = StartRows(m, t) \cup {Row(m, t, {})} /\ StartRows(0, t) = {}
    BY <1>3, Zenon DEF StartRows
  <1> QED
    BY <1>1, <1>2, <1>4 DEF StartRows

LEMMA StartTable ==
  ASSUME NEW m \in Nat, now' \in Nat, db' = StartRows(m, now'), IsFiniteSet(db'), table'
  PROVE  TableOK'
  <1>1. \A r \in db' : r \in Rows /\ r.time = now' /\ r.axis = {} /\ r.layer \in 0 .. m - 1
    BY StartRowFacts
  <1>2. ASSUME NEW r \in db', NEW i \in 0 .. r.layer PROVE \E q \in db' : q.layer = i
    <2>1. i \in 0 .. m - 1
      BY <1>1
    <2> QED
      BY <2>1, StartRowFacts
  <1>3. \A r, q \in db' : r.layer = q.layer => r = q
    BY <1>1 DEF Rows
  <1> QED
    BY <1>1, <1>2, <1>3 DEF TableOK

LEMMA UnusedFacts ==
  ASSUME Unused, now \in Nat, NEW i \in Nums
  PROVE  /\ layers[i] \in Rings(i) /\ layers[i].start = now /\ layers[i].end = now
         /\ layers[i].head = layers[i].tail /\ layers[i].empty = TRUE /\ call[i].pc = "none"
  <1>1. layers[i] = newLayerStat(i, now) /\ call[i] = NoFrame
    BY DEF Unused
  <1>t. PICK t \in Nat : t = now
    OBVIOUS
  <1>2. PICK l : t = now /\ l = newLayerStat(i, t)
    BY <1>t
  <1>3. /\ l \in Rings(i) /\ l.start = t /\ l.end = t
        /\ l.head = 0 /\ l.tail = 0 /\ l.empty = TRUE
    BY <1>2, NewRing
  <1>4. layers[i] = l /\ call[i].pc = "none"
    BY <1>1, <1>2 DEF NoFrame
  <1> QED
    BY <1>2, <1>3, <1>4

(* A state that serves with no row but the start rows. *)
LEMMA FreshServing ==
  ASSUME Types', TableOK', Unused, UNCHANGED <<layers, call, now>>, table', db' = StartRows(N, now')
  PROVE  Serving'
  <1>1. now \in Nat /\ now' = now /\ layers' = layers /\ call' = call /\ N \in Nat
    BY StatAssumption DEF Types
  <1>2. \A r \in db' : r.time = now /\ r.layer \in Nums
    BY <1>1, StartRowFacts DEF Nums
  <1>3. \A i \in Nums : /\ layers'[i].start = now /\ layers'[i].end = now
                        /\ layers'[i].head = layers'[i].tail /\ layers'[i].empty = TRUE
                        /\ call'[i].pc = "none"
    BY <1>1, UnusedFacts
  <1>4. Held' = {}
    BY <1>2, <1>3 DEF Held
  <1>5. ASSUME NEW i \in Nums PROVE Count(i)' = 0 /\ MirroredAt(i)'
    <2>1. /\ layers'[i].head = layers'[i].tail /\ layers'[i].empty = TRUE
          /\ layers'[i].end = layers'[i].start /\ layers'[i].start <= now'
      BY <1>1, <1>3
    <2> QED
      BY <1>4, <2>1, EmptyRing
  <1>6. Nested'
    BY <1>3, <1>5 DEF Nested, NestedAt, Busy
  <1>7. Started'
    <2>1. PICK m \in Nat, t \in Nat : m = N /\ t = now
      BY <1>1
    <2>2. \A i \in 0 .. m - 1 : \E r \in StartRows(m, t) : r.layer = i
      BY StartRowFacts
    <2>3. \A i \in Nums : \E r \in db' : r.layer = i
      BY <1>1, <2>1, <2>2 DEF Nums
    <2> QED
      BY <1>2, <1>3, <2>3 DEF Started
  <1>8. Placed' /\ Pending' /\ Apart'
    BY <1>2, <1>3, <1>4 DEF Placed, Pending, Apart, Busy
  <1> QED
    BY <1>5, <1>6, <1>7, <1>8 DEF Serving, Mirrored

(* CREATE TABLE, or all rows deleted: the start rows are next. *)
LEMMA ToMarking ==
  ASSUME Inv, phase = "boot", phase' = "mark", db' = {}, table' = TRUE,
         UNCHANGED <<layers, call, marked, now, appended, crashes, torn>>
  PROVE  Inv'
  <1>1. Types /\ Booting /\ (crashes = 0 => ~torn) /\ now \in Nat
    BY DEF Inv, Types
  <1>2. Types'
    BY <1>1 DEF Types
  <1>3. IsFiniteSet(db') /\ db' = StartRows(0, now)
    BY <1>1, FS_EmptySet, StartRowFacts
  <1>4. TableOK'
    BY <1>3 DEF TableOK
  <1>5. Marking'
    <2>1. 0 \in Nums
      BY StatAssumption DEF Nums
    <2>2. Unused' /\ marked' = 0
      BY <1>1 DEF Booting, Unused
    <2> QED
      BY <1>3, <2>1, <2>2 DEF Marking, StartRows
  <1> QED
    BY <1>1, <1>2, <1>4, <1>5 DEF Inv

LEMMA InsertStartInv ==
  ASSUME Inv, InsertStart
  PROVE  Inv'
  <1>1. /\ Types /\ Marking /\ TableOK /\ (crashes = 0 => ~torn)
        /\ UNCHANGED <<layers, table, call, now, appended, crashes, torn>>
        /\ phase' \in {"mark", "ready"} /\ now \in Nat /\ phase' \in {"boot", "mark", "ready"}
    BY DEF Inv, InsertStart, Types
  <1>2. marked \in Nums /\ marked \in Nat /\ Unused /\ table /\ db = StartRows(marked, now)
    BY <1>1, Config DEF Marking, StartRows
  <1>3. Types'
    BY <1>1 DEF Types
  <1>4. db' = db \cup {Row(marked, now, {})} /\ marked' = marked + 1
    BY <1>1, <1>2, UnusedFacts DEF InsertStart
  <1>5. db' = StartRows(marked + 1, now)
    BY <1>1, <1>2, <1>4, StartRowFacts
  <1>6. IsFiniteSet(db')
    BY <1>1, <1>4, FS_AddElement DEF TableOK
  <1>7. PICK m \in Nat : m = marked + 1
    BY <1>2
  <1>8. TableOK'
    BY <1>1, <1>2, <1>5, <1>6, <1>7, StartTable
  <1>9. Unused'
    BY <1>1, <1>2 DEF Unused
  <1>10. CASE phase' = "mark"
    <2>1. marked' # N
      BY <1>10 DEF InsertStart
    <2>2. marked' \in Nums
      BY <1>2, <1>4, <2>1, StatAssumption DEF Nums
    <2>3. Marking'
      BY <1>1, <1>2, <1>4, <1>5, <1>9, <2>2 DEF Marking, StartRows
    <2> QED
      BY <1>1, <1>3, <1>8, <1>10, <2>3 DEF Inv
  <1>11. CASE phase' = "ready"
    <2>1. marked' = N
      BY <1>11 DEF InsertStart
    <2>2. db' = StartRows(N, now')
      BY <1>1, <1>4, <1>5, <2>1
    <2>3. Serving'
      <3>1. table'
        BY <1>1, <1>2
      <3> QED
        BY <1>1, <1>2, <1>3, <1>8, <2>2, <3>1, FreshServing
    <2> QED
      BY <1>1, <1>3, <1>8, <1>11, <2>3 DEF Inv
  <1> QED
    BY <1>1, <1>10, <1>11

(* The rows of a layer, and which of them Restore keeps. *)
LEMMA LayerRows ==
  ASSUME TableOK, NEW i
  PROVE  /\ Distinct(RowsOf(i)) /\ RowsOf(i) \subseteq db
         /\ \A r \in RowsOf(i) : r \in Rows /\ r.layer = i
  <1>1. RowsOf(i) \in SUBSET db /\ \A r \in RowsOf(i) : r \in Rows /\ r.layer = i
    BY DEF RowsOf, TableOK
  <1>2. IsFiniteSet(RowsOf(i))
    BY <1>1, FS_Subset DEF TableOK
  <1>3. \A r, q \in RowsOf(i) : r.time = q.time => r = q
    BY <1>1 DEF TableOK
  <1> QED
    BY <1>1, <1>2, <1>3 DEF Distinct, Rows

(* The ring l that Restore builds for layer i from its rows, the start row *)
(* first.                                                                  *)
LoadedAs(i, l, rows, n) ==
  /\ n \in 0 .. LayerLen[i] /\ LayerLen[i] \in Nat /\ Cardinality(rows) \in Nat
  /\ n = IF Cardinality(rows) - 1 > LayerLen[i] THEN LayerLen[i] ELSE Cardinality(rows) - 1
  /\ \A k \in 0 .. n : RowAt(rows, k) \in rows /\ RowAt(rows, k).time \in Nat
  /\ \A j, k \in 0 .. n : j < k => RowAt(rows, j).time < RowAt(rows, k).time
  /\ \A r \in rows : \E k \in 0 .. Cardinality(rows) - 1 :
       /\ r = RowAt(rows, k) /\ k = Cardinality(Below(rows, r))
       /\ k = 0 \/ RowAt(rows, 0).time < r.time
  /\ l \in Rings(i)
  /\ l.start = RowAt(rows, 0).time /\ l.end = RowAt(rows, n).time
  /\ (n = 0 => l.empty = TRUE) /\ (n # 0 => l.empty = FALSE)
  /\ l.tail = (l.head + n) % LayerLen[i]
  /\ \A k \in 0 .. n - 1 : /\ RingTime(l, i, k) = RowAt(rows, k + 1).time
                           /\ RingAxis(l, i, k) = RowAt(rows, k + 1).axis

LEMMA LoadedFacts ==
  ASSUME TableOK, NEW i \in Nums, RowsOf(i) # {}, NEW l, l = Loaded(i)
  PROVE  \E n \in Nat : LoadedAs(i, l, RowsOf(i), n)
  <1>1. PICK rows : rows = RowsOf(i)
    OBVIOUS
  <1>2. Distinct(rows) /\ (\A r \in rows : r \in Rows /\ r.layer = i) /\ rows \subseteq db
    BY <1>1, LayerRows
  <1>3. i \in Nat /\ LayerLen[i] \in Nat \ {0}
    BY Config
  <1>4. rows # {}
    BY <1>1
  <1>5. /\ Cardinality(rows) \in Nat
        /\ \A k \in 0 .. Cardinality(rows) - 1 :
             RowAt(rows, k) \in rows /\ Cardinality(Below(rows, RowAt(rows, k))) = k
        /\ \A r \in rows : RowAt(rows, Cardinality(Below(rows, r))) = r
        /\ \A j, k \in 0 .. Cardinality(rows) - 1 :
             j < k => RowAt(rows, j).time < RowAt(rows, k).time
    BY <1>2, RowAtFacts
  <1>6. \A r \in rows : Cardinality(Below(rows, r)) \in 0 .. Cardinality(rows) - 1
    BY <1>2, RankBounded
  <1>7. PICK m \in Nat : m = Cardinality(rows) - 1 /\ 0 .. Cardinality(rows) - 1 = 0 .. m
    <2>1. PICK r : r \in rows
      BY <1>4
    <2> QED
      BY <1>5, <1>6, <2>1
  <1>8. PICK n \in Nat : n = IF m > LayerLen[i] THEN LayerLen[i] ELSE m
    BY <1>3
  <1>9. n \in 0 .. LayerLen[i] /\ n <= m /\ (n = 0 <=> m = 0) /\ 0 .. n \subseteq 0 .. m
    BY <1>3, <1>8
  <1>10. \A k \in 0 .. n : RowAt(rows, k) \in rows /\ RowAt(rows, k).time \in Nat
    BY <1>2, <1>5, <1>7, <1>9 DEF Rows
  <1>11. \A j, k \in 0 .. n : j < k => RowAt(rows, j).time < RowAt(rows, k).time
    BY <1>5, <1>7, <1>9
  <1>12. ASSUME NEW r \in rows
         PROVE  \E k \in 0 .. Cardinality(rows) - 1 :
                  /\ r = RowAt(rows, k) /\ k = Cardinality(Below(rows, r))
                  /\ k = 0 \/ RowAt(rows, 0).time < r.time
    <2>1. PICK k \in 0 .. m : k = Cardinality(Below(rows, r)) /\ r = RowAt(rows, k)
      BY <1>5, <1>6, <1>7
    <2>2. 0 \in 0 .. m /\ (k = 0 \/ 0 < k)
      OBVIOUS
    <2>3. 0 < k => RowAt(rows, 0).time < RowAt(rows, k).time
      BY <1>5, <1>7, <2>2
    <2> QED
      BY <1>7, <2>1, <2>2, <2>3
  <1>14. l = [start |-> RowAt(rows, 0).time,
              end   |-> RowAt(rows, n).time,
              axes  |-> [k \in Slots(i) |-> IF k < n THEN RowAt(rows, k + 1).axis ELSE {}],
              times |-> [k \in Slots(i) |-> IF k < n THEN RowAt(rows, k + 1).time ELSE 0],
              head |-> 0, tail |-> n % LayerLen[i], empty |-> m = 0]
    BY <1>1, <1>7, <1>8, Zenon DEF Loaded, Slots
  <1>15. PICK L \in Nat \ {0} : L = LayerLen[i]
    BY <1>3
  <1>16. /\ \A k \in 0 .. L - 1 : At(0, k, L) = k
         /\ At(0, n, L) \in 0 .. L - 1
    <2>1. 0 \in 0 .. L - 1 /\ n \in 0 .. L
      BY <1>9, <1>15
    <2>2. \A k \in 0 .. L : At(0, k, L) = IF 0 + k < L THEN 0 + k ELSE 0 + k - L
      BY <2>1, RingSlot
    <2>3. At(0, n, L) \in 0 .. L - 1
      BY <2>1, RingSlot
    <2> QED
      BY <2>2, <2>3
  <1>17. n % LayerLen[i] = At(0, n, L)
    <2>1. 0 + n = n
      OBVIOUS
    <2> QED
      BY <1>15, <2>1, Zenon DEF At
  <1> DEFINE x == n % LayerLen[i]
  <1>18. x \in Slots(i)
    BY <1>15, <1>16, <1>17 DEF Slots
  <1>19. l = [start |-> RowAt(rows, 0).time,
              end   |-> RowAt(rows, n).time,
              axes  |-> [k \in Slots(i) |-> IF k < n THEN RowAt(rows, k + 1).axis ELSE {}],
              times |-> [k \in Slots(i) |-> IF k < n THEN RowAt(rows, k + 1).time ELSE 0],
              head |-> 0, tail |-> x, empty |-> m = 0]
    BY <1>14, Zenon
  <1> HIDE DEF x
  <1>20. \A k \in 0 .. n - 1 : RowAt(rows, k + 1) \in rows /\ RowAt(rows, k + 1) \in Rows
    BY <1>2, <1>10
  <1>21. l \in Rings(i)
    <2>1. 0 \in 0 .. n /\ n \in 0 .. n /\ 0 \in Slots(i)
      BY <1>3 DEF Slots
    <2>2. [k \in Slots(i) |-> IF k < n THEN RowAt(rows, k + 1).axis ELSE {}] \in [Slots(i) -> SUBSET Nat]
      BY <1>3, <1>20 DEF Slots, Rows
    <2>3. [k \in Slots(i) |-> IF k < n THEN RowAt(rows, k + 1).time ELSE 0] \in [Slots(i) -> Nat]
      BY <1>3, <1>20 DEF Slots, Rows
    <2>4. RowAt(rows, 0).time \in Nat /\ RowAt(rows, n).time \in Nat
      BY <1>10, <2>1
    <2> QED
      BY <1>18, <1>19, <2>1, <2>2, <2>3, <2>4 DEF Rings
  <1>22. ASSUME NEW k \in 0 .. n - 1
         PROVE  /\ RingTime(l, i, k) = RowAt(rows, k + 1).time
                /\ RingAxis(l, i, k) = RowAt(rows, k + 1).axis
    <2>1. k \in 0 .. L - 1 /\ k \in Slots(i) /\ k < n
      BY <1>9, <1>15 DEF Slots
    <2>2. l.head = 0 /\ l.times[k] = RowAt(rows, k + 1).time /\ l.axes[k] = RowAt(rows, k + 1).axis
      BY <1>19, <2>1
    <2>3. At(0, k, L) = k
      BY <1>16, <2>1
    <2> QED
      BY <1>15, <2>2, <2>3, Zenon DEF RingTime, RingAxis, At
  <1>23. l.tail = (l.head + n) % LayerLen[i]
    <2>1. l.tail = x /\ l.head = 0 /\ 0 + n = n
      BY <1>19
    <2> QED
      BY <2>1, Zenon DEF x
  <1>24. /\ l.start = RowAt(rows, 0).time /\ l.end = RowAt(rows, n).time
         /\ (n = 0 => l.empty = TRUE) /\ (n # 0 => l.empty = FALSE)
    <2>1. l.start = RowAt(rows, 0).time /\ l.end = RowAt(rows, n).time
      BY <1>19
    <2>2. l.empty = (m = 0)
      BY <1>19
    <2>3. CASE n = 0
      BY <1>9, <2>1, <2>2, <2>3, Zenon
    <2>4. CASE n # 0
      <3>1. (m = 0) = FALSE
        BY <1>9, <2>4, Zenon
      <3> QED
        BY <2>1, <2>2, <2>4, <3>1, Zenon
    <2> QED
      BY <2>3, <2>4
  <1>25. LoadedAs(i, l, rows, n)
    BY <1>3, <1>5, <1>7, <1>8, <1>9, <1>10, <1>11, <1>12, <1>21, <1>22, <1>23, <1>24 DEF LoadedAs
  <1> QED
    BY <1>1, <1>25

(* What loading layer i does to it and to its rows. *)
Loads(i, rows, n) ==
  /\ n \in 0 .. LayerLen[i] /\ rows = RowsOf(i)
  /\ \A k \in 0 .. n : RowAt(rows, k) \in rows
  /\ \A j, k \in 0 .. n : j < k => RowAt(rows, j).time < RowAt(rows, k).time
  /\ RowsOf(i)' = {RowAt(rows, k) : k \in 0 .. n}
  /\ \A r \in rows : RowAt(rows, 0).time <= r.time
  /\ layers'[i] \in Rings(i)
  /\ layers'[i].start = RowAt(rows, 0).time /\ layers'[i].end = RowAt(rows, n).time
  /\ (n = 0 => layers'[i].empty = TRUE) /\ (n # 0 => layers'[i].empty = FALSE)
  /\ layers'[i].tail = (layers'[i].head + n) % LayerLen[i]
  /\ \A k \in 0 .. n - 1 : RingRow(i, k)' = RowAt(rows, k + 1)

LEMMA LoadsVisited ==
  ASSUME TableOK, NEW i \in Nums, Visited(i), layers'[i] = Loaded(i),
         \A r \in db : r.layer = i => (r \in db' <=> r \notin Surplus(i)), db' \subseteq db
  PROVE  \E n \in Nat : Loads(i, RowsOf(i), n)
  <1>1. PICK rows : rows = RowsOf(i)
    OBVIOUS
  <1>2. (\A r \in rows : r \in Rows /\ r.layer = i) /\ rows \subseteq db
    BY <1>1, LayerRows
  <1>3. rows # {}
    BY <1>1, Config DEF Visited
  <1>4. PICK l : l = Loaded(i)
    OBVIOUS
  <1>5. PICK n \in Nat : LoadedAs(i, l, rows, n)
    BY <1>1, <1>3, <1>4, LoadedFacts
  <1>6. PICK c \in Nat : c = Cardinality(rows)
    BY <1>5 DEF LoadedAs
  <1>7. /\ n \in 0 .. LayerLen[i] /\ LayerLen[i] \in Nat
        /\ n = IF c - 1 > LayerLen[i] THEN LayerLen[i] ELSE c - 1
        /\ \A k \in 0 .. n : RowAt(rows, k) \in rows /\ RowAt(rows, k).time \in Nat
        /\ \A j, k \in 0 .. n : j < k => RowAt(rows, j).time < RowAt(rows, k).time
        /\ \A r \in rows : \E k \in 0 .. c - 1 :
             /\ r = RowAt(rows, k) /\ k = Cardinality(Below(rows, r))
             /\ k = 0 \/ RowAt(rows, 0).time < r.time
    BY <1>5, <1>6 DEF LoadedAs
  <1>8. \A r \in rows : RowAt(rows, 0).time <= r.time
    BY <1>2, <1>7 DEF Rows
  <1>9. RowsOf(i)' = {RowAt(rows, k) : k \in 0 .. n}
    <2>1. ASSUME NEW r \in rows PROVE r \in db' <=> \E k \in 0 .. n : r = RowAt(rows, k)
      <3>1. PICK k \in 0 .. c - 1 : k = Cardinality(Below(rows, r)) /\ r = RowAt(rows, k)
        BY <1>7
      <3>2. r \in Surplus(i) <=> k > LayerLen[i]
        BY <1>1, <3>1 DEF Surplus, Below
      <3>3. r \in db' <=> k <= n
        BY <1>2, <1>7, <3>2
      <3>4. \A j \in 0 .. n : r = RowAt(rows, j) => j = k
        <4>1. Distinct(rows) /\ \A j \in 0 .. n : j \in 0 .. Cardinality(rows) - 1
          BY <1>1, <1>6, <1>7, LayerRows
        <4>2. \A j \in 0 .. Cardinality(rows) - 1 : Cardinality(Below(rows, RowAt(rows, j))) = j
          BY <4>1, RowAtFacts
        <4> QED
          BY <3>1, <4>1, <4>2, Zenon
      <3> QED
        BY <3>1, <3>3, <3>4
    <2>2. RowsOf(i)' = {r \in rows : r \in db'}
      BY <1>1 DEF RowsOf
    <2> QED
      BY <1>7, <2>1, <2>2
  <1>10. ASSUME NEW k \in 0 .. n - 1 PROVE RingRow(i, k)' = RowAt(rows, k + 1)
    <2>1. RingTime(l, i, k) = RowAt(rows, k + 1).time /\ RingAxis(l, i, k) = RowAt(rows, k + 1).axis
      BY <1>5 DEF LoadedAs
    <2>2. RowAt(rows, k + 1) \in Rows /\ RowAt(rows, k + 1).layer = i
      BY <1>2, <1>7
    <2>3. RingRow(i, k)' = Row(i, RingTime(l, i, k), RingAxis(l, i, k))
      BY <1>4, Zenon DEF RingRow
    <2> QED
      BY <2>1, <2>2, <2>3 DEF Row, Rows
  <1>11. /\ l \in Rings(i)
         /\ l.start = RowAt(rows, 0).time /\ l.end = RowAt(rows, n).time
         /\ (n = 0 => l.empty = TRUE) /\ (n # 0 => l.empty = FALSE)
         /\ l.tail = (l.head + n) % LayerLen[i]
    BY <1>5, Zenon DEF LoadedAs
  <1>12. Loads(i, rows, n)
    BY <1>1, <1>4, <1>7, <1>8, <1>9, <1>10, <1>11, Zenon DEF Loads
  <1> QED
    BY <1>1, <1>12

(* Layers above a layer without rows have none either. *)
LEMMA VisitedFacts ==
  ASSUME TableOK
  PROVE  /\ \A r \in db : Visited(r.layer)
         /\ \A i \in Nums : ~Visited(i) => RowsOf(i) = {}
  <1>1. \A r \in db : Visited(r.layer)
    BY DEF TableOK, Visited, RowsOf
  <1>2. ASSUME NEW i \in Nums, RowsOf(i) # {} PROVE Visited(i)
    BY <1>1, <1>2 DEF RowsOf
  <1> QED
    BY <1>1, <1>2

(* A row of a higher layer is older than any axis of a lower layer. *)
LEMMA StrictlyAbove ==
  ASSUME TableOK, NEW r \in db, NEW q \in db, ~First(q), r.layer > q.layer
  PROVE  r.time < q.time
  <1>1. PICK x \in db : x.layer = q.layer /\ ~(q.time <= x.time)
    BY DEF First
  <1>2. r.time <= x.time
    BY <1>1 DEF TableOK
  <1> QED
    BY <1>1, <1>2, RowFacts

LEMMA LoadInv ==
  ASSUME Inv, LoadLayers
  PROVE  Inv'
  <1>1. /\ Types /\ TableOK /\ Booting /\ (crashes = 0 => ~torn) /\ table /\ now \in Nat
        /\ UNCHANGED <<table, call, marked, now, appended, crashes, torn>> /\ phase' = "ready"
    BY DEF Inv, LoadLayers, Types
  <1>2. layers' = [i \in Nums |-> IF Visited(i) THEN Loaded(i) ELSE layers[i]]
    BY DEF LoadLayers
  <1>3. \A r \in db : Visited(r.layer) /\ r.time < now /\ r.layer \in Nat /\ r.time \in Nat
    BY <1>1, VisitedFacts, RowFacts DEF Booting
  <1>4. /\ db' \subseteq db
        /\ \A r \in db : r \in db' <=> r.layer \in Nums /\ r \notin Surplus(r.layer)
    BY <1>3, StatAssumption DEF LoadLayers, Nums
  <1>5. \A i \in Nums : /\ ~Busy(i)' /\ call'[i].pc = "none"
    BY <1>1 DEF Booting, Unused, NoFrame, Busy
  <1>6. ASSUME NEW i \in Nums, Visited(i)
        PROVE  /\ \E n \in Nat : Loads(i, RowsOf(i), n)
               /\ i \in Nat
    <2>1. layers'[i] = Loaded(i)
      BY <1>2, <1>6
    <2>2. \A r \in db : r.layer = i => (r \in db' <=> r \notin Surplus(i))
      BY <1>4
    <2> QED
      BY <1>1, <1>4, <1>6, <2>1, <2>2, LoadsVisited, Config
  <1>7. ASSUME NEW i \in Nums, ~Visited(i)
        PROVE  /\ layers'[i] = layers[i] /\ RowsOf(i) = {} /\ layers'[i] \in Rings(i)
               /\ layers'[i].start = now /\ layers'[i].end = now
               /\ layers'[i].head = layers'[i].tail /\ layers'[i].empty = TRUE
    <2>1. layers'[i] = layers[i] /\ RowsOf(i) = {} /\ Unused
      BY <1>1, <1>2, <1>7, VisitedFacts DEF Booting
    <2> QED
      BY <1>1, <2>1, UnusedFacts
  <1>8. Types'
    <2>1. ASSUME NEW i \in Nums PROVE layers'[i] \in Rings(i)
      BY <1>6, <1>7 DEF Loads
    <2>2. layers' = [i \in Nums |-> layers'[i]]
      BY <1>2
    <2>3. layers' \in [Nums -> UNION {Rings(i) : i \in Nums}]
      BY <2>1, <2>2
    <2> QED
      BY <1>1, <2>1, <2>3 DEF Types
  <1>9. TableOK'
    <2>1. IsFiniteSet(db') /\ db' \subseteq Rows
      BY <1>1, <1>4, FS_Subset DEF TableOK
    <2>2. ASSUME NEW r \in db', NEW j \in 0 .. r.layer PROVE \E q \in db' : q.layer = j
      <3>1. r \in db /\ r.layer \in Nums
        BY <1>4
      <3>2. j \in Nums /\ RowsOf(j) # {}
        BY <1>1, <3>1, StatAssumption DEF Nums, TableOK, RowsOf
      <3>3. Visited(j)
        BY <1>1, <3>2, VisitedFacts
      <3>4. PICK n \in Nat : Loads(j, RowsOf(j), n)
        BY <1>6, <3>2, <3>3
      <3>5. RowsOf(j)' # {}
        BY <3>4 DEF Loads
      <3> QED
        BY <3>5 DEF RowsOf
    <2>3. ASSUME NEW r \in db', First(r) PROVE First(r)'
      BY <1>4, <2>3 DEF First
    <2>4. \A r, q \in db' : ~First(r)' /\ ~First(q)' /\ r # q => r.axis \cap q.axis = {}
      BY <1>1, <1>4, <2>3 DEF TableOK
    <2>5. /\ \A r \in db' : r.time <= now' /\ \A s \in r.axis : s <= r.time
          /\ \A r, q \in db' : r.layer = q.layer /\ r.time = q.time => r = q
          /\ \A r, q \in db' : r.layer > q.layer => r.time <= q.time
      BY <1>1, <1>4 DEF TableOK
    <2> QED
      BY <1>1, <2>1, <2>2, <2>4, <2>5 DEF TableOK
  <1>10. ASSUME NEW r \in db'
         PROVE  \E q \in db' : /\ q.layer = r.layer /\ q.time <= r.time
                               /\ q.time = layers'[r.layer].start
                               /\ r \in Held' => q.time < r.time /\ ~First(r)
    <2>1. r \in db /\ r.layer \in Nums
      BY <1>4
    <2>i. PICK i \in Nums : i = r.layer
      BY <2>1
    <2>2. PICK rows : i = r.layer /\ rows = RowsOf(i) /\ r \in rows
      BY <2>1, <2>i DEF RowsOf
    <2>3. PICK n \in Nat : Loads(i, rows, n)
      BY <1>3, <1>6, <2>1, <2>2
    <2>4. PICK q : q = RowAt(rows, 0)
      OBVIOUS
    <2>5. /\ q \in RowsOf(i)' /\ q.time <= r.time /\ q.time = layers'[i].start
      BY <2>2, <2>3, <2>4 DEF Loads
    <2>6. q \in db' /\ q.layer = i /\ q \in db
      BY <1>4, <2>5 DEF RowsOf
    <2>7. r \in Held' => r.time # q.time
      BY <2>2, <2>5 DEF Held
    <2>8. r \in Held' => q.time < r.time
      BY <1>3, <2>1, <2>5, <2>6, <2>7
    <2>9. q.time < r.time => ~First(r)
      BY <1>3, <2>1, <2>2, <2>6 DEF First
    <2> QED
      BY <2>2, <2>5, <2>6, <2>8, <2>9
  <1>11. Held' \subseteq db' /\ \A q \in Held' : ~First(q) /\ q \in db
    BY <1>4, <1>10 DEF Held
  <1>12. ASSUME NEW i \in Nums
         PROVE  /\ MirroredAt(i)' /\ (layers'[i].empty = TRUE <=> Count(i)' = 0)
                /\ Count(i)' \in 0 .. LayerLen[i]
    <2>1. CASE ~Visited(i)
      <3>1. \A r \in Held' : r.layer # i
        BY <1>7, <1>11, <2>1 DEF RowsOf
      <3>2. /\ layers'[i].head = layers'[i].tail /\ layers'[i].empty = TRUE
            /\ layers'[i].end = layers'[i].start /\ layers'[i].start <= now'
        <4>1. /\ layers'[i].start = now /\ layers'[i].end = now
              /\ layers'[i].head = layers'[i].tail /\ layers'[i].empty = TRUE
          BY <1>7, <2>1, Zenon
        <4> QED
          BY <1>1, <4>1
      <3>3. Count(i)' = 0 /\ MirroredAt(i)'
        BY <1>8, <3>1, <3>2, EmptyRing
      <3> QED
        BY <3>2, <3>3, Config
    <2>2. CASE Visited(i)
      <3>r. PICK rows : rows = RowsOf(i)
        OBVIOUS
      <3>1. PICK n \in Nat : Loads(i, rows, n) /\ rows = RowsOf(i)
        BY <1>6, <2>2, <3>r
      <3>2. /\ n \in 0 .. LayerLen[i] /\ rows \subseteq db /\ LayerLen[i] \in Nat
            /\ \A k \in 0 .. n : RowAt(rows, k) \in rows /\ RowAt(rows, k).time \in Nat
            /\ \A j, k \in 0 .. n : j < k => RowAt(rows, j).time < RowAt(rows, k).time
            /\ RowsOf(i)' = {RowAt(rows, k) : k \in 0 .. n}
            /\ layers'[i] \in Rings(i) /\ layers'[i].start = RowAt(rows, 0).time
            /\ layers'[i].end = RowAt(rows, n).time
            /\ layers'[i].tail = (layers'[i].head + n) % LayerLen[i]
            /\ \A k \in 0 .. n - 1 : RingRow(i, k)' = RowAt(rows, k + 1)
        <4>1. rows \subseteq db /\ \A r \in rows : r.time \in Nat
          BY <1>3, <3>1 DEF RowsOf
        <4> QED
          BY <3>1, <4>1, Config, Zenon DEF Loads
      <3>3. /\ n = 0 => layers'[i].empty = TRUE
            /\ n > 0 => layers'[i].empty = FALSE
        <4>1. (n = 0 => layers'[i].empty = TRUE) /\ (n # 0 => layers'[i].empty = FALSE)
          BY <3>1, Zenon DEF Loads
        <4> QED
          BY <4>1
      <3>4. Count(i)' = n
        <4>1. PICK m \in Rings(i) : m = layers'[i]
          BY <3>2
        <4>2. m.tail = (m.head + n) % LayerLen[i]
          BY <3>2, <4>1, Zenon
        <4>3. /\ m.head = m.tail <=> n = 0 \/ n = LayerLen[i]
              /\ n > 0 /\ m.empty = FALSE => Size(m, i) = n
          BY <3>2, <4>2, RingSize
        <4>4. Size(layers[i], i)' = Size(m, i)
          BY <4>1, Zenon DEF Size
        <4>5. CASE n = 0
          <5>1. Count(i)' = 0
            BY <3>3, <4>1, <4>3, <4>5, Zenon DEF Count
          <5> QED
            BY <4>5, <5>1
        <4>6. CASE n > 0
          <5>1. ~m.empty /\ call'[i].pc # "insert"
            BY <1>5, <3>3, <4>1, <4>6
          <5>2. Count(i)' = Size(m, i)
            BY <4>1, <4>4, <5>1, Zenon DEF Count
          <5> QED
            BY <3>3, <4>1, <4>3, <4>6, <5>2
        <4> QED
          BY <4>5, <4>6
      <3>5. \A j, k \in 0 .. n - 1 : j < k => RingRow(i, j)'.time < RingRow(i, k)'.time
        BY <3>2
      <3>6. {r \in Held' : r.layer = i} = {RingRow(i, k)' : k \in 0 .. n - 1}
        <4>1. \A k \in 1 .. n : RowAt(rows, k).time # RowAt(rows, 0).time
          BY <3>2
        <4>2. {r \in Held' : r.layer = i} = {r \in RowsOf(i)' : r.time # layers'[i].start}
          BY DEF Held, RowsOf
        <4>3. ASSUME NEW r \in RowsOf(i)', r.time # layers'[i].start
              PROVE  \E k \in 0 .. n - 1 : r = RingRow(i, k)'
          <5>1. PICK k \in 0 .. n : r = RowAt(rows, k)
            BY <3>2
          <5>2. k # 0
            BY <3>2, <4>3, <5>1
          <5>3. PICK j \in 0 .. n - 1 : j + 1 = k
            BY <5>1, <5>2
          <5> QED
            BY <3>2, <5>1, <5>3
        <4>4. ASSUME NEW k \in 0 .. n - 1
              PROVE  RingRow(i, k)' \in RowsOf(i)' /\ RingRow(i, k)'.time # layers'[i].start
          <5>1. k + 1 \in 0 .. n /\ k + 1 \in 1 .. n
            OBVIOUS
          <5> QED
            BY <3>2, <4>1, <5>1
        <4> QED
          BY <4>2, <4>3, <4>4
      <3>7. layers'[i].end = IF n = 0 THEN layers'[i].start ELSE RingRow(i, n - 1)'.time
        <4>1. CASE n = 0
          BY <3>2, <4>1
        <4>2. CASE n # 0
          <5>1. n - 1 \in 0 .. n - 1 /\ (n - 1) + 1 = n
            BY <4>2
          <5> QED
            BY <3>2, <4>2, <5>1
        <4> QED
          BY <4>1, <4>2
      <3>8. layers'[i].start <= now'
        <4>1. RowAt(rows, 0) \in db
          BY <3>2
        <4> QED
          BY <1>1, <1>3, <3>2, <4>1
      <3>9. MirroredAt(i)'
        <4>1. RingRow(i, Count(i) - 1)' = RingRow(i, n - 1)'
          BY <3>4 DEF RingRow
        <4> QED
          BY <3>2, <3>4, <3>5, <3>6, <3>7, <3>8, <4>1, Zenon DEF MirroredAt
      <3>10. layers'[i].empty = TRUE <=> n = 0
        BY <3>3
      <3> QED
        BY <3>2, <3>4, <3>9, <3>10
    <2> QED
      BY <2>1, <2>2
  <1>13. Mirrored' /\ Nested'
    BY <1>5, <1>12 DEF Mirrored, Nested, NestedAt
  <1>14. Placed'
    <2>1. ASSUME NEW r \in Held', NEW i \in Nums, r.layer <= i PROVE r.time # layers'[i].start
      <3>1. CASE i = r.layer
        BY <3>1 DEF Held
      <3>2. CASE i # r.layer /\ ~Visited(i)
        <4>1. layers'[i].start = now
          BY <1>7, <3>2, Zenon
        <4>2. r.time < now /\ r.time \in Nat
          BY <1>3, <1>11
        <4> QED
          BY <1>1, <4>1, <4>2
      <3>3. CASE i # r.layer /\ Visited(i)
        <4>1. PICK n \in Nat : Loads(i, RowsOf(i), n)
          BY <1>6, <3>3
        <4>2. PICK q : q = RowAt(RowsOf(i), 0)
          OBVIOUS
        <4>3. q \in RowsOf(i) /\ layers'[i].start = q.time
          BY <4>1, <4>2 DEF Loads
        <4>4. q \in db /\ q.layer = i
          BY <4>3 DEF RowsOf
        <4>5. r \in db /\ ~First(r) /\ q.layer > r.layer
          BY <1>3, <1>6, <1>11, <2>1, <3>3, <4>4
        <4>6. q.time < r.time
          BY <1>1, <4>4, <4>5, StrictlyAbove
        <4> QED
          BY <1>3, <4>3, <4>4, <4>5, <4>6
      <3> QED
        BY <3>1, <3>2, <3>3
    <2>2. ASSUME NEW r \in db' \ Held', NEW q \in Held', r.layer = q.layer PROVE r.time < q.time
      <3>1. r.time = layers'[r.layer].start
        BY <2>2 DEF Held
      <3> QED
        BY <1>10, <1>11, <2>2, <3>1
    <2>3. ASSUME NEW r \in db', NEW q \in Held', r.layer > q.layer PROVE r.time < q.time
      BY <1>1, <1>4, <1>11, <2>3, StrictlyAbove
    <2> QED
      BY <1>4, <2>1, <2>2, <2>3 DEF Placed
  <1>15. Pending'
    BY <1>5 DEF Pending
  <1>16. Apart'
    <2>1. \A r, q \in Held' : r # q => r.axis \cap q.axis = {}
      BY <1>1, <1>11 DEF TableOK
    <2> QED
      BY <1>5, <2>1 DEF Apart
  <1>17. Started'
    <2> SUFFICES ASSUME ~torn, NEW i \in Nums
                 PROVE  \E r \in db' : r.layer = i /\ r.time = layers'[i].start
      BY <1>1 DEF Started
    <2>1. RowsOf(i) # {}
      BY <1>1 DEF Booting
    <2>2. Visited(i)
      BY <1>1, <2>1, VisitedFacts
    <2>3. PICK n \in Nat : Loads(i, RowsOf(i), n)
      BY <1>6, <2>2
    <2>4. PICK r : r = RowAt(RowsOf(i), 0)
      OBVIOUS
    <2>5. r \in RowsOf(i)' /\ r.time = layers'[i].start
      BY <2>3, <2>4 DEF Loads
    <2> QED
      BY <2>5 DEF RowsOf
  <1> QED
    BY <1>1, <1>8, <1>9, <1>13, <1>14, <1>15, <1>16, <1>17 DEF Inv, Serving

-----------------------------------------------------------------------------
(* The invariant.                                                          *)

LEMMA RestartInv ==
  ASSUME Inv, Restart
  PROVE  Inv'
  <1>1. /\ Types /\ TableOK /\ now \in Nat /\ now' = now + 1 /\ now' \in Nat
        /\ UNCHANGED <<table, db, appended>>
        /\ call' = [i \in Nums |-> NoFrame] /\ layers' = [i \in Nums |-> newLayerStat(i, now')]
        /\ phase' = "boot" /\ marked' = 0
    BY DEF Inv, Restart, Types
  <1>2. /\ torn' \in BOOLEAN /\ (~torn' => ~torn /\ phase # "mark")
        /\ crashes' = crashes + 1 /\ crashes \in Nat
    BY <1>1 DEF Restart, Types
  <1>3. Types'
    <2>1. NoFrame \in Frames
      BY DEF NoFrame, Frames
    <2>2. ASSUME NEW i \in Nums PROVE layers'[i] \in Rings(i)
      <3>1. PICK t \in Nat : t = now'
        BY <1>1
      <3>2. layers'[i] = newLayerStat(i, t)
        BY <1>1, <3>1
      <3>3. newLayerStat(i, t) \in Rings(i)
        BY NewRing
      <3> QED
        BY <3>2, <3>3
    <2>3. layers' = [i \in Nums |-> layers'[i]]
      BY <1>1
    <2>4. layers' \in [Nums -> UNION {Rings(i) : i \in Nums}]
      BY <2>2, <2>3
    <2> QED
      BY <1>1, <1>2, <2>1, <2>2, <2>4 DEF Types
  <1>4. TableOK'
    <2>1. \A r \in db : r.time <= now'
      BY <1>1, RowFacts
    <2>2. \A r : First(r)' <=> First(r)
      BY <1>1 DEF First
    <2> QED
      BY <1>1, <2>1, <2>2 DEF TableOK
  <1>5. Booting'
    <2>1. Unused'
      BY <1>1 DEF Unused
    <2>2. \A r \in db' : r.time < now'
      BY <1>1, RowFacts
    <2>3. ASSUME table', ~torn', NEW i \in Nums PROVE RowsOf(i)' # {}
      <3>1. RowsOf(i)' = RowsOf(i)
        BY <1>1 DEF RowsOf
      <3>2. CASE phase = "boot"
        BY <1>1, <1>2, <2>3, <3>1, <3>2 DEF Inv, Booting
      <3>3. CASE phase = "ready"
        <4>1. Started
          BY <3>3 DEF Inv, Serving
        <4> QED
          BY <1>2, <2>3, <3>1, <4>1 DEF Started, RowsOf
      <3> QED
        BY <1>1, <1>2, <2>3, <3>2, <3>3 DEF Types
    <2> QED
      BY <1>1, <2>1, <2>2, <2>3 DEF Booting
  <1>6. crashes' # 0
    BY <1>2
  <1> QED
    BY <1>1, <1>3, <1>4, <1>5, <1>6 DEF Inv

LEMMA InitInv ==
  ASSUME Init
  PROVE  Inv
  <1>1. /\ now = FirstTime /\ now \in Nat /\ db \in Tables /\ table = (db # {})
        /\ layers = [i \in Nums |-> newLayerStat(i, now)] /\ call = [i \in Nums |-> NoFrame]
        /\ phase = "boot" /\ marked = 0 /\ appended = {} /\ crashes = 0 /\ torn = FALSE
    BY StatAssumption DEF Init
  <1>2. Unused
    BY <1>1 DEF Unused
  <1>3. Types
    <2>1. NoFrame \in Frames
      BY DEF NoFrame, Frames
    <2>2. \A i \in Nums : layers[i] \in Rings(i)
      BY <1>1, <1>2, UnusedFacts
    <2>3. layers \in [Nums -> UNION {Rings(i) : i \in Nums}]
      BY <1>1, <2>2
    <2>4. table \in BOOLEAN
      BY <1>1
    <2> QED
      BY <1>1, <2>1, <2>2, <2>3, <2>4 DEF Types
  <1>4. /\ IsFiniteSet(db) /\ db \subseteq Rows
        /\ \A r \in db : /\ r.time < now /\ \A s \in r.axis : s <= r.time
                         /\ \A i \in Nums \cup 0 .. r.layer : \E q \in db : q.layer = i
        /\ \A r, q \in db : r.layer = q.layer /\ r.time = q.time => r = q
        /\ \A r, q \in db : r.layer > q.layer => r.time <= q.time
    BY <1>1, TablesAssumption DEF Rows
  <1>5. ASSUME NEW r \in db, NEW q \in db, ~First(r), ~First(q), r # q
        PROVE  r.axis \cap q.axis = {}
    <2>1. r.axis \cap q.axis # {} =>
            \E p \in {r, q} : \A x \in db : x.layer = p.layer => p.time <= x.time
      BY <1>1, <1>5, TablesAssumption
    <2> QED
      BY <1>5, <2>1 DEF First
  <1>6. TableOK
    <2>1. ~table => db = {}
      BY <1>1
    <2>2. \A r \in db : r.time <= now
      BY <1>1, <1>4 DEF Rows
    <2> QED
      BY <1>4, <1>5, <2>1, <2>2 DEF TableOK
  <1>7. Booting
    <2>1. ASSUME table, NEW i \in Nums PROVE RowsOf(i) # {}
      <3>1. PICK r : r \in db
        BY <1>1, <2>1
      <3> QED
        BY <1>4, <3>1 DEF RowsOf
    <2> QED
      BY <1>1, <1>2, <1>4, <2>1 DEF Booting
  <1> QED
    BY <1>1, <1>3, <1>6, <1>7 DEF Inv

LEMMA StepInv ==
  ASSUME Inv, [Next]_vars
  PROVE  Inv'
  <1>1. ASSUME phase = "ready", phase' = "ready", crashes' = crashes, torn' = torn,
               Types' /\ TableOK' /\ Serving'
        PROVE  Inv'
    BY <1>1 DEF Inv
  <1>2. CASE StatAppend
    <2>1. phase = "ready" /\ phase' = phase /\ crashes' = crashes /\ torn' = torn
      BY <1>2 DEF StatAppend, Quiet
    <2>2. Types' /\ TableOK' /\ Serving'
      BY <1>2, <2>1, AppendServing DEF Inv
    <2> QED
      BY <1>1, <2>1, <2>2
  <1>3. ASSUME NEW i \in Nums, Reduce(i) \/ InsertLast(i) PROVE Inv'
    <2>1. phase' = phase /\ crashes' = crashes /\ torn' = torn /\ call[i].pc # "none"
      BY <1>3 DEF Reduce, InsertLast
    <2>2. phase = "ready"
      <3>1. phase # "ready" => Unused
        BY DEF Inv, Types, Booting, Marking
      <3> QED
        BY <2>1, <3>1 DEF Unused, NoFrame
    <2>3. Types' /\ TableOK' /\ Serving'
      BY <1>3, <2>2, ReduceServing, InsertServing DEF Inv
    <2> QED
      BY <1>1, <2>1, <2>2, <2>3
  <1>4. CASE NoTable
    <2>1. db = {}
      BY <1>4 DEF NoTable, Inv, TableOK
    <2> QED
      BY <1>4, <2>1, ToMarking DEF NoTable
  <1>5. CASE ClearTable
    <2>1. table' = TRUE
      BY <1>5 DEF ClearTable, Inv, Types
    <2> QED
      BY <1>5, <2>1, ToMarking DEF ClearTable
  <1>6. CASE InsertStart
    BY <1>6, InsertStartInv
  <1>7. CASE LoadLayers
    BY <1>7, LoadInv
  <1>8. CASE Restart
    BY <1>8, RestartInv
  <1>9. CASE UNCHANGED vars
    <2>1. /\ Types' <=> Types
          /\ TableOK' <=> TableOK
          /\ Booting' <=> Booting
          /\ Marking' <=> Marking
      BY <1>9 DEF vars, Types, TableOK, First, Booting, Marking, Unused, RowsOf
    <2>2. Held' = Held
      BY <1>9 DEF vars, Held
    <2>3. \A i : Count(i)' = Count(i)
      BY <1>9 DEF vars, Count, Size
    <2>4. \A i, k : RingRow(i, k)' = RingRow(i, k)
      BY <1>9 DEF vars, RingRow, RingTime, RingAxis
    <2>5. Mirrored' <=> Mirrored
      BY <1>9, <2>2, <2>3, <2>4 DEF vars, Mirrored, MirroredAt
    <2>6. Nested' <=> Nested
      BY <1>9, <2>3 DEF vars, Nested, NestedAt, Busy, Takes, Drops
    <2>7. /\ Placed' <=> Placed
          /\ Pending' <=> Pending
          /\ Apart' <=> Apart
          /\ Started' <=> Started
      BY <1>9, <2>2 DEF vars, Placed, Pending, PendingAt, Apart, Started, Busy
    <2> QED
      BY <1>9, <2>1, <2>5, <2>6, <2>7 DEF Inv, Serving, vars
  <1> QED
    BY <1>2, <1>3, <1>4, <1>5, <1>6, <1>7, <1>8, <1>9 DEF Next

(* Table and rings correspond at every moment, whatever is interrupted     *)
(* where: the basis of all the theorems below.                             *)
THEOREM StatInvariant == Spec => []Inv
  <1>1. Init => Inv
    BY InitInv
  <1>2. Inv /\ [Next]_vars => Inv'
    BY StepInv
  <1> QED
    BY <1>1, <1>2, PTL DEF Spec

-----------------------------------------------------------------------------
(* The properties.                                                         *)

(* A layer has at most one row per slot of its ring and its start row,     *)
(* wherever Append is: Reduce deletes before it inserts.                   *)
THEOREM TableStaysBounded == Spec => []TableBounded
  <1>1. Inv => TableBounded
    <2> SUFFICES ASSUME Inv, phase = "ready", NEW i \in Nums
                 PROVE  Cardinality(RowsOf(i)) <= LayerLen[i] + 1
      BY DEF TableBounded
    <2>1. Types /\ TableOK /\ MirroredAt(i) /\ LayerLen[i] \in Nat
      BY Config DEF Inv, Serving, Mirrored
    <2>2. PICK n \in Nat : n = Count(i) /\ n <= LayerLen[i]
      BY <2>1 DEF MirroredAt
    <2>3. PICK q : \A r \in RowsOf(i) : r.time = layers[i].start => r = q
      <3>1. \A r, q \in RowsOf(i) : r.time = q.time => r = q
        BY <2>1 DEF TableOK, RowsOf
      <3>2. CASE \E q \in RowsOf(i) : q.time = layers[i].start
        BY <3>1, <3>2
      <3>3. CASE ~\E q \in RowsOf(i) : q.time = layers[i].start
        BY <3>3
      <3> QED
        BY <3>2, <3>3
    <2> DEFINE g == [k \in 0 .. n |-> IF k = n THEN q ELSE RingRow(i, k)]
               T == {g[k] : k \in 0 .. n}
    <2>4. RowsOf(i) \in SUBSET T
      <3>1. ASSUME NEW r \in RowsOf(i) PROVE r \in T
        <4>1. CASE r.time = layers[i].start
          <5>1. r = g[n] /\ n \in 0 .. n
            BY <2>3, <4>1
          <5> QED
            BY <5>1
        <4>2. CASE r.time # layers[i].start
          <5>1. r \in Held /\ r.layer = i
            BY <4>2 DEF Held, RowsOf
          <5>2. PICK k \in 0 .. n - 1 : r = RingRow(i, k)
            BY <2>1, <2>2, <5>1, RingRows
          <5>3. k \in 0 .. n /\ k # n
            OBVIOUS
          <5>4. r = g[k]
            BY <5>2, <5>3
          <5> QED
            BY <5>3, <5>4
        <4> QED
          BY <4>1, <4>2
      <3> QED
        BY <3>1
    <2>5. g \in Surjection(0 .. n, T)
      BY DEF Surjection
    <2>6. IsFiniteSet(0 .. n) /\ Cardinality(0 .. n) = n + 1
      BY FS_Interval
    <2> HIDE DEF g, T
    <2>7. IsFiniteSet(T) /\ Cardinality(T) <= Cardinality(0 .. n)
      BY <2>5, <2>6, FS_Surjection
    <2>8. IsFiniteSet(RowsOf(i)) /\ Cardinality(RowsOf(i)) <= Cardinality(T)
      BY <2>4, <2>7, FS_Subset
    <2>9. Cardinality(T) \in Nat /\ Cardinality(RowsOf(i)) \in Nat
      BY <2>7, <2>8, FS_CardinalityType
    <2> QED
      BY <2>1, <2>2, <2>6, <2>7, <2>8, <2>9
  <1> QED
    BY <1>1, StatInvariant, PTL

(* Wherever the process dies, no sample is in two axes that Restore would  *)
(* load.                                                                   *)
THEOREM SamplesStoredOnce == Spec => []SampleStoredOnce
  <1>1. Inv => SampleStoredOnce
    <2> SUFFICES ASSUME Inv, NEW r \in db, NEW q \in db, r # q,
                        NEW x \in RowsOf(r.layer), x.time < r.time,
                        NEW y \in RowsOf(q.layer), y.time < q.time
                 PROVE  r.axis \cap q.axis = {}
      BY DEF SampleStoredOnce
    <2>1. TableOK /\ x \in db /\ x.layer = r.layer /\ y \in db /\ y.layer = q.layer
      BY DEF Inv, RowsOf
    <2>2. ~First(r) /\ ~First(q)
      BY <2>1, RowFacts DEF First
    <2> QED
      BY <2>1, <2>2 DEF TableOK
  <1> QED
    BY <1>1, StatInvariant, PTL

(* The rows of a layer that has its start row, in order. *)
LEMMA RowsInOrder ==
  ASSUME Inv, phase = "ready", NEW i \in Nums, NEW n \in Nat, n = Count(i),
         NEW q \in db, q.layer = i, q.time = layers[i].start
  PROVE  /\ Cardinality(RowsOf(i)) = n + 1
         /\ RowAt(RowsOf(i), 0) = q
         /\ \A k \in 0 .. n - 1 : RowAt(RowsOf(i), k + 1) = RingRow(i, k)
  <1>1. Types /\ TableOK /\ MirroredAt(i) /\ Placed
    BY DEF Inv, Serving, Mirrored
  <1> DEFINE f == [k \in 0 .. n |-> IF k = 0 THEN q ELSE RingRow(i, k - 1)]
  <1>2. \A r \in db : r.time \in Nat
    BY <1>1, RowFacts
  <1>3. ASSUME NEW k \in 0 .. n - 1
        PROVE  /\ RingRow(i, k) \in Held /\ RingRow(i, k).layer = i /\ RingRow(i, k) \in db
               /\ q.time < RingRow(i, k).time
    <2>1. RingRow(i, k) \in Held /\ RingRow(i, k).layer = i
      BY <1>1, RingRows
    <2>2. q \in db \ Held
      BY DEF Held
    <2> QED
      BY <1>1, <2>1, <2>2, RowFacts DEF Placed
  <1>4. 0 \in 0 .. n /\ \A k \in 0 .. n : k # 0 => k - 1 \in 0 .. n - 1
    OBVIOUS
  <1>5. f[0] = q /\ \A k \in 0 .. n : k # 0 => f[k] = RingRow(i, k - 1)
    BY <1>4
  <1> HIDE DEF f
  <1>6. RowsOf(i) = {f[k] : k \in 0 .. n}
    <2>1. ASSUME NEW r \in RowsOf(i) PROVE \E k \in 0 .. n : r = f[k]
      <3>1. CASE r.time = layers[i].start
        <4>1. r = q
          BY <1>1, <3>1 DEF TableOK, RowsOf
        <4> QED
          BY <1>4, <1>5, <4>1
      <3>2. CASE r.time # layers[i].start
        <4>1. r \in Held /\ r.layer = i
          BY <3>2 DEF Held, RowsOf
        <4>2. PICK k \in 0 .. n - 1 : r = RingRow(i, k)
          BY <1>1, <4>1, RingRows
        <4>3. PICK j \in 0 .. n : j # 0 /\ j - 1 = k
          <5>1. k + 1 \in 0 .. n /\ k + 1 # 0 /\ (k + 1) - 1 = k
            OBVIOUS
          <5> QED
            BY <5>1
        <4> QED
          BY <1>5, <4>2, <4>3
      <3> QED
        BY <3>1, <3>2
    <2>2. ASSUME NEW k \in 0 .. n PROVE f[k] \in RowsOf(i)
      <3>1. CASE k = 0
        BY <1>5, <3>1 DEF RowsOf
      <3>2. CASE k # 0
        BY <1>3, <1>4, <1>5, <3>2 DEF RowsOf
      <3> QED
        BY <3>1, <3>2
    <2> QED
      BY <2>1, <2>2
  <1>7. \A k \in 0 .. n : f[k].time \in Nat
    BY <1>2, <1>6 DEF RowsOf
  <1>8. ASSUME NEW j \in 0 .. n, NEW k \in 0 .. n, j < k PROVE f[j].time < f[k].time
    <2>1. k # 0 /\ k - 1 \in 0 .. n - 1 /\ f[k] = RingRow(i, k - 1)
      BY <1>4, <1>5, <1>8
    <2>2. CASE j = 0
      BY <1>3, <1>5, <2>1, <2>2
    <2>3. CASE j # 0
      <3>1. j - 1 \in 0 .. n - 1 /\ f[j] = RingRow(i, j - 1) /\ j - 1 < k - 1
        BY <1>4, <1>5, <1>8, <2>3
      <3> QED
        BY <1>1, <2>1, <3>1 DEF MirroredAt
    <2> QED
      BY <2>2, <2>3
  <1>9. \A j, k \in 0 .. n : j < k => f[j].time < f[k].time
    BY <1>8
  <1> DEFINE rows == RowsOf(i)
  <1> HIDE DEF rows
  <1>a. rows = {f[k] : k \in 0 .. n}
    BY <1>6 DEF rows
  <1>10. Cardinality(rows) = n + 1 /\ \A k \in 0 .. n : RowAt(rows, k) = f[k]
    BY <1>7, <1>9, <1>a, Enumerated, Zenon
  <1>11. ASSUME NEW k \in 0 .. n - 1 PROVE RowAt(rows, k + 1) = RingRow(i, k)
    <2>1. k + 1 \in 0 .. n /\ k + 1 # 0 /\ (k + 1) - 1 = k
      OBVIOUS
    <2> QED
      BY <1>5, <1>10, <2>1
  <1> QED
    BY <1>4, <1>5, <1>10, <1>11 DEF rows

(* What is read from a ring when no Append is in progress. *)
LEMMA QuietRing ==
  ASSUME Inv, Quiet, NEW i \in Nums, NEW n \in Nat, n = Count(i)
  PROVE  /\ n \in 0 .. LayerLen[i] /\ Size(layers[i], i) = n
         /\ (n = 0 => layers[i].empty = TRUE) /\ (n # 0 => layers[i].empty = FALSE)
  <1>1. /\ MirroredAt(i) /\ NestedAt(i) /\ call[i].pc = "none" /\ layers[i] \in Rings(i)
        /\ layers[i].empty \in BOOLEAN /\ LayerLen[i] \in Nat
    BY Config, TypeFacts DEF Inv, Quiet, Serving, Mirrored, Nested
  <1>2. n \in 0 .. LayerLen[i] /\ n \in Nat
    BY <1>1 DEF MirroredAt
  <1>3. layers[i].empty = TRUE <=> n = 0
    BY <1>1 DEF NestedAt
  <1>4. (n = 0 => layers[i].empty = TRUE) /\ (n # 0 => layers[i].empty = FALSE)
    BY <1>1, <1>3
  <1>5. layers[i].tail = (layers[i].head + n) % LayerLen[i]
    BY <1>1, Zenon DEF MirroredAt
  <1>6. /\ n > 0 /\ layers[i].empty = FALSE => Size(layers[i], i) = n
        /\ layers[i].empty = TRUE => Size(layers[i], i) = 0
    BY <1>1, <1>2, <1>5, RingSize
  <1> QED
    BY <1>2, <1>4, <1>6

(* The k-th axis of ring l, with the times it begins and ends at. *)
Entry(l, i, k) ==
  [from |-> IF k = 0 THEN l.start ELSE RingTime(l, i, k - 1),
   to |-> RingTime(l, i, k), axis |-> RingAxis(l, i, k)]

(* A ring rebuilt from a table that mirrors it is the ring itself. *)
LEMMA Reloaded ==
  ASSUME Inv, Quiet, ~torn, NEW i \in Nums, NEW l, l = Loaded(i)
  PROVE  /\ RowsOf(i) # {}
         /\ Entries(l, i) = Entries(layers[i], i)
         /\ l.start = layers[i].start /\ l.end = layers[i].end
         /\ l.empty = layers[i].empty
  <1>1. /\ TableOK /\ MirroredAt(i) /\ phase = "ready"
        /\ LayerLen[i] \in Nat
    BY Config DEF Inv, Quiet, Serving, Mirrored
  <1>2. PICK q \in db : q.layer = i /\ q.time = layers[i].start
    BY DEF Inv, Quiet, Serving, Started
  <1>3. PICK c \in Nat : c = Count(i)
    BY <1>1 DEF MirroredAt
  <1>4. /\ c \in 0 .. LayerLen[i] /\ Size(layers[i], i) = c
        /\ (c = 0 => layers[i].empty = TRUE) /\ (c # 0 => layers[i].empty = FALSE)
    BY <1>3, QuietRing
  <1>5. /\ Cardinality(RowsOf(i)) = c + 1
        /\ RowAt(RowsOf(i), 0) = q
        /\ \A k \in 0 .. c - 1 : RowAt(RowsOf(i), k + 1) = RingRow(i, k)
    BY <1>1, <1>2, <1>3, <1>4, RowsInOrder
  <1>6. RowsOf(i) # {}
    BY <1>2 DEF RowsOf
  <1>7. PICK n \in Nat : LoadedAs(i, l, RowsOf(i), n)
    BY <1>1, <1>6, LoadedFacts
  <1>8. n = c
    BY <1>1, <1>4, <1>5, <1>7 DEF LoadedAs
  <1>9. l.start = layers[i].start
    BY <1>2, <1>5, <1>7 DEF LoadedAs
  <1>10. l.end = layers[i].end
    <2>1. l.end = RowAt(RowsOf(i), c).time
      BY <1>7, <1>8, Zenon DEF LoadedAs
    <2>2. layers[i].end = IF c = 0 THEN layers[i].start ELSE RingRow(i, c - 1).time
      BY <1>1, <1>3, Zenon DEF MirroredAt
    <2>3. CASE c = 0
      BY <1>2, <1>5, <2>1, <2>2, <2>3
    <2>4. CASE c # 0
      <3>1. c - 1 \in 0 .. c - 1 /\ (c - 1) + 1 = c
        BY <1>4, <2>4
      <3>2. RowAt(RowsOf(i), c) = RingRow(i, c - 1)
        BY <1>5, <3>1
      <3> QED
        BY <2>1, <2>2, <2>4, <3>2
    <2> QED
      BY <2>3, <2>4
  <1>11. (c = 0 => l.empty = TRUE) /\ (c # 0 => l.empty = FALSE)
    BY <1>7, <1>8, Zenon DEF LoadedAs
  <1>12. l.empty = layers[i].empty
    BY <1>4, <1>11, Zenon
  <1>13. Size(l, i) = c
    <2>1. l \in Rings(i) /\ l.tail = (l.head + c) % LayerLen[i]
      BY <1>7, <1>8, Zenon DEF LoadedAs
    <2>2. (c > 0 /\ l.empty = FALSE => Size(l, i) = c) /\ (l.empty = TRUE => Size(l, i) = 0)
      BY <1>4, <2>1, RingSize
    <2> QED
      BY <1>4, <1>11, <2>2
  <1>14. ASSUME NEW k \in 0 .. c - 1
         PROVE  /\ RingTime(l, i, k) = RingTime(layers[i], i, k)
                /\ RingAxis(l, i, k) = RingAxis(layers[i], i, k)
    <2>1. /\ RingTime(l, i, k) = RowAt(RowsOf(i), k + 1).time
          /\ RingAxis(l, i, k) = RowAt(RowsOf(i), k + 1).axis
      BY <1>7, <1>8, Zenon DEF LoadedAs
    <2>2. RowAt(RowsOf(i), k + 1) = RingRow(i, k)
      BY <1>5
    <2>3. /\ RingRow(i, k).time = RingTime(layers[i], i, k)
          /\ RingRow(i, k).axis = RingAxis(layers[i], i, k)
      BY DEF RingRow, Row
    <2> QED
      BY <2>1, <2>2, <2>3
  <1>15. Entries(l, i) = Entries(layers[i], i)
    <2>1. \A k \in 0 .. c - 1 : k = 0 \/ k - 1 \in 0 .. c - 1
      BY <1>4
    <2>2. ASSUME NEW k \in 0 .. c - 1
          PROVE  Entry(l, i, k) = Entry(layers[i], i, k)
      <3>1. (IF k = 0 THEN l.start ELSE RingTime(l, i, k - 1))
            = IF k = 0 THEN layers[i].start ELSE RingTime(layers[i], i, k - 1)
        BY <1>9, <1>14, <2>1
      <3> QED
        BY <1>14, <3>1 DEF Entry
    <2>3. /\ Entries(l, i) = {Entry(l, i, k) : k \in 0 .. c - 1}
          /\ Entries(layers[i], i) = {Entry(layers[i], i, k) : k \in 0 .. c - 1}
      BY <1>4, <1>13, Zenon DEF Entries, Entry
    <2> QED
      BY <2>2, <2>3
  <1> QED
    BY <1>6, <1>9, <1>10, <1>12, <1>15

(* Whenever no Append is in progress Restore would rebuild from the table  *)
(* every layer as it is in memory, wherever the process died before, as    *)
(* long as no Restore was interrupted between CREATE TABLE and the last    *)
(* start row.                                                              *)
THEOREM RestartsAreTransparent == Spec => []RestartIsTransparent
  <1>1. Inv => RestartIsTransparent
    <2> SUFFICES ASSUME Inv, ~torn, Quiet, NEW i \in Nums, NEW l, l = Loaded(i)
                 PROVE  /\ RowsOf(i) # {}
                        /\ Entries(l, i) = Entries(layers[i], i)
                        /\ l.start = layers[i].start /\ l.end = layers[i].end
                        /\ l.empty = layers[i].empty
      BY Zenon DEF RestartIsTransparent, TableMirrorsMemory
    <2> QED
      BY Reloaded, Zenon
  <1> QED
    BY <1>1, StatInvariant, PTL

-----------------------------------------------------------------------------
(* The first run.                                                          *)

LEMMA InitEarly ==
  ASSUME Init
  PROVE  Early
  <1>1. FirstTime \in Nat
    BY StatAssumption
  <1> QED
    BY <1>1 DEF Init, Early

LEMMA StepEarly ==
  ASSUME Inv, Early, [Next]_vars
  PROVE  Early'
  <1>1. now \in Nat /\ FirstTime \in Nat /\ crashes \in Nat
    BY StatAssumption DEF Inv, Types
  <1>2. CASE StatAppend
    <2>1. /\ phase = "ready" /\ phase' = "ready" /\ crashes' = crashes
          /\ now' = now + 1 /\ appended' = appended \cup {now'}
      BY <1>2 DEF StatAppend, Quiet
    <2> QED
      BY <1>1, <2>1 DEF Early
  <1>3. ASSUME NEW i \in Nums, Reduce(i) \/ InsertLast(i) PROVE Early'
    <2>1. UNCHANGED <<phase, crashes, now, appended>> /\ call[i].pc # "none"
      BY <1>3 DEF Reduce, InsertLast
    <2>2. phase # "boot"
      BY <2>1 DEF Inv, Booting, Unused, NoFrame
    <2> QED
      BY <2>1, <2>2 DEF Early
  <1>4. CASE NoTable \/ ClearTable \/ InsertStart \/ LoadLayers
    <2>1. phase # "ready" /\ phase' # "boot" /\ UNCHANGED <<crashes, now, appended>>
      BY <1>4 DEF NoTable, ClearTable, InsertStart, LoadLayers
    <2> QED
      BY <2>1 DEF Early
  <1>5. CASE Restart
    <2>1. crashes' # 0
      BY <1>1, <1>5 DEF Restart
    <2> QED
      BY <2>1 DEF Early
  <1>6. CASE UNCHANGED vars
    BY <1>6 DEF vars, Early
  <1> QED
    BY <1>2, <1>3, <1>4, <1>5, <1>6 DEF Next

(* A step of Append leaves two layers joined, or moves an axis from one to *)
(* the other.                                                              *)
LEMMA ReduceJoined ==
  ASSUME Compacting, Types, TableOK, Serving, NEW j \in Nums, Reduce(j),
         NEW i \in Nums, i + 1 \in Nums, ~Busy(i + 1)', call'[i].pc # "reduce",
         ~Busy(i + 1) /\ call[i].pc # "reduce" => layers[i + 1].end = layers[i].start
  PROVE  layers'[i + 1].end = layers'[i].start
  <1>1. Mirrored /\ Nested /\ Placed
    BY DEF Serving
  <1>2. PICK h : Reduced(j, h)
    BY <1>1, ReduceRows
  <1>3. TakesMore(j, h) \/ DropsIt(j) \/ PassesOn(j, h)
    BY <1>2 DEF Reduced
  <1>4. i \in Nat /\ j \in Nat /\ N \in Nat /\ i <= N - 2 /\ i + 1 # i
    BY StatAssumption DEF Nums
  <1>5. call[j].pc = "reduce" /\ call[j] \in Frames
    BY TypeFacts DEF Reduce
  <1>6. Busy(j)'
    <2>1. call'[j].pc # "none"
      BY <1>3, <1>5 DEF TakesMore, DropsIt, PassesOn, Frames
    <2> QED
      BY <2>1 DEF Busy
  <1>7. j # i + 1
    BY <1>6
  <1>8. j # i
    <2> SUFFICES ASSUME j = i PROVE FALSE
      OBVIOUS
    <2>1. ~TakesMore(i, h)
      <3>1. TakesMore(i, h) => call'[i].pc = "reduce"
        BY <1>5 DEF TakesMore, Frames
      <3> QED
        BY <3>1
    <2>2. ~DropsIt(i)
      <3>1. i \in 0 .. N - 2 /\ i # N - 1
        BY <1>4
      <3>2. LayerRatio[i] \in Nat /\ LayerRatio[i] > 0
        BY <3>1, Config DEF Compacting
      <3> QED
        BY <3>1, <3>2 DEF DropsIt, Drops
    <2>3. ~PassesOn(i, h)
      <3>1. ASSUME PassesOn(i, h) PROVE Busy(i + 1)'
        <4>1. call'[i + 1] = Frame(i + 1, call[i].acc \cup h.axis, h.time)
          BY <3>1 DEF PassesOn
        <4> QED
          BY <4>1 DEF Busy, Frame
      <3> QED
        BY <3>1
    <2> QED
      BY <1>3, <2>1, <2>2, <2>3
  <1>9. layers'[i] = layers[i] /\ layers'[i + 1] = layers[i + 1]
    BY <1>1, <1>7, <1>8, ReduceCounts
  <1>10. ~Busy(i + 1)
    <2>1. i + 1 # j /\ i + 1 # j + 1
      BY <1>4, <1>7, <1>8
    <2>2. call'[i + 1] = call[i + 1]
      BY <1>3, <2>1 DEF TakesMore, DropsIt, PassesOn, OtherCalls
    <2> QED
      BY <2>2 DEF Busy
  <1>11. call[i].pc # "reduce"
    <2>1. call[i].pc = "reduce" => i = j
      BY <1>1, <1>4, <1>5, Innermost DEF Busy
    <2> QED
      BY <1>8, <2>1
  <1> QED
    BY <1>9, <1>10, <1>11

LEMMA InsertJoined ==
  ASSUME Types, TableOK, Serving, NEW j \in Nums, InsertLast(j),
         NEW i \in Nums, i + 1 \in Nums, ~Busy(i + 1)', call'[i].pc # "reduce",
         ~Busy(i + 1) /\ call[i].pc # "reduce" => layers[i + 1].end = layers[i].start
  PROVE  layers'[i + 1].end = layers'[i].start
  <1>1. MirroredAt(j) /\ NestedAt(j) /\ Nested /\ Pending
    BY DEF Serving, Mirrored, Nested
  <1>2. PICK n : Inserted(j, n)
    BY InsertRows
  <1>3. i \in Nat /\ j \in Nat /\ i + 1 # i
    BY Config
  <1>4. layers'[i].start = layers[i].start
    BY <1>2 DEF Inserted
  <1>5. CASE j = i + 1
    <2>1. PICK c : c = Count(j)
      OBVIOUS
    <2>2. layers'[j].end = call[j].time
      BY <1>1, <2>1, InsertRing
    <2>3. PendingAt(j) /\ j > 0 /\ j - 1 = i
      BY <1>1, <1>2, <1>3, <1>5 DEF Inserted, Pending
    <2>4. call[j].time = layers[i].start
      BY <2>3 DEF PendingAt
    <2> QED
      BY <1>4, <1>5, <2>2, <2>4
  <1>6. CASE j # i + 1
    <2>1. layers'[i + 1] = layers[i + 1]
      BY <1>2, <1>6 DEF Inserted
    <2>2. ~(i + 1 < j) /\ ~(i < j)
      BY <1>2, <1>3, <1>6 DEF Inserted
    <2>3. i + 1 > j
      BY <1>3, <1>6, <2>2
    <2>4. ~Busy(i + 1)
      BY <1>1, <2>3, InsertCalls
    <2>5. call[i].pc # "reduce"
      <3>1. i = j => call[i].pc = "insert"
        BY DEF InsertLast
      <3>2. i # j => i > j
        BY <1>3, <2>2
      <3>3. i > j => ~Busy(i)
        BY <1>1, InsertCalls
      <3> QED
        BY <3>1, <3>2, <3>3 DEF Busy
    <2> QED
      BY <1>4, <2>1, <2>4, <2>5
  <1> QED
    BY <1>5, <1>6

LEMMA LoadJoined ==
  ASSUME Gapless, Inv, Early, crashes = 0, LoadLayers, NEW i \in Nums, i + 1 \in Nums
  PROVE  layers'[i + 1].end = layers'[i].start
  <1>1. TableOK /\ Booting /\ table /\ ~torn /\ db \in Tables
    BY DEF Inv, LoadLayers, Early
  <1>2. \A j \in Nums : RowsOf(j) # {}
    BY <1>1 DEF Booting
  <1>3. \A j \in Nums : Visited(j)
    BY <1>1, <1>2, VisitedFacts
  <1>4. layers'[i] = Loaded(i) /\ layers'[i + 1] = Loaded(i + 1)
    BY <1>3 DEF LoadLayers
  <1>5. i \in 0 .. N - 2 /\ db # {} /\ i \in Nat
    BY <1>2, StatAssumption DEF Nums, RowsOf
  <1>6. /\ Cardinality(RowsOf(i + 1)) <= LayerLen[i + 1] + 1
        /\ \E r, q \in db :
             /\ r.layer = i /\ \A x \in db : x.layer = i => r.time <= x.time
             /\ q.layer = i + 1 /\ \A x \in db : x.layer = i + 1 => x.time <= q.time
             /\ r.time = q.time
    BY <1>1, <1>5 DEF Gapless, RowsOf
  <1>7. PICK r \in db, q \in db :
             /\ r.layer = i /\ \A x \in db : x.layer = i => r.time <= x.time
             /\ q.layer = i + 1 /\ \A x \in db : x.layer = i + 1 => x.time <= q.time
             /\ r.time = q.time
    BY <1>6
  <1>8. /\ r \in RowsOf(i) /\ \A x \in RowsOf(i) : r.time <= x.time
        /\ q \in RowsOf(i + 1) /\ \A x \in RowsOf(i + 1) : x.time <= q.time
    BY <1>7 DEF RowsOf
  <1>9. r.time \in Nat /\ q.time \in Nat
    BY <1>1, RowFacts
  <1>10. layers'[i].start = r.time
    <2>1. PICK n \in Nat : LoadedAs(i, layers'[i], RowsOf(i), n)
      BY <1>1, <1>2, <1>4, LoadedFacts
    <2>2. PICK z \in RowsOf(i) : z = RowAt(RowsOf(i), 0) /\ z.time \in Nat
      <3>1. 0 \in 0 .. n
        OBVIOUS
      <3> QED
        BY <2>1, <3>1 DEF LoadedAs
    <2>3. PICK k : r = RowAt(RowsOf(i), k) /\ (k = 0 \/ z.time < r.time)
      BY <1>8, <2>1, <2>2 DEF LoadedAs
    <2>4. r.time <= z.time
      BY <1>8, <2>2
    <2>5. r = z
      BY <1>9, <2>2, <2>3, <2>4
    <2> QED
      BY <2>1, <2>2, <2>5 DEF LoadedAs
  <1>11. layers'[i + 1].end = q.time
    <2> DEFINE rows == RowsOf(i + 1)
    <2>1. PICK n \in Nat : LoadedAs(i + 1, layers'[i + 1], rows, n)
      BY <1>1, <1>2, <1>4, LoadedFacts
    <2> HIDE DEF rows
    <2>2. n = Cardinality(rows) - 1
      BY <1>6, <2>1 DEF LoadedAs, rows
    <2>3. n \in 0 .. n
      OBVIOUS
    <2>4. PICK z \in rows : z = RowAt(rows, n) /\ z.time \in Nat
      BY <2>1, <2>3 DEF LoadedAs
    <2>5. PICK k \in 0 .. n : q = RowAt(rows, k)
      BY <1>8, <2>1, <2>2 DEF LoadedAs, rows
    <2>6. z.time <= q.time
      BY <1>8, <2>4 DEF rows
    <2>7. k < n => q.time < z.time
      BY <2>1, <2>3, <2>4, <2>5 DEF LoadedAs
    <2>8. k = n
      BY <1>9, <2>4, <2>6, <2>7
    <2> QED
      BY <2>1, <2>5, <2>8 DEF LoadedAs
  <1> QED
    BY <1>7, <1>10, <1>11

LEMMA StepJoined ==
  ASSUME Compacting, Gapless, Inv, Inv', Early, Joined, [Next]_vars
  PROVE  Joined'
  <1> SUFFICES ASSUME crashes' = 0, phase' = "ready", NEW i \in 0 .. N - 2,
                      ~Busy(i + 1)', call'[i].pc # "reduce"
               PROVE  layers'[i + 1].end = layers'[i].start
    BY DEF Joined
  <1>1. i \in Nums /\ i + 1 \in Nums /\ i + 1 # 0
    BY StatAssumption DEF Nums
  <1>2. Types /\ TableOK /\ now \in Nat /\ crashes \in Nat
    BY DEF Inv, Types
  <1>3. ASSUME phase = "ready", crashes = 0
        PROVE  /\ Serving
               /\ ~Busy(i + 1) /\ call[i].pc # "reduce" => layers[i + 1].end = layers[i].start
    BY <1>3 DEF Inv, Joined
  <1>4. CASE StatAppend
    <2>1. phase = "ready" /\ crashes = 0 /\ layers' = layers /\ \A j \in Nums : call[j].pc = "none"
      BY <1>4 DEF StatAppend, Quiet
    <2> QED
      BY <1>1, <1>3, <2>1 DEF Busy
  <1>5. ASSUME NEW j \in Nums, Reduce(j) \/ InsertLast(j)
        PROVE  layers'[i + 1].end = layers'[i].start
    <2>1. phase = "ready" /\ crashes = 0
      BY <1>5 DEF Reduce, InsertLast
    <2> QED
      BY <1>1, <1>2, <1>3, <1>5, <2>1, ReduceJoined, InsertJoined
  <1>6. CASE NoTable \/ ClearTable
    BY <1>6 DEF NoTable, ClearTable
  <1>7. CASE InsertStart
    <2>1. Unused /\ layers' = layers
      BY <1>7 DEF InsertStart, Inv, Marking
    <2> QED
      BY <1>1, <1>2, <2>1, UnusedFacts
  <1>8. CASE LoadLayers
    <2>1. crashes = 0
      BY <1>8 DEF LoadLayers
    <2> QED
      BY <1>1, <1>8, <2>1, LoadJoined
  <1>9. CASE Restart
    BY <1>2, <1>9 DEF Restart
  <1>10. CASE UNCHANGED vars
    BY <1>3, <1>10 DEF vars, Busy
  <1> QED
    BY <1>4, <1>5, <1>6, <1>7, <1>8, <1>9, <1>10 DEF Next

(* Each ring is in order between its start and its end. *)
LEMMA RingInOrder ==
  ASSUME Inv, Quiet, ~torn, NEW i \in Nums
  PROVE  /\ \A e \in Entries(layers[i], i) : e.from < e.to
         /\ layers[i].end = IF layers[i].empty THEN layers[i].start
                            ELSE RingTime(layers[i], i, Size(layers[i], i) - 1)
         /\ \E r \in db : r.layer = i /\ r.time = layers[i].end
  <1>1. Types /\ TableOK /\ MirroredAt(i) /\ Placed /\ phase = "ready"
    BY DEF Inv, Quiet, Serving, Mirrored
  <1>2. PICK q \in db : q.layer = i /\ q.time = layers[i].start
    BY DEF Inv, Quiet, Serving, Started
  <1>3. PICK c \in Nat : c = Count(i)
    BY <1>1 DEF MirroredAt
  <1>4. /\ Size(layers[i], i) = c
        /\ (c = 0 => layers[i].empty = TRUE) /\ (c # 0 => layers[i].empty = FALSE)
    BY <1>3, QuietRing
  <1>5. \A k \in 0 .. c - 1 : /\ RingRow(i, k) \in Held /\ RingRow(i, k).layer = i
                              /\ RingRow(i, k).time = RingTime(layers[i], i, k)
    BY <1>1, <1>3, RingRows
  <1>6. \A j, k \in 0 .. c - 1 : j < k => RingTime(layers[i], i, j) < RingTime(layers[i], i, k)
    BY <1>1, <1>3, <1>5 DEF MirroredAt
  <1>7. \A k \in 0 .. c - 1 : layers[i].start < RingTime(layers[i], i, k)
    <2>1. q \in db \ Held
      BY <1>2 DEF Held
    <2> QED
      BY <1>1, <1>2, <1>5, <2>1 DEF Placed
  <1>8. ASSUME NEW e \in Entries(layers[i], i) PROVE e.from < e.to
    <2>1. Entries(layers[i], i) = {Entry(layers[i], i, k) : k \in 0 .. c - 1}
      BY <1>4, Zenon DEF Entries, Entry
    <2>2. PICK k \in 0 .. c - 1 : e = Entry(layers[i], i, k)
      BY <2>1
    <2>3. /\ e.from = IF k = 0 THEN layers[i].start ELSE RingTime(layers[i], i, k - 1)
          /\ e.to = RingTime(layers[i], i, k)
      BY <2>2 DEF Entry
    <2>4. k # 0 => k - 1 \in 0 .. c - 1 /\ k - 1 < k
      OBVIOUS
    <2> QED
      BY <1>6, <1>7, <2>3, <2>4
  <1>9. layers[i].end = IF c = 0 THEN layers[i].start ELSE RingRow(i, c - 1).time
    BY <1>1, <1>3, Zenon DEF MirroredAt
  <1>10. CASE c = 0
    BY <1>2, <1>4, <1>8, <1>9, <1>10
  <1>11. CASE c # 0
    <2>1. c - 1 \in 0 .. c - 1
      BY <1>11
    <2>2. /\ RingRow(i, c - 1) \in db /\ RingRow(i, c - 1).layer = i
          /\ layers[i].end = RingRow(i, c - 1).time
          /\ layers[i].end = RingTime(layers[i], i, c - 1)
      BY <1>5, <1>9, <1>11, <2>1 DEF Held
    <2> QED
      BY <1>4, <1>8, <1>11, <2>2
  <1> QED
    BY <1>10, <1>11

(* The layers follow each other in time and each ring is strictly ordered; *)
(* until the first restart the axes of a layer begin where those of the    *)
(* next one end.                                                           *)
THEOREM LayersStayInOrder ==
  ASSUME Compacting, Gapless
  PROVE  Spec => []LayersInOrder
  <1>1. Init => Early /\ Joined
    BY InitEarly DEF Init, Joined
  <1>2. Inv /\ Inv' /\ Early /\ Joined /\ [Next]_vars => Early' /\ Joined'
    BY StepEarly, StepJoined
  <1>3. Inv /\ Joined => LayersInOrder
    <2> SUFFICES ASSUME Inv, Joined, Quiet, ~torn
                 PROVE  /\ \A i \in Nums : LET l == layers[i] IN
                             /\ \A e \in Entries(l, i) : e.from < e.to
                             /\ l.end = IF l.empty THEN l.start ELSE RingTime(l, i, Size(l, i) - 1)
                        /\ \A i \in 0 .. N - 2 :
                             /\ layers[i + 1].end <= layers[i].start
                             /\ crashes = 0 => layers[i + 1].end = layers[i].start
      BY DEF LayersInOrder
    <2>1. ASSUME NEW i \in 0 .. N - 2
          PROVE  /\ layers[i + 1].end <= layers[i].start
                 /\ crashes = 0 => layers[i + 1].end = layers[i].start
      <3>1. i \in Nums /\ i + 1 \in Nums /\ i \in Nat /\ phase = "ready"
        BY StatAssumption DEF Nums, Quiet
      <3>2. PICK r \in db : r.layer = i + 1 /\ r.time = layers[i + 1].end
        BY <3>1, RingInOrder
      <3>3. PICK q \in db : q.layer = i /\ q.time = layers[i].start
        BY <3>1 DEF Inv, Serving, Started
      <3>4. r.layer > q.layer
        BY <3>1, <3>2, <3>3
      <3>5. layers[i + 1].end <= layers[i].start
        BY <3>2, <3>3, <3>4 DEF Inv, TableOK
      <3>6. ~Busy(i + 1) /\ call[i].pc # "reduce"
        BY <3>1 DEF Quiet, Busy
      <3> QED
        BY <3>1, <3>5, <3>6 DEF Joined
    <2> QED
      BY <2>1, RingInOrder
  <1> QED
    BY <1>1, <1>2, <1>3, StatInvariant, PTL DEF Spec

LEMMA AppendComplete ==
  ASSUME Types, TableOK, Serving, StatAppend, Complete
  PROVE  Complete'
  <1>1. /\ 0 \in Nums /\ now \in Nat /\ now' = now + 1 /\ N - 1 \in Nums
        /\ UNCHANGED <<layers, db>> /\ appended' = appended \cup {now'}
        /\ \A j \in Nums : call[j].pc = "none"
    BY StatAssumption DEF StatAppend, Quiet, Nums, Types
  <1>2. call'[0] = Frame(0, {now'}, now') /\ \A j \in Nums : j # 0 => call'[j] = call[j]
    BY <1>1 DEF StatAppend, Types
  <1>3. /\ call'[0].axis = {now'} /\ call'[0].acc = {}
        /\ Busy(0)'
        /\ \A j \in Nums : j # 0 => ~Busy(j)' /\ call'[j].pc # "reduce"
    BY <1>1, <1>2 DEF Frame, Busy
  <1>4. Held' = Held
    BY <1>1 DEF Held
  <1>5. \A s : Holds(s)' <=> Holds(s) \/ s = now'
    <2>1. \A s : Holds(s) <=> \E r \in Held : s \in r.axis
      BY <1>1 DEF Holds, Busy
    <2>2. \A s : Holds(s)' <=> (\E r \in Held : s \in r.axis) \/ s = now'
      BY <1>1, <1>3, <1>4 DEF Holds
    <2> QED
      BY <2>1, <2>2
  <1>6. /\ \A s \in appended' : s > layers'[N - 1].start => Holds(s)'
        /\ \A s : Holds(s)' /\ s > FirstTime => s \in appended'
    BY <1>1, <1>5 DEF Complete
  <1>7. \A r \in Held', q \in db' :
          q.layer > r.layer \/ (q.layer = r.layer /\ q.time < r.time) => Younger(r.axis, q)
    BY <1>1, <1>4 DEF Complete
  <1>8. ASSUME NEW j \in Nums, NEW q \in db'
        PROVE  /\ Busy(j)' /\ q.layer >= j => Younger(call'[j].axis, q)
               /\ call'[j].pc = "reduce" /\ q.layer > j => Younger(call'[j].acc, q)
    <2>1. q.time < now'
      BY <1>1, RowFacts
    <2> QED
      BY <1>3, <2>1 DEF Younger
  <1> QED
    BY <1>6, <1>7, <1>8 DEF Complete

(* The samples of an axis that leaves the ring are younger than the rows   *)
(* of the layers above, and stay in the frame; only the last layer drops   *)
(* them, and then they are not younger than its new start.                 *)
LEMMA ReduceComplete ==
  ASSUME Compacting, Types, TableOK, Serving, ~torn, NEW i \in Nums, Reduce(i), Complete
  PROVE  Complete'
  <1>1. Mirrored /\ Nested /\ Placed /\ Pending /\ Started
    BY DEF Serving
  <1>2. PICK h : Reduced(i, h)
    BY <1>1, ReduceRows
  <1>3. /\ db' \subseteq db /\ Held' = Held \ {h} /\ h \in Held /\ h.layer = i /\ h \in db
        /\ \A j \in Nums : layers'[j].start = IF j = i THEN h.time ELSE layers[j].start
        /\ call[i].pc = "reduce" /\ Busy(i) /\ appended' = appended
    BY <1>2 DEF Reduced, Reduce, Busy, Held
  <1>4. i \in Nat /\ N \in Nat /\ N - 1 \in Nums /\ i <= N - 1
    BY StatAssumption DEF Nums
  <1>5. call[i] \in Frames /\ h.time \in Nat /\ h.axis \subseteq Nat /\ call[i].acc \subseteq Nat
    BY <1>3, TypeFacts, RowFacts
  <1>6. \A j \in Nums : j # i => call[j].pc # "reduce"
    BY <1>1, <1>3, Innermost DEF Busy
  <1>7. ASSUME NEW q \in db, q.layer > i
        PROVE  Younger(call[i].acc \cup h.axis, q)
    BY <1>3, <1>7 DEF Complete, Younger
  <1>8. \A r \in Held', q \in db' :
          q.layer > r.layer \/ (q.layer = r.layer /\ q.time < r.time) => Younger(r.axis, q)
    BY <1>3 DEF Complete
  <1>9. CASE TakesMore(i, h)
    <2>1. /\ call'[i].pc = "reduce" /\ call'[i].axis = call[i].axis
          /\ call'[i].acc = call[i].acc \cup h.axis
          /\ \A j \in Nums : j # i => call'[j] = call[j]
      BY <1>3, <1>5, <1>9 DEF TakesMore, OtherCalls, Frames
    <2>2. i # N - 1
      BY <1>9 DEF TakesMore, Drops
    <2>3. \A s : Holds(s)' <=> Holds(s)
      <3>1. \A j \in Nums : (Busy(j)' <=> Busy(j)) /\ call'[j].axis = call[j].axis
        BY <1>3, <2>1 DEF Busy
      <3>2. ASSUME NEW s, Holds(s) PROVE Holds(s)'
        BY <1>3, <1>6, <2>1, <3>1, <3>2 DEF Holds
      <3>3. ASSUME NEW s, Holds(s)' PROVE Holds(s)
        <4>1. CASE \E r \in Held' : s \in r.axis
          BY <1>3, <4>1 DEF Holds
        <4>2. CASE \E j \in Nums : Busy(j)' /\ s \in call'[j].axis
          BY <3>1, <4>2 DEF Holds
        <4>3. CASE \E j \in Nums : call'[j].pc = "reduce" /\ s \in call'[j].acc
          BY <1>3, <1>6, <2>1, <4>3 DEF Holds
        <4> QED
          BY <3>3, <4>1, <4>2, <4>3 DEF Holds
      <3> QED
        BY <3>2, <3>3
    <2>4. /\ \A s \in appended' : s > layers'[N - 1].start => Holds(s)'
          /\ \A s : Holds(s)' /\ s > FirstTime => s \in appended'
      BY <1>3, <1>4, <2>2, <2>3 DEF Complete
    <2>5. ASSUME NEW j \in Nums, NEW q \in db'
          PROVE  /\ Busy(j)' /\ q.layer >= j => Younger(call'[j].axis, q)
                 /\ call'[j].pc = "reduce" /\ q.layer > j => Younger(call'[j].acc, q)
      <3>1. q \in db /\ (Busy(j)' <=> Busy(j)) /\ call'[j].axis = call[j].axis
        BY <1>3, <2>1 DEF Busy
      <3> QED
        BY <1>6, <1>7, <2>1, <3>1 DEF Complete
    <2> QED
      BY <1>8, <2>4, <2>5 DEF Complete
  <1>10. CASE DropsIt(i)
    <2>1. i = N - 1
      <3>1. i # N - 1 => i \in 0 .. N - 2 /\ LayerRatio[i] \in Nat
        BY <1>4, Config
      <3> QED
        BY <1>10, <3>1 DEF DropsIt, Drops, Compacting
    <2>2. /\ call'[i].pc = "insert" /\ call'[i].axis = call[i].axis
          /\ \A j \in Nums : j # i => call'[j] = call[j]
      BY <1>5, <1>10 DEF DropsIt, OtherCalls, Frames
    <2>3. \A j \in Nums : /\ (Busy(j)' <=> Busy(j)) /\ call'[j].axis = call[j].axis
                          /\ call'[j].pc # "reduce"
      BY <1>3, <1>6, <2>2 DEF Busy
    <2>4. \A s : Holds(s)' => Holds(s)
      BY <1>3, <2>3 DEF Holds
    <2>5. layers[i].start < h.time /\ layers[i].start \in Nat
      <3>1. PICK q \in db : q.layer = i /\ q.time = layers[i].start
        BY <1>1 DEF Started
      <3>2. q \in db \ Held
        BY <3>1 DEF Held
      <3> QED
        BY <1>1, <1>3, <3>1, <3>2, TypeFacts DEF Placed
    <2>6. ASSUME NEW s \in appended, s > h.time PROVE Holds(s)'
      <3>1. s \in Nat
        BY DEF Types
      <3>2. Holds(s)
        BY <1>5, <2>1, <2>5, <2>6, <3>1 DEF Complete
      <3>3. s \notin h.axis
        BY <1>3, <1>5, <2>6, <3>1 DEF TableOK
      <3>4. s \notin call[i].acc
        BY <1>1, <1>3, <1>5, <2>6, <3>1 DEF Pending
      <3> QED
        BY <1>3, <1>6, <2>3, <3>2, <3>3, <3>4 DEF Holds
    <2>7. /\ \A s \in appended' : s > layers'[N - 1].start => Holds(s)'
          /\ \A s : Holds(s)' /\ s > FirstTime => s \in appended'
      BY <1>3, <2>1, <2>4, <2>6 DEF Complete
    <2>8. ASSUME NEW j \in Nums, NEW q \in db'
          PROVE  /\ Busy(j)' /\ q.layer >= j => Younger(call'[j].axis, q)
                 /\ call'[j].pc = "reduce" /\ q.layer > j => Younger(call'[j].acc, q)
      BY <1>3, <2>3 DEF Complete
    <2> QED
      BY <1>8, <2>7, <2>8 DEF Complete
  <1>11. CASE PassesOn(i, h)
    <2>1. /\ call'[i].pc = "wait" /\ call'[i].axis = call[i].axis
          /\ i + 1 \in Nums /\ ~Busy(i + 1) /\ i + 1 # i
          /\ call'[i + 1].axis = call[i].acc \cup h.axis /\ call'[i + 1].acc = {}
          /\ Busy(i + 1)'
          /\ \A j \in Nums : j # i /\ j # i + 1 => call'[j] = call[j]
      BY <1>4, <1>5, <1>11 DEF PassesOn, OtherCalls, Frames, Frame, Busy
    <2>2. i # N - 1
      BY <1>11 DEF PassesOn, Drops
    <2>3. \A j \in Nums : j # i + 1 => /\ (Busy(j)' <=> Busy(j)) /\ call'[j].axis = call[j].axis
                                       /\ call'[j].pc # "reduce"
      BY <1>3, <1>6, <2>1 DEF Busy
    <2>4. \A s : Holds(s)' <=> Holds(s)
      <3>1. ASSUME NEW s, Holds(s) PROVE Holds(s)'
        <4>1. CASE \E r \in Held : s \in r.axis
          <5>1. CASE s \in h.axis
            BY <2>1, <5>1 DEF Holds
          <5>2. CASE s \notin h.axis
            BY <1>3, <4>1, <5>2 DEF Holds
          <5> QED
            BY <5>1, <5>2
        <4>2. CASE \E j \in Nums : Busy(j) /\ s \in call[j].axis
          BY <2>1, <2>3, <4>2 DEF Holds
        <4>3. CASE \E j \in Nums : call[j].pc = "reduce" /\ s \in call[j].acc
          BY <1>6, <2>1, <4>3 DEF Holds
        <4> QED
          BY <3>1, <4>1, <4>2, <4>3 DEF Holds
      <3>2. ASSUME NEW s, Holds(s)' PROVE Holds(s)
        <4>1. CASE \E r \in Held' : s \in r.axis
          BY <1>3, <4>1 DEF Holds
        <4>2. CASE \E j \in Nums : Busy(j)' /\ s \in call'[j].axis
          BY <1>3, <2>1, <2>3, <4>2 DEF Holds
        <4>3. CASE \E j \in Nums : call'[j].pc = "reduce" /\ s \in call'[j].acc
          BY <2>1, <2>3, <4>3
        <4> QED
          BY <3>2, <4>1, <4>2, <4>3 DEF Holds
      <3> QED
        BY <3>1, <3>2
    <2>5. /\ \A s \in appended' : s > layers'[N - 1].start => Holds(s)'
          /\ \A s : Holds(s)' /\ s > FirstTime => s \in appended'
      BY <1>3, <1>4, <2>2, <2>4 DEF Complete
    <2>6. ASSUME NEW j \in Nums, NEW q \in db'
          PROVE  /\ Busy(j)' /\ q.layer >= j => Younger(call'[j].axis, q)
                 /\ call'[j].pc = "reduce" /\ q.layer > j => Younger(call'[j].acc, q)
      <3>1. CASE j = i + 1
        <4>1. q \in db /\ q.layer \in Nat
          BY <1>3, RowFacts
        <4>2. q.layer >= i + 1 => q.layer > i
          BY <1>4, <4>1
        <4>3. Younger({}, q)
          BY DEF Younger
        <4> QED
          BY <1>7, <2>1, <3>1, <4>1, <4>2, <4>3
      <3>2. CASE j # i + 1
        BY <1>3, <2>3, <3>2 DEF Complete
      <3> QED
        BY <3>1, <3>2
    <2> QED
      BY <1>8, <2>5, <2>6 DEF Complete
  <1> QED
    BY <1>2, <1>9, <1>10, <1>11 DEF Reduced

(* A new row has the time of the start row of the layer before, which is   *)
(* older than all that is in that layer and in those before it.            *)
LEMMA InsertComplete ==
  ASSUME Types, TableOK, Serving, ~torn, NEW i \in Nums, InsertLast(i), Complete
  PROVE  Complete'
  <1>1. Nested /\ Placed /\ Pending /\ Started
    BY DEF Serving
  <1>2. PICK n : Inserted(i, n)
    BY InsertRows
  <1>3. /\ db' = db \cup {n} /\ Held' = Held \cup {n} /\ appended' = appended
        /\ n.layer = i /\ n.time = call[i].time /\ n.axis = call[i].axis
        /\ call[i].pc = "insert" /\ Busy(i)
        /\ \A j \in Nums : layers'[j].start = layers[j].start
        /\ \A j \in Nums : Busy(j)' <=> j < i
        /\ \A j \in Nums : j < i => /\ Busy(j) /\ call'[j].axis = call[j].axis
                                    /\ call'[j].pc # "reduce"
    BY <1>2 DEF Inserted, InsertLast
  <1>4. i \in Nat /\ N - 1 \in Nums /\ (\A j \in Nums : j \in Nat) /\ PendingAt(i)
    BY <1>1, <1>3, StatAssumption DEF Nums, Pending
  <1>5. /\ \A j \in Nums : call[j].pc # "reduce"
        /\ \A j \in Nums : Busy(j) => j <= i
    BY <1>1, <1>3, Innermost DEF Busy
  <1>6. \A j \in Nums : call'[j].pc # "reduce"
    <2>1. \A j \in Nums : call'[j].pc = "reduce" => Busy(j)'
      BY DEF Busy
    <2> QED
      BY <1>3, <2>1
  <1>7. \A s : Holds(s)' <=> Holds(s)
    <2>1. ASSUME NEW s, Holds(s) PROVE Holds(s)'
      <3>1. CASE \E r \in Held : s \in r.axis
        BY <1>3, <3>1 DEF Holds
      <3>2. CASE \E j \in Nums : Busy(j) /\ s \in call[j].axis
        <4>1. PICK j \in Nums : Busy(j) /\ s \in call[j].axis
          BY <3>2
        <4>2. j = i \/ j < i
          <5>1. i \in Nat /\ j \in Nat /\ j <= i
            BY <1>5, <4>1, Config
          <5> QED
            BY <5>1
        <4> QED
          BY <1>3, <4>1, <4>2 DEF Holds
      <3> QED
        BY <1>5, <2>1, <3>1, <3>2 DEF Holds
    <2>2. ASSUME NEW s, Holds(s)' PROVE Holds(s)
      <3>1. CASE \E r \in Held' : s \in r.axis
        BY <1>3, <3>1 DEF Holds
      <3>2. CASE \E j \in Nums : Busy(j)' /\ s \in call'[j].axis
        BY <1>3, <3>2 DEF Holds
      <3> QED
        BY <1>6, <2>2, <3>1, <3>2 DEF Holds
    <2> QED
      BY <2>1, <2>2
  <1>8. /\ \A s \in appended' : s > layers'[N - 1].start => Holds(s)'
        /\ \A s : Holds(s)' /\ s > FirstTime => s \in appended'
    BY <1>3, <1>4, <1>7 DEF Complete
  <1>9. ASSUME i > 0
        PROVE  \E q \in db : q \notin Held /\ q.layer = i - 1 /\ q.time = n.time
    <2>1. i - 1 \in Nums
      BY <1>4, <1>9, StatAssumption DEF Nums
    <2>2. PICK q \in db : q.layer = i - 1 /\ q.time = layers[i - 1].start
      BY <1>1, <2>1 DEF Started
    <2>3. q \notin Held
      BY <2>2 DEF Held
    <2> QED
      BY <1>3, <1>4, <1>9, <2>2, <2>3 DEF PendingAt
  <1>10. ASSUME NEW r \in Held', NEW q \in db',
                q.layer > r.layer \/ (q.layer = r.layer /\ q.time < r.time)
         PROVE  Younger(r.axis, q)
    <2>1. n.time \in Nat
      BY <1>3, TypeFacts
    <2>2. CASE r = n /\ q = n
      BY <1>3, <1>4, <1>10, <2>1, <2>2
    <2>3. CASE r = n /\ q \in db
      <3>1. q.layer >= i
        BY <1>3, <1>4, <1>10, <2>3, RowFacts
      <3> QED
        BY <1>3, <2>3, <3>1 DEF Complete
    <2>4. CASE r \in Held /\ q \in db
      BY <1>10, <2>4 DEF Complete
    <2>5. CASE r \in Held /\ q = n
      <3>1. r \in db /\ r.layer \in Nat /\ r.time \in Nat
        BY <2>5, RowFacts
      <3>2. r.layer < i
        <4>1. r.layer >= i => r.time < n.time
          BY <1>3, <1>4, <3>1 DEF PendingAt
        <4> QED
          BY <1>3, <1>4, <1>10, <2>1, <2>5, <3>1, <4>1
      <3>3. PICK x \in db : x \notin Held /\ x.layer = i - 1 /\ x.time = n.time
        BY <1>4, <1>9, <3>1, <3>2
      <3>4. x.layer > r.layer \/ (x.layer = r.layer /\ x.time < r.time)
        <4>1. x.layer > r.layer \/ x.layer = r.layer
          BY <1>4, <3>1, <3>2, <3>3
        <4>2. x.layer = r.layer => x.time < r.time
          BY <1>1, <2>5, <3>3 DEF Placed
        <4> QED
          BY <4>1, <4>2
      <3>5. Younger(r.axis, x)
        BY <2>5, <3>3, <3>4 DEF Complete
      <3> QED
        BY <2>5, <3>3, <3>5 DEF Younger
    <2> QED
      BY <1>3, <2>2, <2>3, <2>4, <2>5
  <1>11. ASSUME NEW j \in Nums, NEW q \in db', Busy(j)', q.layer >= j
         PROVE  Younger(call'[j].axis, q)
    <2>1. j < i /\ Busy(j) /\ call'[j].axis = call[j].axis
      BY <1>3, <1>11
    <2>2. CASE q \in db
      BY <1>11, <2>1, <2>2 DEF Complete
    <2>3. CASE q = n
      <3>1. PICK x \in db : x.layer = i - 1 /\ x.time = n.time
        BY <1>4, <1>9, <2>1
      <3>2. x.layer >= j
        <4>1. i \in Nat /\ j \in Nat
          BY Config
        <4> QED
          BY <2>1, <3>1, <4>1
      <3>3. Younger(call[j].axis, x)
        BY <2>1, <3>1, <3>2 DEF Complete
      <3> QED
        BY <2>1, <2>3, <3>1, <3>3 DEF Younger
    <2> QED
      BY <1>3, <2>2, <2>3
  <1> QED
    BY <1>6, <1>8, <1>10, <1>11 DEF Complete

(* Nothing of this run is stored when Restore is done. *)
LEMMA RestoreComplete ==
  ASSUME Types', \A r \in db' : \A s \in r.axis : s \in Nat /\ s <= FirstTime, appended' = {},
         \A i \in Nums : ~Busy(i)'
  PROVE  Complete'
  <1>1. FirstTime \in Nat /\ Held' \subseteq db'
    BY StatAssumption DEF Held
  <1>2. \A i \in Nums : call'[i].pc # "reduce"
    BY DEF Busy
  <1>3. ASSUME NEW s, Holds(s)', s > FirstTime PROVE s \in appended'
    <2>1. PICK r \in Held' : s \in r.axis
      BY <1>2, <1>3 DEF Holds
    <2>2. s <= FirstTime /\ s \in Nat
      BY <1>1, <2>1
    <2> QED
      BY <1>1, <1>3, <2>2
  <1>4. \A r \in Held', q \in db' : Younger(r.axis, q)
    BY <1>1 DEF Younger
  <1> QED
    BY <1>2, <1>3, <1>4 DEF Complete

LEMMA StepNoneLost ==
  ASSUME Compacting, Inv, Inv', Early, NoneLost, [Next]_vars
  PROVE  NoneLost'
  <1> SUFFICES ASSUME crashes' = 0, phase' = "ready" PROVE Complete'
    BY DEF NoneLost
  <1>1. Types /\ TableOK /\ now \in Nat /\ crashes \in Nat
    BY DEF Inv, Types
  <1>2. ASSUME phase = "ready", crashes = 0 PROVE Serving /\ Complete /\ ~torn
    BY <1>2 DEF Inv, NoneLost
  <1>3. CASE StatAppend
    <2>1. phase = "ready" /\ crashes = 0
      BY <1>3 DEF StatAppend, Quiet
    <2> QED
      BY <1>1, <1>2, <1>3, <2>1, AppendComplete
  <1>4. ASSUME NEW i \in Nums, Reduce(i) \/ InsertLast(i) PROVE Complete'
    <2>1. phase = "ready" /\ crashes = 0
      BY <1>4 DEF Reduce, InsertLast
    <2> QED
      BY <1>1, <1>2, <1>4, <2>1, ReduceComplete, InsertComplete
  <1>5. CASE NoTable \/ ClearTable
    BY <1>5 DEF NoTable, ClearTable
  <1>6. CASE InsertStart \/ LoadLayers
    <2>1. /\ crashes = 0 /\ phase # "ready" /\ call' = call /\ appended' = appended
          /\ phase \in {"boot", "mark"}
      BY <1>6 DEF InsertStart, LoadLayers
    <2>2. Unused /\ now = FirstTime /\ appended' = {}
      BY <2>1 DEF Inv, Booting, Marking, Early
    <2>3. \A i \in Nums : ~Busy(i)'
      BY <2>1, <2>2 DEF Unused, NoFrame, Busy
    <2>4. ASSUME NEW r \in db', NEW s \in r.axis PROVE s \in Nat /\ s <= FirstTime
      <3>1. now' = now
        BY <1>6 DEF InsertStart, LoadLayers
      <3>2. TableOK' /\ r.time \in Nat /\ r.axis \subseteq Nat /\ FirstTime \in Nat
        BY StatAssumption DEF Inv, TableOK, Rows
      <3>3. r.time <= now' /\ s <= r.time
        BY <3>2 DEF TableOK
      <3> QED
        BY <2>2, <3>1, <3>2, <3>3
    <2>5. Types'
      BY DEF Inv
    <2> QED
      BY <2>2, <2>3, <2>4, <2>5, RestoreComplete
  <1>7. CASE Restart
    BY <1>1, <1>7 DEF Restart
  <1>8. CASE UNCHANGED vars
    <2>1. Complete
      BY <1>2, <1>8 DEF vars
    <2>2. Held' = Held /\ \A s : Holds(s)' <=> Holds(s)
      BY <1>8 DEF vars, Held, Holds, Busy
    <2> QED
      BY <1>8, <2>1, <2>2 DEF vars, Complete, Busy
  <1> QED
    BY <1>3, <1>4, <1>5, <1>6, <1>7, <1>8 DEF Next

(* What the rings hold is what the rows hold. *)
LEMMA StoredHeld ==
  ASSUME Inv, Quiet, NEW s
  PROVE  s \in Stored <=> \E r \in Held : s \in r.axis
  <1>1. Types /\ Mirrored /\ Placed /\ TableOK
    BY DEF Inv, Quiet, Serving
  <1>2. ASSUME NEW i \in Nums
        PROVE  (\E e \in Entries(layers[i], i) : s \in e.axis)
                 <=> (\E r \in Held : r.layer = i /\ s \in r.axis)
    <2>1. MirroredAt(i)
      BY <1>1 DEF Mirrored
    <2>2. PICK c \in Nat : c = Count(i)
      BY <2>1 DEF MirroredAt
    <2>3. Size(layers[i], i) = c
      BY <2>2, QuietRing
    <2>4. Entries(layers[i], i) = {Entry(layers[i], i, k) : k \in 0 .. c - 1}
      BY <2>3, Zenon DEF Entries, Entry
    <2>5. /\ \A k \in 0 .. c - 1 : /\ RingRow(i, k) \in Held /\ RingRow(i, k).layer = i
                                   /\ RingRow(i, k).axis = RingAxis(layers[i], i, k)
          /\ \A r \in Held : r.layer = i => \E k \in 0 .. c - 1 : r = RingRow(i, k)
      BY <1>1, <2>1, <2>2, RingRows
    <2>6. \A k \in 0 .. c - 1 : Entry(layers[i], i, k).axis = RingRow(i, k).axis
      BY <2>5 DEF Entry
    <2> QED
      BY <2>4, <2>5, <2>6
  <1>3. s \in Stored <=> \E i \in Nums : \E e \in Entries(layers[i], i) : s \in e.axis
    BY DEF Stored
  <1>4. \A r \in Held : r.layer \in Nums
    BY <1>1 DEF Placed, Held
  <1> QED
    BY <1>2, <1>3, <1>4

(* Until the first restart the layers hold exactly the samples appended    *)
(* since the start of the last layer: compaction loses none on its way     *)
(* from layer to layer.                                                    *)
THEOREM CompactionLosesNothing ==
  ASSUME Compacting
  PROVE  Spec => []NothingLostInCompaction
  <1>1. Init => Early /\ NoneLost
    BY InitEarly DEF Init, NoneLost
  <1>2. Inv /\ Inv' /\ Early /\ NoneLost /\ [Next]_vars => Early' /\ NoneLost'
    BY StepEarly, StepNoneLost
  <1>3. Inv /\ Early /\ NoneLost => NothingLostInCompaction
    <2> SUFFICES ASSUME Inv, Early, NoneLost, Quiet, crashes = 0
                 PROVE  {s \in Stored : s > FirstTime} = {s \in appended : s > layers[N - 1].start}
      BY DEF NothingLostInCompaction
    <2>1. /\ Types /\ TableOK /\ Placed /\ Started /\ Complete /\ ~torn
          /\ N - 1 \in Nums /\ \A s \in appended : s > FirstTime
      BY StatAssumption DEF Inv, Quiet, Serving, NoneLost, Early, Nums
    <2>2. \A s : Holds(s) <=> s \in Stored
      <3>1. \A i \in Nums : ~Busy(i) /\ call[i].pc # "reduce"
        BY DEF Quiet, Busy
      <3>2. \A s : Holds(s) <=> \E r \in Held : s \in r.axis
        BY <3>1 DEF Holds
      <3> QED
        BY <3>2, StoredHeld
    <2>3. ASSUME NEW s \in appended, s > layers[N - 1].start PROVE s \in Stored /\ s > FirstTime
      BY <2>1, <2>2, <2>3 DEF Complete
    <2>4. ASSUME NEW s \in Stored, s > FirstTime
          PROVE  s \in appended /\ s > layers[N - 1].start
      <3>1. s \in appended
        BY <2>1, <2>2, <2>4 DEF Complete
      <3>2. PICK r \in Held : s \in r.axis
        BY StoredHeld
      <3>3. PICK q \in db : q.layer = N - 1 /\ q.time = layers[N - 1].start
        BY <2>1 DEF Started
      <3>4. q \in db \ Held /\ r.layer \in Nums
        BY <2>1, <3>2, <3>3 DEF Held, Placed
      <3>5. q.layer > r.layer \/ q.layer = r.layer
        BY <3>3, <3>4, StatAssumption DEF Nums
      <3>6. q.layer = r.layer => q.time < r.time
        BY <2>1, <3>4 DEF Placed
      <3>7. Younger(r.axis, q)
        BY <2>1, <3>4, <3>5, <3>6 DEF Complete
      <3> QED
        BY <2>4, <3>1, <3>2, <3>3, <3>7 DEF Younger
    <2> QED
      BY <2>3, <2>4
  <1> QED
    BY <1>1, <1>2, <1>3, StatInvariant, PTL DEF Spec

-----------------------------------------------------------------------------
(* Reading the layers.  What Range computes is a recursive function over   *)
(* the layers and two searches; a set of numbers has a least element, and  *)
(* that is all the induction these need.                                   *)

LEMMA LeastNat ==
  ASSUME NEW T, T \subseteq Nat, T # {}
  PROVE  \E x \in T : \A y \in T : x <= y
  <1>1. \E x \in T : \A y \in T : ~ (<<y, x>> \in OpToRel(<, Nat))
    BY NatLessThanWellFounded, WFMin, Zenon
  <1>2. PICK x \in T : \A y \in T : ~ (<<y, x>> \in OpToRel(<, Nat))
    BY <1>1
  <1>3. ASSUME NEW y \in T PROVE ~(y < x)
    <2>1. y \in Nat /\ x \in Nat /\ <<y, x>> \notin OpToRel(<, Nat)
      BY <1>2
    <2>2. ASSUME y < x PROVE FALSE
      <3>1. <<y, x>> \in OpToRel(<, Nat)
        BY <2>1, <2>2 DEF OpToRel
      <3> QED
        BY <2>1, <3>1
    <2> QED
      BY <2>2
  <1>4. ASSUME NEW y \in T PROVE x <= y
    <2>1. x \in Nat /\ y \in Nat
      OBVIOUS
    <2>2. ~(y < x)
      BY <1>3
    <2> QED
      BY <2>1, <2>2
  <1> QED
    BY <1>4

(* Down from n to 0. *)
LEMMA Descent ==
  ASSUME NEW n \in Nat, NEW P, n \in P, \A i \in 0 .. n - 1 : i + 1 \in P => i \in P
  PROVE  \A i \in 0 .. n : i \in P
  <1> DEFINE T == {m \in Nat : m <= n /\ n - m \notin P}
  <1>1. ASSUME T # {} PROVE FALSE
    <2>1. T \subseteq Nat
      OBVIOUS
    <2> HIDE DEF T
    <2>2. PICK x \in T : \A y \in T : x <= y
      BY <1>1, <2>1, LeastNat
    <2>3. x \in Nat /\ x <= n /\ n - x \notin P
      BY <2>2 DEF T
    <2>4. x # 0
      BY <2>3
    <2>5. PICK y \in Nat : y = x - 1
      BY <2>3, <2>4
    <2>6. y \notin T /\ y <= n
      BY <2>2, <2>3, <2>5
    <2>7. n - y \in P
      BY <2>6 DEF T
    <2>8. n - x \in 0 .. n - 1 /\ (n - x) + 1 = n - y
      BY <2>3, <2>4, <2>5
    <2> QED
      BY <2>3, <2>7, <2>8
  <1>2. ASSUME NEW i \in 0 .. n PROVE i \in P
    <2>1. n - i \in Nat /\ n - i <= n /\ n - (n - i) = i
      OBVIOUS
    <2>2. n - i \notin T
      BY <1>1
    <2>3. n - (n - i) \in P
      BY <2>1, <2>2
    <2> QED
      BY <2>1, <2>3
  <1> QED
    BY <1>2

(* What the binary search finds. *)
LEMMA SearchFacts ==
  ASSUME NEW n \in Nat, NEW hits
  PROVE  /\ Search(n, hits) \in 0 .. n
         /\ Search(n, hits) = n \/ Search(n, hits) \in hits
         /\ \A j \in 0 .. Search(n, hits) - 1 : j \notin hits
  <1> DEFINE T == {k \in 0 .. n : k = n \/ k \in hits}
             Right(k) == (k = n \/ k \in hits) /\ \A j \in 0 .. k - 1 : j \notin hits
  <1>1. T \subseteq Nat /\ n \in T
    OBVIOUS
  <1>2. PICK k \in T : \A y \in T : k <= y
    <2> HIDE DEF T
    <2> QED
      BY <1>1, LeastNat
  <1>3. k \in 0 .. n /\ Right(k)
    <2>1. k \in 0 .. n /\ k \in Nat /\ (k = n \/ k \in hits)
      OBVIOUS
    <2>2. ASSUME NEW j \in 0 .. k - 1 PROVE j \notin hits
      <3>1. j \in 0 .. n /\ j \in Nat /\ ~(k <= j)
        BY <2>1
      <3> QED
        BY <1>2, <3>1
    <2> QED
      BY <2>1, <2>2
  <1>4. \E x \in 0 .. n : Right(x)
    BY <1>3
  <1>5. Search(n, hits) = CHOOSE x \in 0 .. n : Right(x)
    BY Zenon DEF Search
  <1>6. Search(n, hits) \in 0 .. n /\ Right(Search(n, hits))
    <2> HIDE DEF Right
    <2> QED
      BY <1>4, <1>5, Zenon
  <1> QED
    BY <1>6

(* The recursion over the layers is well defined: the value at every layer *)
(* is that of LayerRange on the value at the next.                         *)
Nothing == [times |-> <<>>, axes |-> <<>>]

Ranges(f, s, e, i) ==
  f = [j \in i .. N |-> IF j = N THEN Nothing ELSE LayerRange(j, s, e, f[j + 1])]

LEMMA RangesExist ==
  ASSUME NEW s, NEW e
  PROVE  \E f : Ranges(f, s, e, 0)
  <1> DEFINE P == {i \in 0 .. N : \E f : Ranges(f, s, e, i)}
  <1>0. N \in Nat
    BY StatAssumption
  <1>1. N \in P
    <2> DEFINE f == [j \in N .. N |-> Nothing]
    <2>1. Ranges(f, s, e, N)
      BY <1>0 DEF Ranges
    <2> HIDE DEF f
    <2> QED
      BY <1>0, <2>1
  <1>2. ASSUME NEW i \in 0 .. N - 1, i + 1 \in P PROVE i \in P
    <2>1. PICK g : Ranges(g, s, e, i + 1)
      BY <1>2
    <2> DEFINE f == [j \in i .. N |-> IF j = i THEN LayerRange(i, s, e, g[i + 1]) ELSE g[j]]
    <2>2. i \in Nat /\ i < N /\ i \in 0 .. N
      BY <1>0
    <2>3. ASSUME NEW j \in i .. N
          PROVE  f[j] = IF j = N THEN Nothing ELSE LayerRange(j, s, e, f[j + 1])
      <3>0. j \in Nat
        BY <2>2
      <3>1. CASE j = i
        <4>1. j # N /\ f[j] = LayerRange(j, s, e, g[j + 1])
          BY <2>2, <3>1
        <4>2. j + 1 \in i .. N /\ j + 1 # i
          BY <1>0, <2>2, <3>1
        <4>3. f[j + 1] = g[j + 1]
          BY <4>2
        <4> QED
          BY <4>1, <4>3
      <3>2. CASE j = N
        <4>1. j \in i + 1 .. N /\ j # i
          BY <1>0, <2>2, <3>2
        <4>2. g[j] = Nothing
          BY <2>1, <3>2, <4>1 DEF Ranges
        <4> QED
          BY <3>2, <4>1, <4>2
      <3>3. CASE j # i /\ j # N
        <4>1. j \in i + 1 .. N /\ j + 1 \in i .. N /\ j + 1 # i
          BY <1>0, <2>2, <3>0, <3>3
        <4>2. g[j] = LayerRange(j, s, e, g[j + 1])
          BY <2>1, <3>3, <4>1 DEF Ranges
        <4>3. f[j] = g[j] /\ f[j + 1] = g[j + 1]
          BY <3>3, <4>1
        <4> QED
          BY <3>3, <4>2, <4>3
      <3> QED
        BY <3>1, <3>2, <3>3
    <2>4. Ranges(f, s, e, i)
      <3>1. f = [j \in i .. N |-> f[j]]
        OBVIOUS
      <3> HIDE DEF f
      <3> QED
        BY <2>3, <3>1 DEF Ranges
    <2> HIDE DEF f
    <2> QED
      BY <2>2, <2>4
  <1> HIDE DEF P
  <1>3. 0 \in P
    <2>1. 0 \in 0 .. N
      BY <1>0
    <2> QED
      BY <1>0, <1>1, <1>2, <2>1, Descent
  <1> QED
    BY <1>3 DEF P

LEMMA RangeRoot ==
  ASSUME NEW s, NEW e
  PROVE  \E f : rangeRoot(s, e) = f[0] /\ Ranges(f, s, e, 0)
  <1>1. PICK g : Ranges(g, s, e, 0)
    BY RangesExist
  <1> DEFINE f == CHOOSE h : Ranges(h, s, e, 0)
  <1>2. Ranges(f, s, e, 0)
    BY <1>1, Zenon
  <1>3. rangeRoot(s, e) = f[0]
    BY Zenon DEF rangeRoot, Ranges, Nothing
  <1> HIDE DEF f
  <1> QED
    BY <1>2, <1>3

(* A ring as a reader finds it: n axes whose times grow from its start to  *)
(* its end.                                                                *)
RingOf(i, n) ==
  /\ n \in Nat /\ Size(layers[i], i) = n
  /\ (n = 0 => layers[i].empty = TRUE) /\ (n # 0 => layers[i].empty = FALSE)
  /\ layers[i].start \in Nat /\ layers[i].end \in Nat
  /\ \A k \in 0 .. n - 1 : /\ RingTime(layers[i], i, k) \in Nat
                           /\ RingAxis(layers[i], i, k) \subseteq Nat
                           /\ layers[i].start < RingTime(layers[i], i, k)
                           /\ RingTime(layers[i], i, k) <= layers[i].end
  /\ \A j, k \in 0 .. n - 1 : j < k => RingTime(layers[i], i, j) < RingTime(layers[i], i, k)
  /\ n # 0 => layers[i].end = RingTime(layers[i], i, n - 1)
  /\ Entries(layers[i], i) = {Entry(layers[i], i, k) : k \in 0 .. n - 1}

LEMMA RingView ==
  ASSUME Inv, Quiet, ~torn, NEW i \in Nums
  PROVE  \E n \in Nat : RingOf(i, n)
  <1>1. Types /\ TableOK /\ MirroredAt(i) /\ Placed /\ phase = "ready"
    BY DEF Inv, Quiet, Serving, Mirrored
  <1>2. PICK q \in db : q.layer = i /\ q.time = layers[i].start
    BY DEF Inv, Quiet, Serving, Started
  <1>3. PICK c \in Nat : c = Count(i)
    BY <1>1 DEF MirroredAt
  <1>4. /\ Size(layers[i], i) = c
        /\ (c = 0 => layers[i].empty = TRUE) /\ (c # 0 => layers[i].empty = FALSE)
    BY <1>3, QuietRing
  <1>5. \A k \in 0 .. c - 1 : /\ RingRow(i, k) \in Held /\ RingRow(i, k).layer = i
                              /\ RingRow(i, k).time = RingTime(layers[i], i, k)
    BY <1>1, <1>3, RingRows
  <1>6. \A j, k \in 0 .. c - 1 : j < k => RingTime(layers[i], i, j) < RingTime(layers[i], i, k)
    BY <1>1, <1>3, <1>5 DEF MirroredAt
  <1>7. \A k \in 0 .. c - 1 : layers[i].start < RingTime(layers[i], i, k)
    <2>1. q \in db \ Held
      BY <1>2 DEF Held
    <2> QED
      BY <1>1, <1>2, <1>5, <2>1 DEF Placed
  <1>8. \A k \in 0 .. c - 1 : /\ RingTime(layers[i], i, k) \in Nat
                              /\ RingAxis(layers[i], i, k) \subseteq Nat
    <2> SUFFICES ASSUME NEW k \in 0 .. c - 1
                 PROVE  RingTime(layers[i], i, k) \in Nat /\ RingAxis(layers[i], i, k) \subseteq Nat
      OBVIOUS
    <2>1. RingRow(i, k) \in Rows
      BY <1>1, <1>5 DEF Held, TableOK
    <2> QED
      BY <2>1 DEF Rows, RingRow, Row
  <1>9. layers[i].start \in Nat /\ layers[i].end \in Nat
    BY <1>1, TypeFacts
  <1>10. layers[i].end = IF c = 0 THEN layers[i].start ELSE RingRow(i, c - 1).time
    BY <1>1, <1>3, Zenon DEF MirroredAt
  <1>11. ASSUME c # 0 PROVE layers[i].end = RingTime(layers[i], i, c - 1)
    <2>1. c - 1 \in 0 .. c - 1
      BY <1>11
    <2> QED
      BY <1>5, <1>10, <1>11, <2>1
  <1>12. ASSUME NEW k \in 0 .. c - 1 PROVE RingTime(layers[i], i, k) <= layers[i].end
    <2>1. c # 0 /\ c - 1 \in 0 .. c - 1 /\ (k = c - 1 \/ k < c - 1)
      OBVIOUS
    <2> QED
      BY <1>6, <1>8, <1>9, <1>11, <2>1
  <1>13. Entries(layers[i], i) = {Entry(layers[i], i, k) : k \in 0 .. c - 1}
    BY <1>4, Zenon DEF Entries, Entry
  <1> QED
    BY <1>4, <1>6, <1>7, <1>8, <1>9, <1>11, <1>12, <1>13 DEF RingOf

(* The axes of the layers below end before those of layer i begin. *)
LEMMA OlderBelow ==
  ASSUME Inv, Quiet, ~torn, NEW i \in Nums, NEW j \in Nums, i < j,
         NEW x \in Entries(layers[j], j)
  PROVE  x.to <= layers[i].start
  <1>1. Types /\ TableOK /\ MirroredAt(j) /\ phase = "ready" /\ i \in Nat /\ j \in Nat
    BY Config DEF Inv, Quiet, Serving, Mirrored
  <1>2. PICK q \in db : q.layer = i /\ q.time = layers[i].start
    BY DEF Inv, Quiet, Serving, Started
  <1>3. PICK c \in Nat : c = Count(j)
    BY <1>1 DEF MirroredAt
  <1>4. Size(layers[j], j) = c
    BY <1>3, QuietRing
  <1>5. \A k \in 0 .. c - 1 : /\ RingRow(j, k) \in Held /\ RingRow(j, k).layer = j
                              /\ RingRow(j, k).time = RingTime(layers[j], j, k)
    BY <1>1, <1>3, RingRows
  <1>6. Entries(layers[j], j) = {Entry(layers[j], j, k) : k \in 0 .. c - 1}
    BY <1>4, Zenon DEF Entries, Entry
  <1>7. PICK k \in 0 .. c - 1 : x = Entry(layers[j], j, k)
    BY <1>6
  <1>8. x.to = RingRow(j, k).time
    BY <1>5, <1>7 DEF Entry
  <1>9. RingRow(j, k) \in db /\ RingRow(j, k).layer > q.layer
    BY <1>1, <1>2, <1>5 DEF Held
  <1> QED
    BY <1>1, <1>2, <1>8, <1>9 DEF TableOK

(* The axes that overlap the interval: of one layer, and of all from i on. *)
Overlaps(x, s, e) == x.to > s /\ x.from < e
LayerHits(i, s, e) == {x \in Entries(layers[i], i) : Overlaps(x, s, e)}
Hits(i, s, e) == {x \in UNION {Entries(layers[j], j) : j \in i .. N - 1} : Overlaps(x, s, e)}

LEMMA HitsFacts ==
  ASSUME NEW s, NEW e
  PROVE  /\ Hits(N, s, e) = {}
         /\ \A i \in Nums : Hits(i, s, e) = Hits(i + 1, s, e) \cup LayerHits(i, s, e)
  <1>0. N \in Nat
    BY StatAssumption
  <1>1. N .. N - 1 = {}
    BY <1>0
  <1>2. Hits(N, s, e) = {}
    BY <1>1 DEF Hits
  <1>3. ASSUME NEW i \in Nums PROVE Hits(i, s, e) = Hits(i + 1, s, e) \cup LayerHits(i, s, e)
    <2>1. i .. N - 1 = (i + 1 .. N - 1) \cup {i}
      BY <1>0 DEF Nums
    <2> QED
      BY <2>1 DEF Hits, LayerHits
  <1> QED
    BY <1>2, <1>3

(* What layer i adds to the range of the next one: the axes from a to b.   *)
Slice(i, a, b, rest) ==
  [times |-> (IF rest.times = <<>> THEN <<Entry(layers[i], i, a).from>> ELSE rest.times)
               \o [k \in 1 .. b - a |-> RingTime(layers[i], i, a + k - 1)],
   axes  |-> rest.axes \o [k \in 1 .. b - a |-> RingAxis(layers[i], i, a + k - 1)]]

(* The two searches of a layer find the axes of it that overlap. *)
LEMMA LayerRangeFinds ==
  ASSUME NEW i \in Nums, NEW n \in Nat, RingOf(i, n), NEW s \in Nat, NEW e \in Nat, s < e, NEW rest
  PROVE  \/ LayerRange(i, s, e, rest) = rest /\ LayerHits(i, s, e) = {}
         \/ \E a \in 0 .. n - 1, b \in 1 .. n :
              /\ a < b
              /\ LayerRange(i, s, e, rest) = Slice(i, a, b, rest)
              /\ LayerHits(i, s, e) = {Entry(layers[i], i, k) : k \in a .. b - 1}
  <1> DEFINE l == layers[i]
             t(k) == RingTime(l, i, k)
             start == Search(n, {k \in 0 .. n - 1 : t(k) > s})
             bound == Search(n, {k \in 0 .. n - 1 : t(k) >= e})
             end == IF bound # n THEN bound + 1 ELSE bound
             from(k) == IF k = 0 THEN l.start ELSE t(k - 1)
  <1>1. /\ Size(l, i) = n /\ (n = 0 => l.empty = TRUE) /\ (n # 0 => l.empty = FALSE)
        /\ l.start \in Nat /\ l.end \in Nat
        /\ \A k \in 0 .. n - 1 : t(k) \in Nat /\ l.start < t(k) /\ t(k) <= l.end
        /\ \A j, k \in 0 .. n - 1 : j < k => t(j) < t(k)
        /\ n # 0 => l.end = t(n - 1)
        /\ Entries(l, i) = {Entry(l, i, k) : k \in 0 .. n - 1}
    BY DEF RingOf
  <1>2. \A k \in 0 .. n - 1 : Entry(l, i, k).to = t(k) /\ Entry(l, i, k).from = from(k)
    BY DEF Entry
  <1>3. LayerHits(i, s, e) = {Entry(l, i, k) : k \in {j \in 0 .. n - 1 : t(j) > s /\ from(j) < e}}
    BY <1>1, <1>2 DEF LayerHits, Overlaps
  <1>4. LayerRange(i, s, e, rest) =
          IF l.empty \/ ~(s < l.end /\ e > l.start) THEN rest
          ELSE [times |-> (IF rest.times = <<>> THEN <<from(start)>> ELSE rest.times)
                            \o [k \in 1 .. end - start |-> t(start + k - 1)],
                axes  |-> rest.axes \o [k \in 1 .. end - start |-> RingAxis(l, i, start + k - 1)]]
    BY <1>1, Zenon DEF LayerRange
  <1>5. /\ start \in 0 .. n /\ (start = n \/ t(start) > s)
        /\ \A j \in 0 .. start - 1 : ~(t(j) > s)
    <2> DEFINE H == {k \in 0 .. n - 1 : t(k) > s}
    <2>1. /\ Search(n, H) \in 0 .. n /\ (Search(n, H) = n \/ Search(n, H) \in H)
          /\ \A j \in 0 .. Search(n, H) - 1 : j \notin H
      <3> HIDE DEF H
      <3> QED
        BY SearchFacts
    <2>2. start = Search(n, H)
      OBVIOUS
    <2>3. \A k : k \in H <=> k \in 0 .. n - 1 /\ t(k) > s
      OBVIOUS
    <2> HIDE DEF start, t, H
    <2>4. \A j \in 0 .. start - 1 : j \in 0 .. n - 1
      BY <2>1, <2>2
    <2> QED
      BY <2>1, <2>2, <2>3, <2>4
  <1>6. /\ bound \in 0 .. n /\ (bound = n \/ t(bound) >= e)
        /\ \A j \in 0 .. bound - 1 : ~(t(j) >= e)
    <2> DEFINE H == {k \in 0 .. n - 1 : t(k) >= e}
    <2>1. /\ Search(n, H) \in 0 .. n /\ (Search(n, H) = n \/ Search(n, H) \in H)
          /\ \A j \in 0 .. Search(n, H) - 1 : j \notin H
      <3> HIDE DEF H
      <3> QED
        BY SearchFacts
    <2>2. bound = Search(n, H)
      OBVIOUS
    <2>3. \A k : k \in H <=> k \in 0 .. n - 1 /\ t(k) >= e
      OBVIOUS
    <2> HIDE DEF bound, t, H
    <2>4. \A j \in 0 .. bound - 1 : j \in 0 .. n - 1
      BY <2>1, <2>2
    <2> QED
      BY <2>1, <2>2, <2>3, <2>4
  <1> HIDE DEF start, bound, t, l
  <1>7. CASE n = 0 \/ ~(s < l.end /\ e > l.start)
    <2>1. l.empty = TRUE \/ ~(s < l.end /\ e > l.start)
      BY <1>1, <1>7
    <2>2. LayerRange(i, s, e, rest) = rest
      BY <1>4, <2>1, Zenon
    <2>3. ASSUME NEW j \in 0 .. n - 1, t(j) > s, from(j) < e PROVE FALSE
      <3>1. n # 0
        OBVIOUS
      <3>2. s < l.end
        BY <1>1, <2>3
      <3>3. l.start < e
        <4>1. CASE j = 0
          BY <2>3, <4>1
        <4>2. CASE j # 0
          <5>1. j - 1 \in 0 .. n - 1
            BY <4>2
          <5>2. l.start < t(j - 1) /\ t(j - 1) < e /\ t(j - 1) \in Nat
            BY <1>1, <2>3, <4>2, <5>1
          <5> QED
            BY <1>1, <5>2
        <4> QED
          BY <4>1, <4>2
      <3> QED
        BY <1>1, <1>7, <3>1, <3>2, <3>3
    <2>4. LayerHits(i, s, e) = {}
      BY <1>3, <2>3
    <2> QED
      BY <2>2, <2>4
  <1>8. CASE ~(n = 0 \/ ~(s < l.end /\ e > l.start))
    <2>1. n # 0 /\ l.empty = FALSE /\ s < l.end /\ l.start < e /\ n - 1 \in 0 .. n - 1
      BY <1>1, <1>8
    <2>2. start \in 0 .. n - 1 /\ t(start) > s /\ t(start) \in Nat
      <3>1. t(n - 1) > s
        BY <1>1, <2>1
      <3>2. start # n
        BY <1>5, <2>1, <3>1
      <3> QED
        BY <1>1, <1>5, <3>2
    <2>3. start <= bound
      <3>1. ASSUME bound < start PROVE FALSE
        <4>1. bound \in 0 .. start - 1 /\ bound \in 0 .. n - 1
          BY <1>6, <2>2, <3>1
        <4>2. ~(t(bound) > s) /\ t(bound) >= e /\ t(bound) \in Nat
          BY <1>1, <1>5, <1>6, <4>1
        <4> QED
          BY <4>2
      <3> QED
        BY <1>6, <2>2, <3>1
    <2>4. end \in 1 .. n /\ start < end /\ \A k \in 0 .. n - 1 : k < end <=> k <= bound
      BY <1>6, <2>2, <2>3
    <2> HIDE DEF end
    <2>5. ASSUME NEW j \in 0 .. n - 1
          PROVE  (t(j) > s /\ from(j) < e) <=> j \in start .. end - 1
      <3>0. j \in Nat /\ t(j) \in Nat /\ start \in Nat /\ end \in Nat
        BY <1>1, <2>2, <2>4
      <3>1. t(j) > s <=> start <= j
        <4>1. CASE start <= j
          <5>1. start = j \/ start < j
            BY <3>0, <4>1
          <5>2. start < j => t(start) < t(j)
            BY <1>1, <2>2
          <5> QED
            BY <2>2, <3>0, <4>1, <5>1, <5>2
        <4>2. CASE ~(start <= j)
          <5>1. j \in 0 .. start - 1
            BY <3>0, <4>2
          <5> QED
            BY <1>5, <4>2, <5>1
        <4> QED
          BY <4>1, <4>2
      <3>2. from(j) < e <=> j <= bound
        <4>1. CASE j = 0
          BY <1>6, <2>1, <4>1
        <4>2. CASE j # 0 /\ j <= bound
          <5>1. j - 1 \in 0 .. bound - 1 /\ j - 1 \in 0 .. n - 1
            BY <1>6, <3>0, <4>2
          <5>2. ~(t(j - 1) >= e) /\ t(j - 1) \in Nat
            BY <1>1, <1>6, <5>1
          <5> QED
            BY <4>2, <5>2
        <4>3. CASE j # 0 /\ ~(j <= bound)
          <5>1. /\ j - 1 \in 0 .. n - 1 /\ bound \in 0 .. n - 1
                /\ bound # n /\ (bound = j - 1 \/ bound < j - 1)
            BY <1>6, <3>0, <4>3
          <5>2. t(bound) >= e /\ t(bound) \in Nat /\ t(j - 1) \in Nat
            BY <1>1, <1>6, <5>1
          <5>3. bound < j - 1 => t(bound) < t(j - 1)
            BY <1>1, <5>1
          <5>4. ~(t(j - 1) < e)
            BY <5>1, <5>2, <5>3
          <5> QED
            BY <4>3, <5>4
        <4> QED
          BY <4>1, <4>2, <4>3
      <3> QED
        BY <2>4, <3>0, <3>1, <3>2
    <2>6. LayerHits(i, s, e) = {Entry(l, i, k) : k \in start .. end - 1}
      <3>1. {j \in 0 .. n - 1 : t(j) > s /\ from(j) < e} = start .. end - 1
        <4>1. start .. end - 1 \subseteq 0 .. n - 1
          BY <2>2, <2>4
        <4> HIDE DEF from
        <4> QED
          BY <2>5, <4>1
      <3> QED
        BY <1>3, <3>1
    <2>7. LayerRange(i, s, e, rest) = Slice(i, start, end, rest)
      <3>1. Entry(l, i, start).from = from(start)
        BY <1>2, <2>2
      <3>2. ~(l.empty \/ ~(s < l.end /\ e > l.start))
        BY <1>8, <2>1, Zenon
      <3>3. LayerRange(i, s, e, rest) =
              [times |-> (IF rest.times = <<>> THEN <<from(start)>> ELSE rest.times)
                            \o [k \in 1 .. end - start |-> t(start + k - 1)],
               axes  |-> rest.axes \o [k \in 1 .. end - start |-> RingAxis(l, i, start + k - 1)]]
        BY <1>4, <3>2, Zenon DEF end
      <3> QED
        BY <3>1, <3>3, Zenon DEF Slice, t, l
    <2> QED
      BY <2>2, <2>4, <2>6, <2>7 DEF l
  <1> QED
    BY <1>7, <1>8

(* f lists in order of time the m axes that overlap, and r is what Range   *)
(* makes of them.                                                          *)
Lists(i, s, e, m, f) ==
  /\ f \in [1 .. m -> Hits(i, s, e)]
  /\ \A x \in Hits(i, s, e) : \E k \in 1 .. m : f[k] = x
  /\ \A k \in 1 .. m : /\ f[k].from \in Nat /\ f[k].to \in Nat /\ f[k].from < f[k].to
                       /\ f[k].axis \subseteq Nat
  /\ \A j, k \in 1 .. m : j < k => f[j].to < f[k].to

Returns(r, m, f) ==
  /\ r.axes \in Seq(SUBSET Nat) /\ Len(r.axes) = m
  /\ \A k \in 1 .. m : r.axes[k] = f[k].axis
  /\ r.times \in Seq(Nat) /\ (m = 0 => r.times = <<>>)
  /\ m # 0 => Len(r.times) = m + 1 /\ r.times[1] = f[1].from
  /\ \A k \in 1 .. m : r.times[k + 1] = f[k].to

Answers(i, s, e, r) == \E m \in Nat : \E f : Lists(i, s, e, m, f) /\ Returns(r, m, f)

(* o is p followed by the c elements of q. *)
Joins(T, o, p, c, q) ==
  /\ o \in Seq(T) /\ Len(o) = Len(p) + c
  /\ \A k \in 1 .. Len(p) : o[k] = p[k]
  /\ \A k \in 1 .. c : o[Len(p) + k] = q[k]

LEMMA ConcatFacts ==
  ASSUME NEW T, NEW p \in Seq(T), NEW c \in Nat, NEW q \in [1 .. c -> T]
  PROVE  Joins(T, p \o q, p, c, q)
  <1>1. q \in Seq(T) /\ Len(q) = c
    OBVIOUS
  <1> QED
    BY <1>1 DEF Joins

(* f followed by c axes of layer i from a on. *)
Longer(i, a, c, m, f) ==
  [k \in 1 .. m + c |-> IF k <= m THEN f[k] ELSE Entry(layers[i], i, a + (k - m) - 1)]

IsLonger(g, i, a, c, m, f) ==
  /\ g = [k \in 1 .. m + c |-> g[k]]
  /\ \A k \in 1 .. m : g[k] = f[k] /\ k \in 1 .. m + c
  /\ \A k \in 1 .. c : g[m + k] = Entry(layers[i], i, a + k - 1) /\ m + k \in 1 .. m + c
  /\ \A k \in 1 .. m + c : k \in 1 .. m \/ \E j \in 1 .. c : k = m + j

LEMMA LongerFacts ==
  ASSUME NEW i, NEW a \in Nat, NEW c \in Nat, NEW m \in Nat, NEW f, NEW g, g = Longer(i, a, c, m, f)
  PROVE  IsLonger(g, i, a, c, m, f)
  <1>1. g = [k \in 1 .. m + c |-> g[k]]
    BY DEF Longer
  <1>2. \A k \in 1 .. m : g[k] = f[k] /\ k \in 1 .. m + c
    BY DEF Longer
  <1>3. ASSUME NEW k \in 1 .. c
        PROVE  g[m + k] = Entry(layers[i], i, a + k - 1) /\ m + k \in 1 .. m + c
    <2>1. m + k \in 1 .. m + c /\ ~(m + k <= m) /\ (m + k) - m = k
      OBVIOUS
    <2> QED
      BY <2>1 DEF Longer
  <1>4. ASSUME NEW k \in 1 .. m + c PROVE k \in 1 .. m \/ \E j \in 1 .. c : k = m + j
    <2>1. CASE k <= m
      BY <2>1
    <2>2. CASE ~(k <= m)
      <3>1. k - m \in 1 .. c /\ k = m + (k - m)
        BY <2>2
      <3> QED
        BY <3>1
    <2> QED
      BY <2>1, <2>2
  <1> QED
    BY <1>1, <1>2, <1>3, <1>4 DEF IsLonger

(* The list grows by the axes a .. b - 1 of layer i. *)
LEMMA LongerList ==
  ASSUME NEW i \in Nums, NEW n \in Nat, RingOf(i, n), NEW s, NEW e,
         NEW a \in 0 .. n - 1, NEW b \in 1 .. n, a < b,
         LayerHits(i, s, e) = {Entry(layers[i], i, k) : k \in a .. b - 1},
         NEW m \in Nat, NEW f, Lists(i + 1, s, e, m, f),
         \A k \in 1 .. m : f[k].to <= layers[i].start,
         NEW c \in Nat, c = b - a, NEW g, g = Longer(i, a, c, m, f)
  PROVE  Lists(i, s, e, m + c, g)
  <1> DEFINE l == layers[i]
             E(k) == Entry(l, i, a + k - 1)
  <1>1. c \in Nat /\ a \in Nat /\ b \in Nat /\ c # 0
    OBVIOUS
  <1>2. ASSUME NEW k \in 1 .. c
        PROVE  /\ a + k - 1 \in a .. b - 1 /\ a + k - 1 \in 0 .. n - 1
               /\ E(k).to = RingTime(l, i, a + k - 1) /\ E(k).to \in Nat /\ E(k).axis \subseteq Nat
               /\ E(k).from \in Nat /\ E(k).from < E(k).to /\ l.start < E(k).to
    <2>1. PICK x \in 0 .. n - 1 : x = a + k - 1 /\ x \in a .. b - 1
      BY <1>1
    <2>2. /\ E(k).to = RingTime(l, i, x) /\ E(k).axis = RingAxis(l, i, x)
          /\ E(k).from = IF x = 0 THEN l.start ELSE RingTime(l, i, x - 1)
      BY <2>1 DEF Entry
    <2>3. x # 0 => x - 1 \in 0 .. n - 1 /\ x - 1 < x
      OBVIOUS
    <2>4. /\ RingTime(l, i, x) \in Nat /\ RingAxis(l, i, x) \subseteq Nat
          /\ l.start < RingTime(l, i, x) /\ l.start \in Nat
          /\ x # 0 => RingTime(l, i, x - 1) \in Nat /\ RingTime(l, i, x - 1) < RingTime(l, i, x)
      BY <2>3 DEF RingOf
    <2> QED
      BY <2>1, <2>2, <2>4
  <1>3. \A j, k \in 1 .. c : j < k => E(j).to < E(k).to
    <2> SUFFICES ASSUME NEW j \in 1 .. c, NEW k \in 1 .. c, j < k PROVE E(j).to < E(k).to
      OBVIOUS
    <2>1. a + j - 1 < a + k - 1
      BY <1>1
    <2> HIDE DEF E
    <2> QED
      BY <1>2, <2>1 DEF RingOf
  <1>4. \A x \in LayerHits(i, s, e) : \E k \in 1 .. c : x = E(k)
    <2> SUFFICES ASSUME NEW x \in LayerHits(i, s, e) PROVE \E k \in 1 .. c : x = E(k)
      OBVIOUS
    <2>1. PICK y \in a .. b - 1 : x = Entry(l, i, y)
      OBVIOUS
    <2>2. y - a + 1 \in 1 .. c /\ a + (y - a + 1) - 1 = y
      BY <1>1
    <2> QED
      BY <2>1, <2>2
  <1>5. \A k \in 1 .. c : E(k) \in LayerHits(i, s, e)
    BY <1>2
  <1> HIDE DEF E
  <1>6. /\ g = [k \in 1 .. m + c |-> g[k]]
        /\ \A k \in 1 .. m : g[k] = f[k] /\ k \in 1 .. m + c
        /\ \A k \in 1 .. c : g[m + k] = Entry(layers[i], i, a + k - 1) /\ m + k \in 1 .. m + c
        /\ \A k \in 1 .. m + c : k \in 1 .. m \/ \E j \in 1 .. c : k = m + j
    <2>1. IsLonger(g, i, a, c, m, f)
      BY <1>1, LongerFacts, Zenon
    <2> QED
      BY <2>1 DEF IsLonger
  <1>7. \A k \in 1 .. c : g[m + k] = E(k) /\ m + k \in 1 .. m + c
    BY <1>6 DEF E
  <1>9. Hits(i, s, e) = Hits(i + 1, s, e) \cup LayerHits(i, s, e)
    BY HitsFacts
  <1>10. /\ f \in [1 .. m -> Hits(i + 1, s, e)]
         /\ \A x \in Hits(i + 1, s, e) : \E k \in 1 .. m : f[k] = x
         /\ \A k \in 1 .. m : /\ f[k].from \in Nat /\ f[k].to \in Nat /\ f[k].from < f[k].to
                              /\ f[k].axis \subseteq Nat
         /\ \A j, k \in 1 .. m : j < k => f[j].to < f[k].to
    BY DEF Lists
  <1>11. g \in [1 .. m + c -> Hits(i, s, e)]
    <2>1. \A k \in 1 .. m + c : g[k] \in Hits(i, s, e)
      BY <1>5, <1>6, <1>7, <1>9, <1>10
    <2> QED
      BY <1>6, <2>1
  <1>12. \A x \in Hits(i, s, e) : \E k \in 1 .. m + c : g[k] = x
    <2> SUFFICES ASSUME NEW x \in Hits(i, s, e) PROVE \E k \in 1 .. m + c : g[k] = x
      OBVIOUS
    <2>1. CASE x \in Hits(i + 1, s, e)
      BY <1>6, <1>10, <2>1
    <2>2. CASE x \in LayerHits(i, s, e)
      BY <1>4, <1>7, <2>2
    <2> QED
      BY <1>9, <2>1, <2>2
  <1>13. \A k \in 1 .. m + c : /\ g[k].from \in Nat /\ g[k].to \in Nat /\ g[k].from < g[k].to
                               /\ g[k].axis \subseteq Nat
    <2> SUFFICES ASSUME NEW k \in 1 .. m + c
                 PROVE  /\ g[k].from \in Nat /\ g[k].to \in Nat /\ g[k].from < g[k].to
                        /\ g[k].axis \subseteq Nat
      OBVIOUS
    <2>1. CASE k \in 1 .. m
      BY <1>6, <1>10, <2>1
    <2>2. ASSUME NEW j \in 1 .. c, k = m + j
          PROVE  /\ g[k].from \in Nat /\ g[k].to \in Nat /\ g[k].from < g[k].to
                 /\ g[k].axis \subseteq Nat
      BY <1>2, <1>7, <2>2
    <2> QED
      BY <1>6, <2>1, <2>2
  <1>14. ASSUME NEW j \in 1 .. m + c, NEW k \in 1 .. m + c, j < k PROVE g[j].to < g[k].to
    <2>1. CASE k \in 1 .. m
      <3>1. j \in 1 .. m
        BY <1>1, <1>14, <2>1
      <3> QED
        BY <1>6, <1>10, <1>14, <2>1, <3>1
    <2>2. ASSUME NEW y \in 1 .. c, k = m + y PROVE g[j].to < g[k].to
      <3>1. CASE j \in 1 .. m
        <4>1. g[j].to <= l.start /\ g[j].to \in Nat /\ l.start < g[k].to /\ l.start \in Nat /\ g[k].to \in Nat
          BY <1>2, <1>6, <1>7, <1>10, <2>2, <3>1 DEF RingOf
        <4>2. \A u, v, w \in Nat : u <= v /\ v < w => u < w
          OBVIOUS
        <4> QED
          BY <4>1, <4>2, Zenon
      <3>2. ASSUME NEW x \in 1 .. c, j = m + x PROVE g[j].to < g[k].to
        <4>1. x < y
          BY <1>1, <1>14, <2>2, <3>2
        <4> QED
          BY <1>3, <1>7, <2>2, <3>2, <4>1
      <3> QED
        BY <1>6, <3>1, <3>2
    <2> QED
      BY <1>6, <2>1, <2>2
  <1> QED
    BY <1>11, <1>12, <1>13, <1>14 DEF Lists

(* And so does the answer. *)
LEMMA LongerAnswer ==
  ASSUME NEW i \in Nums, NEW n \in Nat, RingOf(i, n),
         NEW a \in 0 .. n - 1, NEW b \in 1 .. n, a < b,
         NEW m \in Nat, NEW f, NEW r, Returns(r, m, f),
         NEW c \in Nat, c = b - a, NEW g, g = Longer(i, a, c, m, f)
  PROVE  Returns(Slice(i, a, b, r), m + c, g)
  <1> DEFINE l == layers[i]
             first == Entry(l, i, a).from
             ts == [k \in 1 .. b - a |-> RingTime(l, i, a + k - 1)]
             as == [k \in 1 .. b - a |-> RingAxis(l, i, a + k - 1)]
             before == IF r.times = <<>> THEN <<first>> ELSE r.times
             out == Slice(i, a, b, r)
  <1>1. c # 0 /\ a \in Nat
    OBVIOUS
  <1>2. /\ r.axes \in Seq(SUBSET Nat) /\ Len(r.axes) = m
        /\ \A k \in 1 .. m : r.axes[k] = f[k].axis
        /\ r.times \in Seq(Nat) /\ (m = 0 => r.times = <<>>)
        /\ m # 0 => Len(r.times) = m + 1 /\ r.times[1] = f[1].from
        /\ \A k \in 1 .. m : r.times[k + 1] = f[k].to
    BY DEF Returns
  <1>3. out.times = before \o ts /\ out.axes = r.axes \o as
    BY DEF Slice
  <1>4. \A k \in 1 .. c : a + k - 1 \in 0 .. n - 1
    BY <1>1
  <1>5. \A k \in 1 .. c : /\ RingTime(l, i, a + k - 1) \in Nat
                          /\ RingAxis(l, i, a + k - 1) \in SUBSET Nat
    BY <1>4 DEF RingOf
  <1>6. ts \in [1 .. c -> Nat] /\ as \in [1 .. c -> SUBSET Nat]
    BY <1>1, <1>5
  <1>7. \A k \in 1 .. c : /\ ts[k] = Entry(l, i, a + k - 1).to
                          /\ as[k] = Entry(l, i, a + k - 1).axis
    BY <1>1 DEF Entry
  <1>8. first \in Nat
    <2>1. first = IF a = 0 THEN l.start ELSE RingTime(l, i, a - 1)
      BY DEF Entry
    <2>2. a # 0 => a - 1 \in 0 .. n - 1
      OBVIOUS
    <2> HIDE DEF first
    <2> QED
      BY <2>1, <2>2 DEF RingOf
  <1> HIDE DEF first
  <1>9. /\ before \in Seq(Nat) /\ Len(before) = m + 1
        /\ m = 0 => before[1] = first
        /\ m # 0 => before[1] = f[1].from
        /\ \A k \in 1 .. m : before[k + 1] = f[k].to
    <2>1. CASE m = 0
      <3>1. before = <<first>>
        BY <1>2, <2>1
      <3> HIDE DEF before
      <3> QED
        BY <1>8, <2>1, <3>1
    <2>2. CASE m # 0
      <3>1. r.times # <<>>
        BY <1>2, <2>2
      <3>2. before = r.times
        BY <3>1
      <3> HIDE DEF before
      <3> QED
        BY <1>2, <2>2, <3>2
    <2> QED
      BY <2>1, <2>2
  <1> HIDE DEF ts, as, before, out
  <1>10. /\ out.times \in Seq(Nat) /\ Len(out.times) = m + 1 + c
         /\ \A k \in 1 .. m + 1 : out.times[k] = before[k]
         /\ \A k \in 1 .. c : out.times[m + 1 + k] = ts[k]
    <2>1. PICK p \in Seq(Nat) : p = before
      BY <1>9
    <2>2. PICK q \in [1 .. c -> Nat] : q = ts
      BY <1>6
    <2>3. Joins(Nat, p \o q, p, c, q)
      BY ConcatFacts, Zenon
    <2> QED
      BY <1>3, <1>9, <2>1, <2>2, <2>3 DEF Joins
  <1>11. /\ out.axes \in Seq(SUBSET Nat) /\ Len(out.axes) = m + c
         /\ \A k \in 1 .. m : out.axes[k] = r.axes[k]
         /\ \A k \in 1 .. c : out.axes[m + k] = as[k]
    <2>1. PICK p \in Seq(SUBSET Nat) : p = r.axes
      BY <1>2
    <2>2. PICK q \in [1 .. c -> SUBSET Nat] : q = as
      BY <1>6
    <2>3. Joins(SUBSET Nat, p \o q, p, c, q)
      BY ConcatFacts, Zenon
    <2> QED
      BY <1>2, <1>3, <2>1, <2>2, <2>3 DEF Joins
  <1>13. /\ \A k \in 1 .. m : g[k] = f[k]
         /\ \A k \in 1 .. c : g[m + k] = Entry(l, i, a + k - 1)
         /\ \A k \in 1 .. m + c : k \in 1 .. m \/ \E j \in 1 .. c : k = m + j
    <2>1. IsLonger(g, i, a, c, m, f)
      BY <1>1, LongerFacts, Zenon
    <2> QED
      BY <2>1 DEF IsLonger
  <1>16. ASSUME NEW k \in 1 .. m + c
         PROVE  out.axes[k] = g[k].axis /\ out.times[k + 1] = g[k].to
    <2>1. CASE k \in 1 .. m
      <3>1. k + 1 \in 1 .. m + 1
        BY <2>1
      <3> QED
        BY <1>2, <1>9, <1>10, <1>11, <1>13, <2>1, <3>1, Zenon
    <2>2. ASSUME NEW j \in 1 .. c, k = m + j
          PROVE  out.axes[k] = g[k].axis /\ out.times[k + 1] = g[k].to
      <3>1. k + 1 = m + 1 + j
        BY <2>2
      <3>2. out.times[m + 1 + j] = ts[j]
        BY <1>10
      <3>3. out.axes[m + j] = as[j]
        BY <1>11
      <3>4. g[m + j] = Entry(l, i, a + j - 1)
        BY <1>13
      <3>5. ts[j] = Entry(l, i, a + j - 1).to /\ as[j] = Entry(l, i, a + j - 1).axis
        BY <1>7
      <3> QED
        BY <2>2, <3>1, <3>2, <3>3, <3>4, <3>5, Zenon
    <2> QED
      BY <1>13, <2>1, <2>2
  <1>17. out.times[1] = g[1].from
    <2>1. out.times[1] = before[1]
      BY <1>10
    <2>2. CASE m = 0
      <3>1. 1 \in 1 .. c /\ m + 1 = 1 /\ a + 1 - 1 = a
        BY <1>1, <2>2
      <3>2. g[1] = Entry(l, i, a)
        BY <1>13, <3>1
      <3> QED
        BY <1>9, <2>1, <2>2, <3>2 DEF first
    <2>3. CASE m # 0
      <3>1. 1 \in 1 .. m
        BY <2>3
      <3> QED
        BY <1>9, <1>13, <2>1, <2>3, <3>1
    <2> QED
      BY <2>2, <2>3
  <1>18. m + c \in Nat /\ m + c # 0 /\ Len(out.times) = (m + c) + 1
    BY <1>1, <1>10
  <1> QED
    BY <1>1, <1>10, <1>11, <1>16, <1>17, <1>18 DEF Returns, out

(* Layer by layer, from the last to the first. *)
LEMMA LayerAnswers ==
  ASSUME Inv, Quiet, ~torn, NEW i \in Nums, NEW s \in Nat, NEW e \in Nat, s < e,
         NEW rest, Answers(i + 1, s, e, rest)
  PROVE  Answers(i, s, e, LayerRange(i, s, e, rest))
  <1>1. PICK n \in Nat : RingOf(i, n)
    BY RingView
  <1>2. PICK m \in Nat : \E h : Lists(i + 1, s, e, m, h) /\ Returns(rest, m, h)
    BY DEF Answers
  <1>3. PICK f : Lists(i + 1, s, e, m, f) /\ Returns(rest, m, f)
    BY <1>2
  <1>4. \A k \in 1 .. m : f[k].to <= layers[i].start
    <2> SUFFICES ASSUME NEW k \in 1 .. m PROVE f[k].to <= layers[i].start
      OBVIOUS
    <2>1. f[k] \in Hits(i + 1, s, e)
      BY <1>3 DEF Lists
    <2>2. PICK j \in i + 1 .. N - 1 : f[k] \in Entries(layers[j], j)
      BY <2>1 DEF Hits
    <2>3. j \in Nums /\ i < j
      BY StatAssumption DEF Nums
    <2> QED
      BY <2>2, <2>3, OlderBelow
  <1>5. CASE LayerRange(i, s, e, rest) = rest /\ LayerHits(i, s, e) = {}
    <2>1. Hits(i, s, e) = Hits(i + 1, s, e)
      <3>1. Hits(i, s, e) = Hits(i + 1, s, e) \cup LayerHits(i, s, e)
        BY HitsFacts, Zenon
      <3> QED
        BY <1>5, <3>1
    <2>2. Lists(i, s, e, m, f)
      BY <1>3, <2>1 DEF Lists
    <2> QED
      BY <1>3, <1>5, <2>2 DEF Answers
  <1>6. ASSUME NEW a \in 0 .. n - 1, NEW b \in 1 .. n, a < b,
               LayerRange(i, s, e, rest) = Slice(i, a, b, rest),
               LayerHits(i, s, e) = {Entry(layers[i], i, k) : k \in a .. b - 1}
        PROVE  Answers(i, s, e, LayerRange(i, s, e, rest))
    <2>1. PICK c \in Nat : c = b - a
      BY <1>6
    <2>2. PICK g : g = Longer(i, a, c, m, f)
      OBVIOUS
    <2>3. Lists(i, s, e, m + c, g)
      BY <1>1, <1>3, <1>4, <1>6, <2>1, <2>2, LongerList
    <2>4. Returns(Slice(i, a, b, rest), m + c, g)
      BY <1>1, <1>3, <1>6, <2>1, <2>2, LongerAnswer
    <2>5. m + c \in Nat
      OBVIOUS
    <2> QED
      BY <1>6, <2>3, <2>4, <2>5 DEF Answers
  <1>7. \/ LayerRange(i, s, e, rest) = rest /\ LayerHits(i, s, e) = {}
        \/ \E a \in 0 .. n - 1, b \in 1 .. n :
             /\ a < b
             /\ LayerRange(i, s, e, rest) = Slice(i, a, b, rest)
             /\ LayerHits(i, s, e) = {Entry(layers[i], i, k) : k \in a .. b - 1}
    BY <1>1, LayerRangeFinds
  <1> QED
    BY <1>5, <1>6, <1>7

LEMMA RootAnswers ==
  ASSUME Inv, Quiet, ~torn, NEW s \in Nat, NEW e \in Nat, s < e
  PROVE  Answers(0, s, e, rangeRoot(s, e))
  <1>0. N \in Nat /\ N # 0
    BY StatAssumption
  <1>1. PICK f : rangeRoot(s, e) = f[0] /\ Ranges(f, s, e, 0)
    BY RangeRoot
  <1>2. \A j \in 0 .. N : f[j] = IF j = N THEN Nothing ELSE LayerRange(j, s, e, f[j + 1])
    BY <1>1 DEF Ranges
  <1> DEFINE P == {j \in 0 .. N : Answers(j, s, e, f[j])}
  <1>3. N \in P
    <2>1. f[N] = Nothing
      BY <1>0, <1>2
    <2>2. Lists(N, s, e, 0, <<>>)
      <3>1. Hits(N, s, e) = {}
        BY HitsFacts
      <3>2. 1 .. 0 = {} /\ <<>> \in [1 .. 0 -> Hits(N, s, e)]
        OBVIOUS
      <3> QED
        BY <3>1, <3>2 DEF Lists
    <2>3. Returns(Nothing, 0, <<>>)
      BY DEF Returns, Nothing
    <2>4. Answers(N, s, e, f[N])
      BY <2>1, <2>2, <2>3 DEF Answers
    <2> QED
      BY <1>0, <2>4
  <1>4. ASSUME NEW j \in 0 .. N - 1, j + 1 \in P PROVE j \in P
    <2>1. j \in Nums /\ j \in 0 .. N /\ j # N
      BY <1>0 DEF Nums
    <2>2. Answers(j + 1, s, e, f[j + 1])
      BY <1>4
    <2>3. Answers(j, s, e, LayerRange(j, s, e, f[j + 1]))
      BY <2>1, <2>2, LayerAnswers
    <2> QED
      BY <1>2, <2>1, <2>3
  <1> HIDE DEF P
  <1>5. 0 \in P
    <2>1. 0 \in 0 .. N
      BY <1>0
    <2> QED
      BY <1>0, <1>3, <1>4, <2>1, Descent
  <1> QED
    BY <1>1, <1>5 DEF P

(* What RangeIsOverlap asks of an answer. *)
Covers(r, hits) ==
  /\ Len(r.axes) = Cardinality(hits)
  /\ Len(r.times) = IF hits = {} THEN 0 ELSE Len(r.axes) + 1
  /\ \A k \in 1 .. Len(r.times) - 1 : r.times[k] < r.times[k + 1]
  /\ \A x \in hits : \E k \in 1 .. Len(r.axes) : r.axes[k] = x.axis /\ r.times[k + 1] = x.to
  /\ hits # {} => \E x \in hits : x.from = r.times[1]

LEMMA AnswersCover ==
  ASSUME NEW s, NEW e, NEW r, Answers(0, s, e, r), NEW hits, hits = Hits(0, s, e)
  PROVE  Covers(r, hits)
  <1>4. PICK m \in Nat : \E h : Lists(0, s, e, m, h) /\ Returns(r, m, h)
    BY DEF Answers
  <1>5. PICK f : Lists(0, s, e, m, f) /\ Returns(r, m, f)
    BY <1>4
  <1>6. /\ f \in [1 .. m -> hits]
        /\ \A x \in hits : \E k \in 1 .. m : f[k] = x
        /\ \A k \in 1 .. m : f[k].from \in Nat /\ f[k].to \in Nat /\ f[k].from < f[k].to
        /\ \A j, k \in 1 .. m : j < k => f[j].to < f[k].to
    BY <1>5 DEF Lists
  <1>7. /\ Len(r.axes) = m
        /\ \A k \in 1 .. m : r.axes[k] = f[k].axis
        /\ m = 0 => r.times = <<>>
        /\ m # 0 => Len(r.times) = m + 1 /\ r.times[1] = f[1].from
        /\ \A k \in 1 .. m : r.times[k + 1] = f[k].to
    BY <1>5 DEF Returns
  <1>8. Cardinality(hits) = m
    <2>1. \A j, k \in 1 .. m : f[j] = f[k] => j = k
      <3> SUFFICES ASSUME NEW j \in 1 .. m, NEW k \in 1 .. m, f[j] = f[k] PROVE j = k
        OBVIOUS
      <3>1. ~(f[j].to < f[k].to) /\ ~(f[k].to < f[j].to)
        BY <1>6
      <3>2. ~(j < k) /\ ~(k < j)
        BY <1>6, <3>1
      <3> QED
        BY <3>2
    <2>2. f \in Bijection(1 .. m, hits)
      BY <1>6, <2>1 DEF Bijection, Injection, Surjection, IsInjective
    <2>3. IsFiniteSet(1 .. m) /\ Cardinality(1 .. m) = m
      <3>1. \A a, b \in Int : /\ IsFiniteSet(a .. b)
                              /\ Cardinality(a .. b) = IF a > b THEN 0 ELSE b - a + 1
        BY FS_Interval
      <3>2. 1 \in Int /\ m \in Int /\ (1 > m => m = 0) /\ m - 1 + 1 = m
        OBVIOUS
      <3>3. Cardinality(1 .. m) = IF 1 > m THEN 0 ELSE m - 1 + 1
        BY <3>1, <3>2, Zenon
      <3> QED
        BY <3>1, <3>2, <3>3
    <2>4. ExistsBijection(1 .. m, hits)
      BY <2>2 DEF ExistsBijection
    <2> QED
      BY <2>3, <2>4, FS_Bijection
  <1>9. hits = {} <=> m = 0
    <2>1. CASE m = 0
      BY <1>6, <2>1
    <2>2. CASE m # 0
      <3>1. 1 \in 1 .. m
        BY <2>2
      <3> QED
        BY <1>6, <2>2, <3>1
    <2> QED
      BY <2>1, <2>2
  <1>10. Len(r.times) = IF hits = {} THEN 0 ELSE Len(r.axes) + 1
    BY <1>7, <1>9
  <1>11. ASSUME NEW k \in 1 .. Len(r.times) - 1 PROVE r.times[k] < r.times[k + 1]
    <2>1. m # 0 /\ k \in 1 .. m
      BY <1>7, <1>11
    <2>2. r.times[k + 1] = f[k].to
      BY <1>7, <2>1
    <2>3. CASE k = 1
      BY <1>6, <1>7, <2>1, <2>2, <2>3
    <2>4. CASE k # 1
      <3>1. PICK j \in 1 .. m : j = k - 1
        BY <2>1, <2>4
      <3>2. j + 1 = k /\ j < k
        BY <2>1, <3>1
      <3>3. r.times[k] = f[j].to
        BY <1>7, <3>2
      <3> QED
        BY <1>6, <2>1, <2>2, <3>2, <3>3
    <2> QED
      BY <2>3, <2>4
  <1>12. ASSUME NEW x \in hits
         PROVE  \E k \in 1 .. Len(r.axes) : r.axes[k] = x.axis /\ r.times[k + 1] = x.to
    <2>1. PICK k \in 1 .. m : f[k] = x
      BY <1>6
    <2>2. k \in 1 .. Len(r.axes) /\ r.axes[k] = x.axis /\ r.times[k + 1] = x.to
      BY <1>7, <2>1
    <2> QED
      BY <2>2
  <1>13. ASSUME hits # {} PROVE \E x \in hits : x.from = r.times[1]
    <2>1. m # 0 /\ 1 \in 1 .. m
      BY <1>9, <1>13
    <2> QED
      BY <1>6, <1>7, <2>1
  <1> QED
    BY <1>7, <1>8, <1>10, <1>11, <1>12, <1>13 DEF Covers

(* Whenever no Append is in progress, Range returns exactly the axes of    *)
(* all layers that overlap the interval, in order of time, with one time   *)
(* more than axes, for every number of layers and any contents of the      *)
(* rings; unless a Restore was interrupted while it inserted start rows.   *)
THEOREM RangeReturnsOverlap == Spec => []RangeIsOverlap
  <1>1. Inv => RangeIsOverlap
    <2> SUFFICES ASSUME Inv, Quiet, ~torn, NEW s \in 0 .. MaxTime, NEW e \in 0 .. MaxTime, s < e
                 PROVE  Covers(rangeRoot(s, e), {x \in UNION {Entries(layers[i], i) : i \in Nums} :
                                                   x.to > s /\ x.from < e})
      BY Zenon DEF RangeIsOverlap, Covers
    <2>1. {x \in UNION {Entries(layers[i], i) : i \in Nums} : x.to > s /\ x.from < e} = Hits(0, s, e)
      BY DEF Hits, Overlaps, Nums
    <2>2. s \in Nat /\ e \in Nat
      BY StatAssumption
    <2>3. Answers(0, s, e, rangeRoot(s, e))
      BY <2>2, RootAnswers
    <2>4. Covers(rangeRoot(s, e), Hits(0, s, e))
      BY <2>3, AnswersCover, Zenon
    <2> QED
      BY <2>1, <2>4, Zenon
  <1> QED
    BY <1>1, StatInvariant, PTL
=============================================================================
