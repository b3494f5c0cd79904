--------------------------- MODULE SequenceLemmas ---------------------------
(* Facts about the sequences of requests on their way. *)
EXTENDS Naturals, Sequences, SequencesExt, TLAPS

(* What RemoveAt leaves of a sequence. *)
LEMMA RemoveAtFacts ==
    ASSUME NEW T, NEW s \in Seq(T), NEW i \in DOMAIN s
    PROVE  /\ RemoveAt(s, i) \in Seq(T) /\ Len(RemoveAt(s, i)) = Len(s) - 1
           /\ \A k \in DOMAIN RemoveAt(s, i) : \E j \in DOMAIN s : RemoveAt(s, i)[k] = s[j]
           /\ \A j \in DOMAIN s : j # i =>
                \E k \in DOMAIN RemoveAt(s, i) : RemoveAt(s, i)[k] = s[j]
  <1> DEFINE a == SubSeq(s, 1, i - 1)
             b == SubSeq(s, i + 1, Len(s))
             n == Len(s)
  <1>1. n \in Nat /\ i \in 1..n /\ DOMAIN s = 1..n
    OBVIOUS
  <1>2. /\ a \in Seq(T) /\ Len(a) = i - 1
        /\ \A k \in 1..(i - 1) : a[k] = s[k]
    BY <1>1
  <1>3. /\ b \in Seq(T) /\ Len(b) = n - i
        /\ \A k \in 1..(n - i) : b[k] = s[i + k]
    BY <1>1
  <1> HIDE DEF a, b, n
  <1>4. RemoveAt(s, i) = a \o b
    BY DEF RemoveAt, a, b
  <1>5. /\ a \o b \in Seq(T) /\ DOMAIN (a \o b) = 1..(n - 1)
        /\ \A k \in 1..(n - 1) :
             (a \o b)[k] = IF k <= i - 1 THEN a[k] ELSE b[k - (i - 1)]
    BY <1>1, <1>2, <1>3
  <1>6. \A k \in 1..(n - 1) :
          (a \o b)[k] = IF k <= i - 1 THEN s[k] ELSE s[k + 1]
    <2> SUFFICES ASSUME NEW k \in 1..(n - 1)
                 PROVE  (a \o b)[k] = IF k <= i - 1 THEN s[k] ELSE s[k + 1]
      OBVIOUS
    <2>1. CASE k <= i - 1
      BY <1>1, <1>2, <1>5, <2>1
    <2>2. CASE ~(k <= i - 1)
      <3>1. k - (i - 1) \in 1..(n - i) /\ i + (k - (i - 1)) = k + 1
        BY <1>1, <2>2
      <3>2. b[k - (i - 1)] = s[k + 1]
        BY <1>3, <3>1
      <3> QED
        BY <1>5, <2>2, <3>2
    <2> QED
      BY <2>1, <2>2
  <1> DEFINE c == RemoveAt(s, i)
  <1>7. /\ c \in Seq(T) /\ DOMAIN c = 1..(n - 1) /\ Len(c) = n - 1
        /\ \A k \in 1..(n - 1) : c[k] = IF k <= i - 1 THEN s[k] ELSE s[k + 1]
    <2>1. \A x \in Seq(T) : DOMAIN x = 1..(n - 1) => Len(x) = n - 1
      <3> SUFFICES ASSUME NEW x \in Seq(T), DOMAIN x = 1..(n - 1) PROVE Len(x) = n - 1
        OBVIOUS
      <3>1. Len(x) \in Nat /\ 1..Len(x) = 1..(n - 1) /\ n - 1 \in Nat
        BY <1>1
      <3>2. \A k \in Nat : k \in 1..Len(x) <=> k \in 1..(n - 1)
        BY <3>1
      <3> QED
        BY <3>1, <3>2
    <2> QED
      BY <1>4, <1>5, <1>6, <2>1
  <1> HIDE DEF c
  <1>8. ASSUME NEW k \in 1..(n - 1)
        PROVE  \E j \in 1..n : c[k] = s[j]
    <2>1. k \in 1..n /\ k + 1 \in 1..n
      BY <1>1
    <2>2. c[k] = s[k] \/ c[k] = s[k + 1]
      BY <1>7
    <2> QED
      BY <2>1, <2>2
  <1>9. ASSUME NEW j \in 1..n, j # i
        PROVE  \E k \in DOMAIN c : c[k] = s[j]
    <2>1. CASE j < i
      <3>1. j \in 1..(n - 1) /\ j <= i - 1
        BY <1>1, <2>1
      <3> QED
        BY <1>7, <3>1
    <2>2. CASE j > i
      <3>1. j - 1 \in 1..(n - 1) /\ ~(j - 1 <= i - 1) /\ (j - 1) + 1 = j
        BY <1>1, <2>2
      <3>2. c[j - 1] = s[j]
        BY <1>7, <3>1
      <3> QED
        BY <1>7, <3>1, <3>2
    <2> QED
      BY <1>1, <1>9, <2>1, <2>2
  <1> QED
    BY <1>1, <1>7, <1>8, <1>9 DEF c, n

(* What Append adds. *)
LEMMA AppendFacts ==
    ASSUME NEW T, NEW s \in Seq(T), NEW e \in T
    PROVE  /\ Append(s, e) \in Seq(T)
           /\ Append(s, e) # <<>>
           /\ Last(Append(s, e)) = e
           /\ ToSet(Append(s, e)) = ToSet(s) \cup {e}
  <1>1. /\ Append(s, e) \in Seq(T) /\ Len(Append(s, e)) = Len(s) + 1
        /\ Len(s) \in Nat
        /\ DOMAIN Append(s, e) = 1..(Len(s) + 1) /\ DOMAIN s = 1..Len(s)
        /\ Append(s, e)[Len(s) + 1] = e
        /\ \A i \in 1..Len(s) : Append(s, e)[i] = s[i]
    OBVIOUS
  <1>2. Append(s, e) # <<>>
    BY <1>1
  <1>3. Last(Append(s, e)) = e
    BY <1>1 DEF Last
  <1>4. ToSet(Append(s, e)) = ToSet(s) \cup {e}
    <2>1. 1..(Len(s) + 1) = 1..Len(s) \cup {Len(s) + 1}
      BY <1>1
    <2> QED BY <1>1, <2>1 DEF ToSet
  <1> QED BY <1>1, <1>2, <1>3, <1>4

(* What a non-empty sequence has besides its head. *)
LEMMA TailFacts ==
    ASSUME NEW T, NEW s \in Seq(T), s # <<>>
    PROVE  /\ Head(s) \in T /\ Tail(s) \in Seq(T)
           /\ Tail(s) = <<>> => Last(s) = Head(s)
           /\ Tail(s) # <<>> => Last(Tail(s)) = Last(s)
           /\ ToSet(s) = {Head(s)} \cup ToSet(Tail(s))
  <1>1. /\ Len(s) \in Nat /\ Len(s) > 0 /\ DOMAIN s = 1..Len(s)
        /\ Head(s) = s[1] /\ Head(s) \in T
        /\ Tail(s) \in Seq(T) /\ Len(Tail(s)) = Len(s) - 1
        /\ DOMAIN Tail(s) = 1..(Len(s) - 1)
        /\ \A i \in 1..(Len(s) - 1) : Tail(s)[i] = s[i + 1]
    OBVIOUS
  <1>2. Tail(s) = <<>> => Last(s) = Head(s)
    BY <1>1 DEF Last
  <1>3. Tail(s) # <<>> => Last(Tail(s)) = Last(s)
    BY <1>1 DEF Last
  <1>4. ToSet(s) = {Head(s)} \cup ToSet(Tail(s))
    <2>1. ASSUME NEW x \in ToSet(s)
          PROVE  x \in {Head(s)} \cup ToSet(Tail(s))
      <3>1. PICK i \in 1..Len(s) : x = s[i]
        BY <1>1 DEF ToSet
      <3>2. i # 1 => i - 1 \in 1..(Len(s) - 1) /\ Tail(s)[i - 1] = s[i]
        BY <1>1
      <3> QED BY <1>1, <3>1, <3>2 DEF ToSet
    <2>2. ASSUME NEW x \in ToSet(Tail(s))
          PROVE  x \in ToSet(s)
      <3>1. PICK i \in 1..(Len(s) - 1) : x = Tail(s)[i]
        BY <1>1 DEF ToSet
      <3>2. i + 1 \in 1..Len(s) /\ x = s[i + 1]
        BY <1>1, <3>1
      <3> QED BY <1>1, <3>2 DEF ToSet
    <2>3. Head(s) \in ToSet(s)
      BY <1>1 DEF ToSet
    <2> QED BY <2>1, <2>2, <2>3
  <1> QED BY <1>1, <1>2, <1>3, <1>4
=============================================================================
