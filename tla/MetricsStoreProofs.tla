-------------------------- MODULE MetricsStoreProofs --------------------------
(***************************************************************************)
(* Proofs about the metrics store: the store in memory, for any bound on its *)
(* entries; the concurrent writes to InfluxDB, for any number of calls; and  *)
(* the store that main chose between them.                                  *)
(***************************************************************************)
EXTENDS MetricsStore, FiniteSetTheorems, SequenceTheorems, TLAPS

(* Appending to a sequence that fits and trimming: the new element is last,  *)
(* and the others move up by one place if the sequence was full.             *)
LEMMA TrimmedFacts ==
  ASSUME NEW S, NEW s \in Seq(S), NEW e \in S, Len(s) <= MaxItems
  PROVE  /\ AppendTrimmed(s, e) \in Seq(S)
         /\ Len(s) < MaxItems =>
              /\ Len(AppendTrimmed(s, e)) = Len(s) + 1
              /\ \A i \in 1..Len(s) : AppendTrimmed(s, e)[i] = s[i]
         /\ Len(s) = MaxItems =>
              /\ Len(AppendTrimmed(s, e)) = MaxItems
              /\ \A i \in 1..MaxItems - 1 : AppendTrimmed(s, e)[i] = s[i + 1]
         /\ AppendTrimmed(s, e)[Len(AppendTrimmed(s, e))] = e
<1>1. MaxItems \in Nat /\ MaxItems >= 1 /\ Len(s) \in Nat
  BY StorageAssumption, LenProperties
<1> DEFINE u == Append(s, e)
<1>2. /\ u \in Seq(S)
      /\ Len(u) = Len(s) + 1
      /\ \A i \in 1..Len(s) : u[i] = s[i]
      /\ u[Len(s) + 1] = e
  BY AppendProperties
<1>3. AppendTrimmed(s, e) =
        IF Len(u) > MaxItems THEN SubSeq(u, Len(u) - MaxItems + 1, Len(u)) ELSE u
  BY DEF AppendTrimmed, Trimmed
<1> HIDE DEF u
<1>4. CASE Len(s) < MaxItems
  <2>1. AppendTrimmed(s, e) = u
    BY <1>1, <1>2, <1>3, <1>4
  <2> QED
    BY <1>1, <1>2, <1>4, <2>1
<1>5. CASE Len(s) = MaxItems
  <2>1. Len(u) - MaxItems + 1 = 2 /\ Len(u) > MaxItems
    BY <1>1, <1>2, <1>5
  <2>2. AppendTrimmed(s, e) = SubSeq(u, 2, Len(u))
    BY <1>3, <2>1
  <2>3. u # <<>>
    BY <1>1, <1>2, EmptySeq
  <2>4. /\ AppendTrimmed(s, e) = Tail(u)
        /\ Tail(u) \in Seq(S)
        /\ Len(Tail(u)) = Len(u) - 1
        /\ \A i \in 1..Len(Tail(u)) : Tail(u)[i] = u[i + 1]
    BY <1>2, <2>2, <2>3, TailIsSubSeq, HeadTailProperties
  <2> QED
    BY <1>1, <1>2, <1>5, <2>4
<1> QED
  BY <1>1, <1>4, <1>5

(* Appending the same element to a history and to what is kept of it, and    *)
(* trimming, keeps the newest of the longer history.                         *)
LEMMA TrimmedIsNewest ==
  ASSUME NEW S, NEW s \in Seq(S), NEW l \in Seq(S), NEW e \in S,
         Len(s) <= MaxItems, Newest(s, l)
  PROVE  Newest(AppendTrimmed(s, e), Append(l, e))
<1> DEFINE t == AppendTrimmed(s, e)
           w == Append(l, e)
<1>1. MaxItems \in Nat /\ MaxItems >= 1 /\ Len(s) \in Nat /\ Len(l) \in Nat
  BY StorageAssumption, LenProperties
<1>2. /\ t \in Seq(S)
      /\ Len(s) < MaxItems => Len(t) = Len(s) + 1 /\ \A i \in 1..Len(s) : t[i] = s[i]
      /\ Len(s) = MaxItems => Len(t) = MaxItems /\ \A i \in 1..MaxItems - 1 : t[i] = s[i + 1]
      /\ t[Len(t)] = e
  BY TrimmedFacts
<1>3. /\ Len(w) = Len(l) + 1
      /\ \A i \in 1..Len(l) : w[i] = l[i]
      /\ w[Len(l) + 1] = e
  BY AppendProperties
<1> HIDE DEF t, w
<1>4. /\ Len(s) = IF Len(l) > MaxItems THEN MaxItems ELSE Len(l)
      /\ \A i \in 1..Len(s) : s[i] = l[Len(l) - Len(s) + i]
  BY DEF Newest
<1>5. Len(t) = IF Len(w) > MaxItems THEN MaxItems ELSE Len(w)
  <2>1. CASE Len(l) < MaxItems
    BY <1>1, <1>2, <1>3, <1>4, <2>1
  <2>2. CASE Len(l) >= MaxItems
    BY <1>1, <1>2, <1>3, <1>4, <2>2
  <2> QED
    BY <1>1, <2>1, <2>2
<1>6. ASSUME NEW i \in 1..Len(t) PROVE t[i] = w[Len(w) - Len(t) + i]
  <2>1. CASE Len(s) < MaxItems
    <3>1. Len(l) = Len(s) /\ Len(t) = Len(l) + 1 /\ Len(w) = Len(t)
      BY <1>1, <1>2, <1>3, <1>4, <2>1
    <3>2. Len(w) - Len(t) + i = i /\ i \in 1..Len(l) + 1
      BY <1>1, <3>1
    <3>3. CASE i = Len(l) + 1
      BY <1>2, <1>3, <3>1, <3>2, <3>3
    <3>4. CASE i \in 1..Len(l)
      <4>1. Len(l) - Len(s) + i = i
        BY <1>1, <3>1, <3>4
      <4> QED
        BY <1>2, <1>3, <1>4, <2>1, <3>1, <3>2, <3>4, <4>1
    <3> QED
      BY <1>1, <3>2, <3>3, <3>4
  <2>2. CASE Len(s) = MaxItems
    <3>1. Len(t) = MaxItems /\ Len(l) >= MaxItems /\ Len(w) = Len(l) + 1
      BY <1>1, <1>2, <1>3, <1>4, <2>2
    <3>2. CASE i = MaxItems
      <4>1. Len(w) - Len(t) + i = Len(l) + 1
        BY <1>1, <3>1, <3>2
      <4> QED
        BY <1>2, <1>3, <3>1, <3>2, <4>1
    <3>3. CASE i # MaxItems
      <4>1. i \in 1..MaxItems - 1 /\ i + 1 \in 1..Len(s)
        BY <1>1, <2>2, <3>1, <3>3
      <4>2. Len(w) - Len(t) + i = Len(l) - Len(s) + (i + 1)
        BY <1>1, <2>2, <3>1, <4>1
      <4>3. Len(l) - Len(s) + (i + 1) \in 1..Len(l)
        BY <1>1, <2>2, <3>1, <4>1
      <4>4. t[i] = s[i + 1]
        BY <1>2, <2>2, <4>1
      <4>5. s[i + 1] = l[Len(l) - Len(s) + (i + 1)]
        BY <1>4, <4>1
      <4> QED
        BY <1>3, <4>2, <4>3, <4>4, <4>5
    <3> QED
      BY <3>2, <3>3
  <2> QED
    BY <1>1, <2>1, <2>2
<1>7. Newest(t, w)
  BY <1>5, <1>6 DEF Newest
<1> QED
  BY <1>7 DEF t, w
-----------------------------------------------------------------------------
(* A set of natural numbers that is not empty has a least element: the form  *)
(* of induction the proofs use, on the least counterexample.                 *)
LEMMA LeastNumber ==
  ASSUME NEW T, T \subseteq Nat, T # {}
  PROVE  \E n \in T : \A m \in T : n <= m
<1>1. PICK R : R = OpToRel(<, Nat)
  OBVIOUS
<1>2. \A m, n \in Nat : m < n => <<m, n>> \in R
  BY <1>1 DEF OpToRel
<1>3. IsWellFoundedOn(R, Nat)
  BY <1>1, NatLessThanWellFounded DEF OpToRel
<1>4. PICK n \in T : \A m \in T : <<m, n>> \notin R
  BY <1>3, WFMin
<1>5. ASSUME NEW m \in T PROVE n <= m
  <2>1. m \in Nat /\ n \in Nat
    OBVIOUS
  <2>2. ~(m < n)
    BY <1>2, <1>4, <2>1
  <2> QED
    BY <2>1, <2>2
<1> QED
  BY <1>5

(* g is what the loop of GetNodeMetrics has in result after 0..k entries.    *)
LoopTo(g, s, start, end, k) ==
  g = [i \in 0..k |->
         IF i = 0 THEN <<>>
         ELSE IF Within(start, end, s[i]) THEN Append(g[i - 1], s[i])
         ELSE g[i - 1]]

(* The loop can be run on any number of entries, so Found is what it says.   *)
LEMMA FoundIsLoop ==
  ASSUME NEW s, NEW start, NEW end, Len(s) \in Nat
  PROVE  LoopTo(Found(s, start, end), s, start, end, Len(s))
<1> DEFINE T == {k \in Nat : ~ \E g : LoopTo(g, s, start, end, k)}
<1>1. T = {}
  <2> SUFFICES ASSUME T # {} PROVE FALSE
    OBVIOUS
  <2>1. T \subseteq Nat
    OBVIOUS
  <2>2. PICK k \in T : \A m \in T : k <= m
    <3> HIDE DEF T
    <3> QED
      BY <2>1, LeastNumber
  <2>3. k \in Nat /\ ~ \E g : LoopTo(g, s, start, end, k)
    OBVIOUS
  <2>4. k # 0
    <3> DEFINE g == [i \in 0..0 |-> <<>>]
    <3>1. LoopTo(g, s, start, end, 0)
      BY DEF LoopTo
    <3> QED
      BY <2>3, <3>1
  <2>5. k - 1 \in Nat /\ ~(k <= k - 1)
    BY <2>3, <2>4
  <2>6. PICK g : LoopTo(g, s, start, end, k - 1)
    BY <2>2, <2>5
  <2> DEFINE step == IF Within(start, end, s[k]) THEN Append(g[k - 1], s[k])
                     ELSE g[k - 1]
             h == [i \in 0..k |-> IF i = k THEN step ELSE g[i]]
  <2>7. \A i \in 0..k - 1 :
           g[i] = IF i = 0 THEN <<>>
                  ELSE IF Within(start, end, s[i]) THEN Append(g[i - 1], s[i])
                  ELSE g[i - 1]
    BY <2>6 DEF LoopTo
  <2>8. \A i \in 0..k :
           h[i] = IF i = 0 THEN <<>>
                  ELSE IF Within(start, end, s[i]) THEN Append(h[i - 1], s[i])
                  ELSE h[i - 1]
    <3> SUFFICES ASSUME NEW i \in 0..k
                 PROVE  h[i] = IF i = 0 THEN <<>>
                               ELSE IF Within(start, end, s[i])
                                 THEN Append(h[i - 1], s[i])
                               ELSE h[i - 1]
      OBVIOUS
    <3>1. CASE i = k
      <4>1. h[k] = step /\ h[k - 1] = g[k - 1]
        BY <2>3, <2>4
      <4> QED
        BY <2>4, <3>1, <4>1
    <3>2. CASE i # k
      <4>1. i \in 0..k - 1
        BY <2>3, <3>2
      <4>2. h[i] = g[i] /\ (i # 0 => h[i - 1] = g[i - 1])
        BY <2>3, <4>1
      <4> HIDE DEF h
      <4> QED
        BY <2>7, <4>1, <4>2
    <3> QED
      BY <3>1, <3>2
  <2>9. LoopTo(h, s, start, end, k)
    <3>1. h = [i \in 0..k |-> h[i]]
      OBVIOUS
    <3> HIDE DEF h
    <3> QED
      BY <2>8, <3>1 DEF LoopTo
  <2> QED
    BY <2>3, <2>9
<1>2. PICK g : LoopTo(g, s, start, end, Len(s))
  BY <1>1
<1> QED
  BY <1>2 DEF Found, LoopTo

(* What the loop has found after i entries: those among them that are in     *)
(* range, each at the place that was the last when it was found.             *)
FoundBy(f, i, S, s, start, end) ==
  /\ f[i] \in Seq(S)
  /\ \A j \in 0..i : f[j] \in Seq(S) /\ Len(f[j]) <= Len(f[i])
  /\ \A j \in 1..i : Within(start, end, s[j]) =>
       Len(f[j]) = Len(f[j - 1]) + 1 /\ f[i][Len(f[j])] = s[j]

LEMMA FoundSoFar ==
  ASSUME NEW S, NEW s \in Seq(S), NEW start, NEW end, NEW last \in 0..Len(s)
  PROVE  FoundBy(Found(s, start, end), last, S, s, start, end)
<1> PICK f : f = Found(s, start, end)
  OBVIOUS
<1> DEFINE in(j) == Within(start, end, s[j])
           P(m) == FoundBy(f, m, S, s, start, end)
           T == {m \in 0..Len(s) : ~P(m)}
<1>1. Len(s) \in Nat /\ \A j \in 1..Len(s) : s[j] \in S
  BY LenProperties, ElementOfSeq
<1>2. /\ f[0] = <<>>
      /\ \A i \in 1..Len(s) :
           f[i] = IF in(i) THEN Append(f[i - 1], s[i]) ELSE f[i - 1]
  <2>1. f = [i \in 0..Len(s) |->
               IF i = 0 THEN <<>>
               ELSE IF in(i) THEN Append(f[i - 1], s[i]) ELSE f[i - 1]]
    BY <1>1, FoundIsLoop DEF LoopTo
  <2> HIDE DEF in
  <2>2. f[0] = <<>>
    BY <1>1, <2>1
  <2>3. ASSUME NEW i \in 1..Len(s)
        PROVE  f[i] = IF in(i) THEN Append(f[i - 1], s[i]) ELSE f[i - 1]
    <3>1. i \in 0..Len(s) /\ i # 0
      BY <1>1
    <3> QED
      BY <2>1, <3>1
  <2> QED
    BY <2>2, <2>3
<1>3. P(0)
  <2>1. f[0] \in Seq(S) /\ Len(f[0]) = 0
    BY <1>2, EmptySeq
  <2>2. (\A j \in 0..0 : j = 0) /\ (\A j \in 1..0 : FALSE)
    OBVIOUS
  <2> QED
    BY <2>1, <2>2 DEF FoundBy
<1>4. ASSUME NEW k \in 1..Len(s), P(k - 1) PROVE P(k)
  <2>1. k \in Nat /\ k - 1 \in Nat
    BY <1>1
  <2>2. /\ f[k - 1] \in Seq(S)
        /\ \A j \in 0..k - 1 : f[j] \in Seq(S) /\ Len(f[j]) <= Len(f[k - 1])
        /\ \A j \in 1..k - 1 : in(j) =>
             Len(f[j]) = Len(f[j - 1]) + 1 /\ f[k - 1][Len(f[j])] = s[j]
    BY <1>4 DEF FoundBy
  <2>3. \A j \in 0..k - 1 : Len(f[j]) \in Nat
    BY <2>2, LenProperties
  <2> HIDE DEF in
  <2>4. ASSUME ~in(k)
        PROVE  /\ f[k] \in Seq(S)
               /\ \A j \in 0..k : f[j] \in Seq(S) /\ Len(f[j]) <= Len(f[k])
               /\ \A j \in 1..k : in(j) =>
                    Len(f[j]) = Len(f[j - 1]) + 1 /\ f[k][Len(f[j])] = s[j]
    <3>1. f[k] = f[k - 1]
      BY <1>2, <2>4
    <3>2. \A j \in 1..k : in(j) => j \in 1..k - 1
      BY <2>1, <2>4
    <3>3. \A j \in 0..k : j = k \/ j \in 0..k - 1
      BY <2>1
    <3>4. k - 1 \in 0..k - 1
      BY <2>1
    <3>5. \A j \in 0..k : f[j] \in Seq(S) /\ Len(f[j]) <= Len(f[k])
      BY <2>2, <2>3, <3>1, <3>3, <3>4
    <3> QED
      BY <2>2, <3>1, <3>2, <3>5
  <2>5. ASSUME in(k)
        PROVE  /\ f[k] \in Seq(S)
               /\ \A j \in 0..k : f[j] \in Seq(S) /\ Len(f[j]) <= Len(f[k])
               /\ \A j \in 1..k : in(j) =>
                    Len(f[j]) = Len(f[j - 1]) + 1 /\ f[k][Len(f[j])] = s[j]
    <3>1. f[k] = Append(f[k - 1], s[k]) /\ s[k] \in S
      BY <1>1, <1>2, <2>5
    <3>2. /\ f[k] \in Seq(S)
          /\ Len(f[k]) = Len(f[k - 1]) + 1
          /\ \A n \in 1..Len(f[k - 1]) : f[k][n] = f[k - 1][n]
          /\ f[k][Len(f[k])] = s[k]
      BY <2>2, <3>1, AppendProperties
    <3>3. Len(f[k - 1]) \in Nat
      BY <2>1, <2>3
    <3>4. ASSUME NEW j \in 0..k PROVE f[j] \in Seq(S) /\ Len(f[j]) <= Len(f[k])
      <4>1. CASE j = k
        BY <3>2, <3>3, <4>1
      <4>2. CASE j # k
        <5>1. j \in 0..k - 1
          BY <2>1, <4>2
        <5> QED
          BY <2>2, <2>3, <3>2, <3>3, <5>1
      <4> QED
        BY <4>1, <4>2
    <3>5. ASSUME NEW j \in 1..k, in(j)
          PROVE  Len(f[j]) = Len(f[j - 1]) + 1 /\ f[k][Len(f[j])] = s[j]
      <4>1. CASE j = k
        BY <3>2, <4>1
      <4>2. CASE j # k
        <5>1. j \in 1..k - 1 /\ j \in 0..k - 1 /\ j - 1 \in 0..k - 1
          BY <2>1, <4>2
        <5>2. /\ Len(f[j]) = Len(f[j - 1]) + 1 /\ f[k - 1][Len(f[j])] = s[j]
              /\ Len(f[j]) <= Len(f[k - 1])
          BY <2>2, <3>5, <5>1
        <5>3. Len(f[j]) \in 1..Len(f[k - 1])
          BY <2>3, <3>3, <5>1, <5>2
        <5> QED
          BY <3>2, <5>2, <5>3
      <4> QED
        BY <4>1, <4>2
    <3> QED
      BY <3>2, <3>4, <3>5
  <2> QED
    BY <2>4, <2>5 DEF FoundBy, in
<1> HIDE DEF P
<1>5. T = {}
  <2> SUFFICES ASSUME T # {} PROVE FALSE
    OBVIOUS
  <2>1. T \subseteq Nat
    BY <1>1
  <2>2. PICK k \in T : \A m \in T : k <= m
    <3> HIDE DEF T
    <3> QED
      BY <2>1, LeastNumber
  <2>3. k \in 0..Len(s) /\ ~P(k)
    OBVIOUS
  <2>4. k # 0 /\ k - 1 \in 0..Len(s) /\ ~(k <= k - 1)
    BY <1>1, <1>3, <2>3
  <2>5. P(k - 1)
    BY <2>2, <2>4
  <2>6. k \in 1..Len(s)
    BY <1>1, <2>3, <2>4
  <2> QED
    BY <1>4, <2>3, <2>5, <2>6
<1>6. P(last)
  BY <1>5
<1> QED
  BY <1>6 DEF P

(* found holds what s has at the places wanted, in the same order.           *)
InOrder(found, s, wanted) ==
  \E g \in [wanted -> 1..Len(found)] :
    /\ \A i \in wanted : found[g[i]] = s[i]
    /\ \A i, j \in wanted : i < j => g[i] < g[j]

(* What GetNodeMetrics answers holds every entry that is in range, and in    *)
(* the order of the entries.                                                *)
LEMMA InRangeKeepsOrder ==
  ASSUME NEW S, NEW s \in Seq(S), NEW start, NEW end
  PROVE  InOrder(InRange(s, start, end), s,
                 {j \in 1..Len(s) : Within(start, end, s[j])})
<1> PICK f : f = Found(s, start, end)
  OBVIOUS
<1> DEFINE found == f[Len(s)]
           in == {j \in 1..Len(s) : Within(start, end, s[j])}
           g == [j \in in |-> Len(f[j])]
<1>1. Len(s) \in Nat
  BY LenProperties
<1>2. \A i \in 0..Len(s) :
        /\ f[i] \in Seq(S)
        /\ \A j \in 0..i : Len(f[j]) <= Len(f[i])
        /\ \A j \in 1..i : Within(start, end, s[j]) =>
             Len(f[j]) = Len(f[j - 1]) + 1 /\ f[i][Len(f[j])] = s[j]
  <2>1. \A i \in 0..Len(s) : FoundBy(f, i, S, s, start, end)
    BY FoundSoFar
  <2> QED
    BY <2>1 DEF FoundBy
<1>3. \A i \in 0..Len(s) : Len(f[i]) \in Nat
  BY <1>2, LenProperties
<1>4. ASSUME NEW j \in in
      PROVE  g[j] = Len(f[j]) /\ g[j] \in 1..Len(found) /\ found[g[j]] = s[j]
  <2>1. j \in 1..Len(s) /\ j \in 0..Len(s) /\ j - 1 \in 0..Len(s) /\ Len(s) \in 0..Len(s)
    BY <1>1
  <2>2. /\ Len(f[j]) = Len(f[j - 1]) + 1 /\ found[Len(f[j])] = s[j]
        /\ Len(f[j]) <= Len(found)
    BY <1>2, <2>1
  <2> QED
    BY <1>3, <2>1, <2>2
<1>5. ASSUME NEW j \in in, NEW k \in in, j < k PROVE g[j] < g[k]
  <2>1. j \in 0..k - 1 /\ k - 1 \in 0..Len(s) /\ k \in 1..k /\ k \in 0..Len(s)
    BY <1>1, <1>5
  <2>2. Len(f[j]) <= Len(f[k - 1]) /\ Len(f[k]) = Len(f[k - 1]) + 1
    BY <1>2, <2>1
  <2>3. Len(f[j]) \in Nat /\ Len(f[k - 1]) \in Nat /\ j \in 0..Len(s)
    BY <1>1, <1>3, <2>1
  <2> QED
    BY <1>4, <2>2, <2>3
<1>6. g \in [in -> 1..Len(found)]
  BY <1>4
<1> HIDE DEF g
<1>7. InOrder(found, s, in)
  BY <1>4, <1>5, <1>6 DEF InOrder
<1> QED
  BY <1>7 DEF InRange
-----------------------------------------------------------------------------
(* The empty store keeps the newest of an empty history.                    *)
LEMMA MemoryInit == Init => TypeOK /\ KeepsNewest
<1> SUFFICES ASSUME Init PROVE TypeOK /\ KeepsNewest
  OBVIOUS
<1>1. DOMAIN data = {} /\ log = [n \in Nodes |-> <<>>] /\ now = 0
  BY DEF Init
<1>2. TypeOK
  BY <1>1, StorageAssumption, EmptySeq DEF Init, TypeOK
<1>3. Newest(<<>>, <<>>)
  BY EmptySeq, StorageAssumption DEF Newest
<1>4. KeepsNewest
  BY <1>1, <1>3 DEF KeepsNewest, Entries
<1> QED
  BY <1>2, <1>4

(* Storing moves one node's entries and its history forward together.       *)
LEMMA MemoryStoreStep ==
  ASSUME TypeOK, KeepsNewest, NEW n \in Nodes, NEW p \in Payloads, StoreMetrics(n, p)
  PROVE  TypeOK' /\ KeepsNewest'
<1> PICK e : e = [Timestamp |-> now, Data |-> p]
  OBVIOUS
<1> PICK t : t = AppendTrimmed(Entries(n), e)
  OBVIOUS
<1>1. e \in MetricsEntry
  BY DEF TypeOK, MetricsEntry
<1>2. /\ data' = [m \in DOMAIN data \union {n} |-> IF m = n THEN t ELSE data[m]]
      /\ log' = [log EXCEPT ![n] = Append(@, e)]
      /\ UNCHANGED <<now, query>>
  BY DEF StoreMetrics
<1>3. /\ Entries(n) \in Seq(MetricsEntry)
      /\ Len(Entries(n)) \in Nat /\ Len(Entries(n)) <= MaxItems
  <2>1. CASE n \in DOMAIN data
    BY <2>1, LenProperties DEF TypeOK, Entries
  <2>2. CASE n \notin DOMAIN data
    BY <2>2, EmptySeq, StorageAssumption DEF Entries
  <2> QED
    BY <2>1, <2>2
<1>4. log[n] \in Seq(MetricsEntry) /\ log'[n] = Append(log[n], e)
  BY <1>2 DEF TypeOK
<1>5. t \in Seq(MetricsEntry) /\ Len(t) \in 1..MaxItems
  <2>1. /\ t \in Seq(MetricsEntry)
        /\ Len(Entries(n)) < MaxItems => Len(t) = Len(Entries(n)) + 1
        /\ Len(Entries(n)) = MaxItems => Len(t) = MaxItems
    BY <1>1, <1>3, TrimmedFacts
  <2> QED
    BY <1>3, <2>1, StorageAssumption
<1>6. log' \in [Nodes -> Seq(MetricsEntry)]
  BY <1>1, <1>2, <1>4, AppendProperties DEF TypeOK
<1>7. TypeOK'
  <2>1. /\ DOMAIN data' \subseteq Nodes
        /\ data' \in [DOMAIN data' -> Seq(MetricsEntry)]
        /\ \A m \in DOMAIN data' : Len(data'[m]) \in 1..MaxItems
    BY <1>2, <1>5 DEF TypeOK
  <2>2. \A m \in Nodes : Len(log'[m]) <= MaxStores
    <3>1. Len(log'[n]) = Len(log[n]) + 1 /\ Len(log[n]) \in Nat /\ Len(log[n]) < MaxStores
      BY <1>1, <1>4, AppendProperties, LenProperties DEF StoreMetrics
    <3>2. \A m \in Nodes : m # n => log'[m] = log[m]
      BY <1>2
    <3> QED
      BY <3>1, <3>2, StorageAssumption DEF TypeOK
  <2> QED
    BY <1>2, <1>6, <2>1, <2>2 DEF TypeOK
<1>8. KeepsNewest'
  <2>1. \A m \in Nodes \ {n} : Entries(m)' = Entries(m) /\ log'[m] = log[m]
    BY <1>2 DEF Entries, TypeOK
  <2>2. Entries(n)' = t
    BY <1>2 DEF Entries
  <2>3. Newest(t, log'[n])
    <3>1. Newest(Entries(n), log[n])
      BY DEF KeepsNewest
    <3> QED
      BY <1>1, <1>3, <1>4, <3>1, TrimmedIsNewest
  <2>4. \A m \in Nodes : Newest(Entries(m)', log'[m])
    BY <2>1, <2>2, <2>3 DEF KeepsNewest
  <2> QED
    BY <2>4 DEF KeepsNewest, Newest
<1> QED
  BY <1>7, <1>8

(* Only a submission touches entries or histories.                          *)
LEMMA MemoryStep == TypeOK /\ KeepsNewest /\ [Next]_vars => TypeOK' /\ KeepsNewest'
<1> SUFFICES ASSUME TypeOK, KeepsNewest, [Next]_vars PROVE TypeOK' /\ KeepsNewest'
  OBVIOUS
<1>1. ASSUME UNCHANGED <<data, log>> PROVE KeepsNewest'
  BY <1>1 DEF KeepsNewest, Entries
<1>2. ASSUME NEW n \in Nodes, NEW p \in Payloads, StoreMetrics(n, p)
      PROVE  TypeOK' /\ KeepsNewest'
  BY <1>2, MemoryStoreStep
<1>3. ASSUME NEW q \in Readers, NEW n \in Nodes, NEW start \in Int,
             NEW end \in 0..MaxTime, Ranged(q, n, start, end)
      PROVE  TypeOK' /\ KeepsNewest'
  <2>1. Len(log[n]) \in 0..MaxStores
    BY DEF TypeOK
  <2>2. TypeOK'
    BY <1>3, <2>1 DEF Ranged, TypeOK
  <2> QED
    BY <1>1, <1>3, <2>2 DEF Ranged
<1>4. ASSUME NEW q \in Readers, NEW n \in Nodes, QueryRecent(q, n) \/ QueryRange(q, n)
      PROVE  TypeOK' /\ KeepsNewest'
  <2>1. now - Window \in Int /\ now \in 0..MaxTime
    BY StorageAssumption DEF TypeOK
  <2>2. CASE QueryRecent(q, n)
    BY <1>3, <2>1, <2>2 DEF QueryRecent
  <2>3. CASE QueryRange(q, n)
    BY <1>3, <2>3, StorageAssumption DEF QueryRange
  <2> QED
    BY <1>4, <2>2, <2>3
<1>5. ASSUME NEW q \in Readers, GetNodeMetrics(q) \/ Respond(q)
      PROVE  TypeOK' /\ KeepsNewest'
  <2>1. CASE GetNodeMetrics(q)
    <3>1. query[q] # NoQuery
      BY <2>1 DEF GetNodeMetrics, NoQuery
    <3>2. TypeOK'
      BY <2>1, <3>1 DEF GetNodeMetrics, TypeOK
    <3> QED
      BY <1>1, <2>1, <3>2 DEF GetNodeMetrics
  <2>2. CASE Respond(q)
    BY <1>1, <2>2 DEF Respond, TypeOK
  <2> QED
    BY <1>5, <2>1, <2>2
<1>6. CASE Tick
  BY <1>1, <1>6, StorageAssumption DEF Tick, TypeOK
<1>7. CASE UNCHANGED vars
  BY <1>1, <1>7 DEF vars, TypeOK
<1> QED
  BY <1>2, <1>4, <1>5, <1>6, <1>7 DEF Next

(* The map, the histories and the queries keep their types; no node ever     *)
(* has more than MaxItems entries.                                          *)
THEOREM MemoryTypes == Spec => []TypeOK
<1> QED
  BY MemoryInit, MemoryStep, PTL DEF Spec

(* For every bound and every interleaving of writers and readers, the store  *)
(* holds exactly the newest entries of each node's whole history.            *)
THEOREM StoreKeepsNewest == Spec => []KeepsNewest
<1> QED
  BY MemoryInit, MemoryStep, PTL DEF Spec
-----------------------------------------------------------------------------
(* The entries a query r is owed of the history l of its node, and what an   *)
(* answer to it must hold; one reader's part of AnswersHoldWhatWasStored.    *)
Owed(r, l) == {i \in 1..r.stored : /\ i > r.total - MaxItems
                                   /\ r.start <= l[i].Timestamp
                                   /\ l[i].Timestamp <= r.end}
HoldsOwed(r, l) == InOrder(r.result, l, Owed(r, l))

(* A query counted the entries there were: histories only grow.              *)
Counted(r, l) ==
  /\ r.phase = "ranged" => r.stored <= Len(l)
  /\ r.phase = "read" =>
       r.total \in Nat /\ r.stored <= r.total /\ r.total <= Len(l)

QueryInv ==
  \A q \in Readers :
    query[q] # NoQuery =>
      /\ Counted(query[q], log[query[q].node])
      /\ query[q].phase = "read" => HoldsOwed(query[q], log[query[q].node])

(* Reading now answers with everything owed: what is owed has not been       *)
(* pushed out, is in range, and keeps its order.                             *)
LEMMA ReadHoldsOwed ==
  ASSUME NEW S, NEW s \in Seq(S), NEW l \in Seq(S), Newest(s, l), NEW r,
         r.stored \in Nat, r.stored <= Len(l), r.total = Len(l),
         r.result = InRange(s, r.start, r.end)
  PROVE  HoldsOwed(r, l)
<1>1. MaxItems \in Nat /\ Len(s) \in Nat /\ Len(l) \in Nat
  BY StorageAssumption, LenProperties
<1>2. /\ Len(s) = IF Len(l) > MaxItems THEN MaxItems ELSE Len(l)
      /\ \A i \in 1..Len(s) : s[i] = l[Len(l) - Len(s) + i]
  BY DEF Newest
<1> DEFINE gone == Len(l) - Len(s)
           in == {j \in 1..Len(s) : Within(r.start, r.end, s[j])}
<1>3. gone \in Nat /\ (gone > 0 => gone = r.total - MaxItems)
  BY <1>1, <1>2
<1>4. PICK g \in [in -> 1..Len(r.result)] :
        /\ \A j \in in : r.result[g[j]] = s[j]
        /\ \A j, k \in in : j < k => g[j] < g[k]
  <2>1. InOrder(r.result, s, in)
    BY InRangeKeepsOrder
  <2> QED
    BY <2>1 DEF InOrder
<1>5. ASSUME NEW i \in Owed(r, l)
      PROVE  i \in Nat /\ i - gone \in in /\ s[i - gone] = l[i]
  <2>1. /\ i \in 1..r.stored /\ i > r.total - MaxItems
        /\ r.start <= l[i].Timestamp /\ l[i].Timestamp <= r.end
    BY DEF Owed
  <2>2. i \in Nat /\ i <= Len(l) /\ i - gone \in 1..Len(s)
    BY <1>1, <1>2, <2>1
  <2>3. gone + (i - gone) = i
    BY <1>3, <2>2
  <2>4. s[i - gone] = l[i]
    BY <1>2, <2>2, <2>3
  <2> QED
    BY <2>1, <2>2, <2>4 DEF Within
<1> HIDE DEF in
<1> DEFINE f == [i \in Owed(r, l) |-> g[i - gone]]
<1>6. f \in [Owed(r, l) -> 1..Len(r.result)]
  BY <1>4, <1>5
<1>7. \A i \in Owed(r, l) : r.result[f[i]] = l[i]
  BY <1>4, <1>5
<1>8. ASSUME NEW i \in Owed(r, l), NEW j \in Owed(r, l), i < j PROVE f[i] < f[j]
  <2>1. i - gone < j - gone
    BY <1>3, <1>5, <1>8
  <2> QED
    BY <1>4, <1>5, <2>1
<1> QED
  BY <1>6, <1>7, <1>8 DEF HoldsOwed, InOrder

(* A longer history changes nothing about what was owed.                     *)
LEMMA OwedStays ==
  ASSUME NEW S, NEW l \in Seq(S), NEW e \in S, NEW r,
         r.stored \in Nat, r.stored <= Len(l), HoldsOwed(r, l)
  PROVE  HoldsOwed(r, Append(l, e))
<1>1. Len(l) \in Nat /\ \A i \in 1..Len(l) : Append(l, e)[i] = l[i]
  BY LenProperties, AppendProperties
<1>2. \A i \in 1..r.stored : i \in 1..Len(l)
  BY <1>1
<1>3. /\ Owed(r, Append(l, e)) = Owed(r, l)
      /\ \A i \in Owed(r, l) : Append(l, e)[i] = l[i]
  BY <1>1, <1>2 DEF Owed
<1> QED
  BY <1>3 DEF HoldsOwed, InOrder

LEMMA QueryInvInit == Init => QueryInv
BY DEF Init, QueryInv

(* QueryInv is inductive together with what was proved of the entries.       *)
LEMMA QueryInvStep == TypeOK /\ KeepsNewest /\ QueryInv /\ [Next]_vars => QueryInv'
<1> SUFFICES ASSUME TypeOK, KeepsNewest, QueryInv, [Next]_vars PROVE QueryInv'
  OBVIOUS
<1>1. \A q \in Readers : query[q] # NoQuery =>
        query[q].node \in Nodes /\ query[q].stored \in Nat
  BY DEF TypeOK
<1>2. ASSUME NEW n \in Nodes, NEW p \in Payloads, StoreMetrics(n, p)
      PROVE  QueryInv'
  <2> PICK e : e = [Timestamp |-> now, Data |-> p]
    OBVIOUS
  <2>1. e \in MetricsEntry /\ query' = query /\ log' = [log EXCEPT ![n] = Append(@, e)]
    BY <1>2 DEF StoreMetrics, TypeOK, MetricsEntry
  <2>2. /\ log[n] \in Seq(MetricsEntry) /\ Len(log[n]) \in Nat
        /\ log'[n] = Append(log[n], e) /\ Len(log'[n]) = Len(log[n]) + 1
        /\ \A m \in Nodes \ {n} : log'[m] = log[m]
    BY <2>1, AppendProperties, LenProperties DEF TypeOK
  <2>3. ASSUME NEW q \in Readers, query[q] # NoQuery, query[q].node = n
        PROVE  /\ Counted(query[q], log'[n])
               /\ query[q].phase = "read" => HoldsOwed(query[q], log'[n])
    <3>1. Counted(query[q], log[n]) /\ query[q].stored \in Nat
      BY <1>1, <2>3 DEF QueryInv
    <3>2. Counted(query[q], log'[n])
      BY <2>2, <3>1 DEF Counted
    <3>3. ASSUME query[q].phase = "read" PROVE HoldsOwed(query[q], log'[n])
      <4>1. HoldsOwed(query[q], log[n]) /\ query[q].stored <= Len(log[n])
        BY <2>2, <2>3, <3>1, <3>3 DEF QueryInv, Counted
      <4> QED
        BY <2>1, <2>2, <3>1, <4>1, OwedStays
    <3> QED
      BY <3>2, <3>3
  <2>4. ASSUME NEW q \in Readers, query[q] # NoQuery, query[q].node # n
        PROVE  /\ Counted(query[q], log'[query[q].node])
               /\ query[q].phase = "read" =>
                    HoldsOwed(query[q], log'[query[q].node])
    BY <1>1, <2>2, <2>4 DEF QueryInv
  <2> QED
    BY <2>1, <2>3, <2>4 DEF QueryInv
<1>3. ASSUME NEW q \in Readers, NEW r, query' = [query EXCEPT ![q] = r], log' = log,
             r # NoQuery => /\ Counted(r, log[r.node])
                            /\ r.phase = "read" => HoldsOwed(r, log[r.node])
      PROVE  QueryInv'
  <2>1. query'[q] = r /\ \A p \in Readers \ {q} : query'[p] = query[p]
    BY <1>3 DEF TypeOK
  <2> QED
    BY <1>3, <2>1 DEF QueryInv
<1>4. ASSUME NEW q \in Readers, NEW n \in Nodes, QueryRecent(q, n) \/ QueryRange(q, n)
      PROVE  QueryInv'
  <2>1. PICK start, end : Ranged(q, n, start, end)
    BY <1>4 DEF QueryRecent, QueryRange
  <2> PICK r : r = [phase |-> "ranged", node |-> n, start |-> start,
                    end |-> end, stored |-> Len(log[n])]
    OBVIOUS
  <2>2. Counted(r, log[r.node]) /\ r.phase # "read"
    BY LenProperties DEF Counted, TypeOK
  <2> QED
    BY <1>3, <2>1, <2>2 DEF Ranged
<1>5. ASSUME NEW q \in Readers, GetNodeMetrics(q) PROVE QueryInv'
  <2> PICK r : r = [phase |-> "read", node |-> query[q].node,
                    start |-> query[q].start, end |-> query[q].end,
                    stored |-> query[q].stored, total |-> Len(log[query[q].node]),
                    result |-> InRange(Entries(query[q].node), query[q].start,
                                       query[q].end)]
    OBVIOUS
  <2>1. query' = [query EXCEPT ![q] = r] /\ log' = log /\ query[q].phase = "ranged"
    BY <1>5 DEF GetNodeMetrics
  <2>2. query[q] # NoQuery
    BY <2>1 DEF NoQuery
  <2>3. /\ query[q].node \in Nodes /\ r.stored \in Nat
        /\ r.stored <= Len(log[query[q].node])
    BY <1>1, <2>1, <2>2 DEF QueryInv, Counted
  <2>4. /\ log[query[q].node] \in Seq(MetricsEntry)
        /\ Entries(query[q].node) \in Seq(MetricsEntry)
        /\ Newest(Entries(query[q].node), log[query[q].node])
    BY <2>3, EmptySeq DEF TypeOK, Entries, KeepsNewest
  <2>5. /\ r.node = query[q].node /\ r.phase = "read"
        /\ r.total = Len(log[query[q].node])
        /\ r.result = InRange(Entries(query[q].node), r.start, r.end)
    OBVIOUS
  <2>6. HoldsOwed(r, log[r.node])
    BY <2>3, <2>4, <2>5, ReadHoldsOwed
  <2>7. Counted(r, log[r.node])
    BY <2>3, <2>4, <2>5, LenProperties DEF Counted
  <2> QED
    BY <1>3, <2>1, <2>6, <2>7
<1>6. ASSUME NEW q \in Readers, Respond(q) PROVE QueryInv'
  BY <1>3, <1>6 DEF Respond
<1>7. CASE UNCHANGED <<log, query>>
  BY <1>7 DEF QueryInv
<1> QED
  BY <1>2, <1>4, <1>5, <1>6, <1>7 DEF Next, Tick, vars

(* What the invariant says of an answer is the property.                     *)
LEMMA AnswersAreHeld == TypeOK /\ QueryInv => AnswersHoldWhatWasStored
<1> SUFFICES ASSUME QueryInv, NEW q \in Readers, query[q].phase = "read"
             PROVE  HoldsOwed(query[q], log[query[q].node])
  BY DEF AnswersHoldWhatWasStored, HoldsOwed, InOrder, Owed
<1>1. query[q] # NoQuery
  BY DEF NoQuery
<1> QED
  BY <1>1 DEF QueryInv

(* Whatever was stored, pushed out and asked for in between, an answer holds *)
(* every entry that was there when its range was chosen, lies in it and is   *)
(* among the newest when it is read.                                        *)
THEOREM AnswersAreComplete == Spec => []AnswersHoldWhatWasStored
BY MemoryInit, MemoryStep, QueryInvInit, QueryInvStep, AnswersAreHeld, PTL DEF Spec
-----------------------------------------------------------------------------
(* The calls that f has an error for.                                        *)
Marked(f) == {c \in Calls : f[c] # Influx!None}

(* Putting an error where there was none, and taking one away.               *)
LEMMA MarkOneMore ==
  ASSUME NEW f \in [Calls -> Influx!Error], NEW c \in Calls, f[c] = Influx!None,
         NEW e \in Influx!Error, e # Influx!None, IsFiniteSet(Marked(f))
  PROVE  /\ IsFiniteSet(Marked([f EXCEPT ![c] = e]))
         /\ Cardinality(Marked([f EXCEPT ![c] = e])) = Cardinality(Marked(f)) + 1
<1>1. Marked([f EXCEPT ![c] = e]) = Marked(f) \cup {c} /\ c \notin Marked(f)
  BY DEF Marked
<1> QED
  BY <1>1, FS_AddElement

LEMMA MarkOneLess ==
  ASSUME NEW f \in [Calls -> Influx!Error], NEW c \in Calls, f[c] # Influx!None,
         IsFiniteSet(Marked(f))
  PROVE  /\ IsFiniteSet(Marked([f EXCEPT ![c] = Influx!None]))
         /\ Cardinality(Marked([f EXCEPT ![c] = Influx!None]))
              = Cardinality(Marked(f)) - 1
<1>1. Marked([f EXCEPT ![c] = Influx!None]) = Marked(f) \ {c} /\ c \in Marked(f)
  BY DEF Marked
<1> QED
  BY <1>1, FS_RemoveElement

(* Where errors can be: with a goroutine that passes one on, which its call  *)
(* has started, in a channel, in the answer of a call that returned.         *)
ErrorsInPlace ==
  \A c \in Calls :
    /\ held[c] # Influx!None <=> listener[c] = "passing"
    /\ listener[c] = "none" <=> pc[c] \in {"points", "more", "flushing", "flushed"}
    /\ answer[c] # Influx!None => pc[c] = "error"

(* Of however many calls, only finitely many ever hold an error.             *)
FewMarked ==
  IsFiniteSet(Marked(held)) /\ IsFiniteSet(Marked(errChan)) /\ IsFiniteSet(Marked(answer))

(* Each error the writer offered is in one place.                            *)
Accounted ==
  failed = (IF offered = Influx!None THEN 0 ELSE 1)
             + Cardinality(Marked(held)) + Cardinality(Marked(errChan))
             + Cardinality(Marked(answer))

InfluxInv == Influx!TypeOK /\ ErrorsInPlace /\ FewMarked /\ Accounted

LEMMA NothingMarked ==
  ASSUME NEW f, \A c \in Calls : f[c] = Influx!None
  PROVE  IsFiniteSet(Marked(f)) /\ Cardinality(Marked(f)) = 0
<1>1. Marked(f) = {}
  BY DEF Marked
<1> QED
  BY <1>1, FS_EmptySet

LEMMA InfluxInvInit == Influx!Init => InfluxInv
<1> SUFFICES ASSUME Influx!Init PROVE InfluxInv
  OBVIOUS
<1>1. \A c \in Calls :
        held[c] = Influx!None /\ errChan[c] = Influx!None /\ answer[c] = Influx!None
  BY DEF Influx!Init
<1>2. Influx!TypeOK
  BY EmptySeq DEF Influx!Init, Influx!TypeOK, Influx!Error
<1>3. ErrorsInPlace
  BY <1>1 DEF Influx!Init, ErrorsInPlace
<1>4. FewMarked /\ Accounted
  BY <1>1, NothingMarked DEF FewMarked, Accounted, Influx!Init
<1> QED
  BY <1>2, <1>3, <1>4 DEF InfluxInv

(* InfluxInv is inductive: an error that moves leaves one place for another. *)
LEMMA InfluxInvStep == InfluxInv /\ [Influx!Next]_writerVars => InfluxInv'
<1> SUFFICES ASSUME InfluxInv, [Influx!Next]_writerVars PROVE InfluxInv'
  OBVIOUS
<1> DEFINE waits(o) == IF o = Influx!None THEN 0 ELSE 1
<1>1. /\ Influx!TypeOK /\ ErrorsInPlace
      /\ IsFiniteSet(Marked(held)) /\ IsFiniteSet(Marked(errChan))
      /\ IsFiniteSet(Marked(answer))
      /\ failed = waits(offered) + Cardinality(Marked(held))
                    + Cardinality(Marked(errChan)) + Cardinality(Marked(answer))
  BY DEF InfluxInv, FewMarked, Accounted
<1>2. /\ Cardinality(Marked(held)) \in Nat /\ Cardinality(Marked(errChan)) \in Nat
      /\ Cardinality(Marked(answer)) \in Nat
  BY <1>1, FS_CardinalityType
<1>3. ASSUME IsFiniteSet(Marked(held')), IsFiniteSet(Marked(errChan')),
             IsFiniteSet(Marked(answer')),
             failed' = waits(offered') + Cardinality(Marked(held'))
                        + Cardinality(Marked(errChan')) + Cardinality(Marked(answer'))
      PROVE  FewMarked' /\ Accounted'
  BY <1>3 DEF FewMarked, Accounted, Marked
<1>4. ASSUME UNCHANGED <<held, errChan, answer>>,
             failed' - failed = waits(offered') - waits(offered), failed' \in Nat
      PROVE  FewMarked' /\ Accounted'
  <2>1. failed \in Int /\ waits(offered) \in Int /\ waits(offered') \in Int
    BY <1>1 DEF Influx!TypeOK
  <2>2. failed' = waits(offered') + Cardinality(Marked(held))
                   + Cardinality(Marked(errChan)) + Cardinality(Marked(answer))
    <3> HIDE DEF waits
    <3> QED
      BY <1>1, <1>2, <1>4, <2>1
  <2> QED
    BY <1>1, <1>3, <1>4, <2>2
<1>5. ASSUME NEW c \in Calls, Influx!WritePoints(c) \/ Influx!Flush(c) PROVE InfluxInv'
  <2>1. FewMarked' /\ Accounted'
    BY <1>1, <1>4, <1>5 DEF Influx!WritePoints, Influx!Flush, Influx!TypeOK
  <2>2. ErrorsInPlace'
    BY <1>1, <1>5
    DEF ErrorsInPlace, Influx!WritePoints, Influx!Flush, Influx!TypeOK
  <2>3. batches' \in Seq(Influx!Batch)
    <3>1. buffer # {} => buffer \in Influx!Batch
      BY <1>1 DEF Influx!TypeOK, Influx!Batch
    <3>2. buffer # {} => Append(batches, buffer) \in Seq(Influx!Batch)
      BY <1>1, <3>1, AppendProperties DEF Influx!TypeOK
    <3> QED
      BY <1>1, <1>5, <3>2 DEF Influx!WritePoints, Influx!Flush, Influx!TypeOK
  <2>4. Influx!TypeOK'
    BY <1>1, <1>5, <2>3 DEF Influx!WritePoints, Influx!Flush, Influx!TypeOK
  <2> QED
    BY <2>1, <2>2, <2>4 DEF InfluxInv
<1>6. ASSUME NEW c \in Calls,
             Influx!FlushReturns(c) \/ Influx!Listen(c) \/ Influx!AnswerSuccess(c)
      PROVE  InfluxInv'
  <2>1. FewMarked' /\ Accounted'
    BY <1>1, <1>4, <1>6
    DEF Influx!FlushReturns, Influx!Listen, Influx!AnswerSuccess, Influx!TypeOK,
        Influx!library
  <2>2. ErrorsInPlace'
    BY <1>1, <1>6
    DEF ErrorsInPlace, Influx!FlushReturns, Influx!Listen, Influx!AnswerSuccess,
        Influx!TypeOK
  <2>3. Influx!TypeOK'
    BY <1>1, <1>6
    DEF Influx!FlushReturns, Influx!Listen, Influx!AnswerSuccess, Influx!TypeOK,
        Influx!library
  <2> QED
    BY <2>1, <2>2, <2>3 DEF InfluxInv
<1>7. ASSUME NEW c \in Calls, Influx!AnswerError(c) PROVE InfluxInv'
  <2>1. /\ pc[c] = "waiting" /\ errChan[c] # Influx!None
        /\ pc' = [pc EXCEPT ![c] = "error"]
        /\ answer' = [answer EXCEPT ![c] = errChan[c]]
        /\ errChan' = [errChan EXCEPT ![c] = Influx!None]
        /\ UNCHANGED <<writerWaits, buffer, batches, failed, offered, listener, held>>
    BY <1>7 DEF Influx!AnswerError, Influx!library
  <2>2. answer[c] = Influx!None
    BY <1>1, <2>1 DEF ErrorsInPlace
  <2>3. errChan[c] \in Influx!Error /\ Influx!None \in Influx!Error
    BY <1>1 DEF Influx!TypeOK, Influx!Error
  <2>4. /\ IsFiniteSet(Marked(answer'))
        /\ Cardinality(Marked(answer')) = Cardinality(Marked(answer)) + 1
    BY <1>1, <2>1, <2>2, <2>3, MarkOneMore DEF Influx!TypeOK
  <2>5. /\ IsFiniteSet(Marked(errChan'))
        /\ Cardinality(Marked(errChan')) = Cardinality(Marked(errChan)) - 1
    BY <1>1, <2>1, MarkOneLess DEF Influx!TypeOK
  <2>6. FewMarked' /\ Accounted'
    BY <1>1, <1>2, <1>3, <2>1, <2>4, <2>5
  <2>7. ErrorsInPlace' /\ Influx!TypeOK'
    BY <1>1, <2>1, <2>3 DEF ErrorsInPlace, Influx!TypeOK
  <2> QED
    BY <2>6, <2>7 DEF InfluxInv
<1>8. ASSUME NEW c \in Calls, Influx!Take(c) PROVE InfluxInv'
  <2>1. /\ listener[c] = "listening" /\ offered # Influx!None
        /\ listener' = [listener EXCEPT ![c] = "passing"]
        /\ held' = [held EXCEPT ![c] = offered]
        /\ offered' = Influx!None
        /\ UNCHANGED <<writerWaits, pc, buffer, batches, failed, errChan, answer>>
    BY <1>8 DEF Influx!Take, Influx!library
  <2>2. held[c] = Influx!None
    BY <1>1, <2>1 DEF ErrorsInPlace
  <2>3. offered \in Influx!Error /\ Influx!None \in Influx!Error
    BY <1>1 DEF Influx!TypeOK, Influx!Error
  <2>4. /\ IsFiniteSet(Marked(held'))
        /\ Cardinality(Marked(held')) = Cardinality(Marked(held)) + 1
    BY <1>1, <2>1, <2>2, <2>3, MarkOneMore DEF Influx!TypeOK
  <2>5. FewMarked' /\ Accounted'
    BY <1>1, <1>2, <1>3, <2>1, <2>4
  <2>6. ErrorsInPlace' /\ Influx!TypeOK'
    BY <1>1, <2>1, <2>3 DEF ErrorsInPlace, Influx!TypeOK
  <2> QED
    BY <2>5, <2>6 DEF InfluxInv
<1>9. ASSUME NEW c \in Calls, Influx!Pass(c) PROVE InfluxInv'
  <2>1. /\ listener[c] = "passing" /\ errChan[c] = Influx!None
        /\ errChan' = [errChan EXCEPT ![c] = held[c]]
        /\ held' = [held EXCEPT ![c] = Influx!None]
        /\ listener' = [listener EXCEPT ![c] = "listening"]
        /\ UNCHANGED <<writerWaits, pc, buffer, batches, failed, offered, answer>>
    BY <1>9 DEF Influx!Pass, Influx!library, Influx!HasRoom
  <2>2. held[c] # Influx!None
    BY <1>1, <2>1 DEF ErrorsInPlace
  <2>3. held[c] \in Influx!Error /\ Influx!None \in Influx!Error
    BY <1>1 DEF Influx!TypeOK, Influx!Error
  <2>4. /\ IsFiniteSet(Marked(errChan'))
        /\ Cardinality(Marked(errChan')) = Cardinality(Marked(errChan)) + 1
    BY <1>1, <2>1, <2>2, <2>3, MarkOneMore DEF Influx!TypeOK
  <2>5. /\ IsFiniteSet(Marked(held'))
        /\ Cardinality(Marked(held')) = Cardinality(Marked(held)) - 1
    BY <1>1, <2>1, <2>2, MarkOneLess DEF Influx!TypeOK
  <2>6. FewMarked' /\ Accounted'
    BY <1>1, <1>2, <1>3, <2>1, <2>4, <2>5
  <2>7. ErrorsInPlace' /\ Influx!TypeOK'
    BY <1>1, <2>1, <2>3 DEF ErrorsInPlace, Influx!TypeOK
  <2> QED
    BY <2>6, <2>7 DEF InfluxInv
<1>10. CASE Influx!BatchWritten \/ Influx!BatchFails
  <2>1. /\ batches # <<>> /\ batches' = Tail(batches)
        /\ \/ UNCHANGED <<offered, failed>>
           \/ /\ offered = Influx!None
              /\ offered' = Head(batches) /\ failed' = failed + 1
        /\ UNCHANGED <<writerWaits, pc, buffer, listener, held, errChan, answer>>
    BY <1>10 DEF Influx!BatchWritten, Influx!BatchFails
  <2>2. Head(batches) \in Influx!Batch /\ Tail(batches) \in Seq(Influx!Batch)
    BY <1>1, <2>1, HeadTailProperties DEF Influx!TypeOK
  <2>3. Head(batches) # Influx!None /\ Head(batches) \in Influx!Error
    BY <2>2 DEF Influx!Batch, Influx!None, Influx!Error
  <2>4. FewMarked' /\ Accounted'
    BY <1>1, <1>4, <2>1, <2>3 DEF Influx!TypeOK
  <2>5. ErrorsInPlace' /\ Influx!TypeOK'
    BY <1>1, <2>1, <2>2, <2>3 DEF ErrorsInPlace, Influx!TypeOK
  <2> QED
    BY <2>4, <2>5 DEF InfluxInv
<1>11. CASE UNCHANGED writerVars
  <2>1. FewMarked' /\ Accounted'
    BY <1>1, <1>4, <1>11 DEF writerVars, Influx!TypeOK
  <2>2. ErrorsInPlace' /\ Influx!TypeOK'
    BY <1>1, <1>11 DEF writerVars, ErrorsInPlace, Influx!TypeOK
  <2> QED
    BY <2>1, <2>2 DEF InfluxInv
<1> QED
  BY <1>5, <1>6, <1>7, <1>8, <1>9, <1>10, <1>11 DEF Influx!Next, Influx!StoreMetrics

(* A goroutine that cannot send holds one error, and its channel another.    *)
LEMMA StuckHoldsTwo == InfluxInv => StuckTookTwo
<1> SUFFICES ASSUME InfluxInv PROVE 2 * Cardinality(Influx!Stuck) <= failed
  BY DEF StuckTookTwo, Influx!StuckTookTwo, Influx!Cardinality, Cardinality
<1>1. Influx!Stuck \subseteq Marked(held) /\ Influx!Stuck \subseteq Marked(errChan)
  BY DEF InfluxInv, ErrorsInPlace, Influx!Stuck, Influx!Answered, Influx!HasRoom, Marked
<1>2. IsFiniteSet(Marked(held)) /\ IsFiniteSet(Marked(errChan)) /\ IsFiniteSet(Marked(answer))
  BY DEF InfluxInv, FewMarked
<1>3. /\ Cardinality(Influx!Stuck) \in Nat
      /\ Cardinality(Influx!Stuck) <= Cardinality(Marked(held))
      /\ Cardinality(Influx!Stuck) <= Cardinality(Marked(errChan))
  BY <1>1, <1>2, FS_Subset, FS_CardinalityType
<1>4. /\ Cardinality(Marked(held)) \in Nat /\ Cardinality(Marked(errChan)) \in Nat
      /\ Cardinality(Marked(answer)) \in Nat
  BY <1>2, FS_CardinalityType
<1>5. failed >= Cardinality(Marked(held)) + Cardinality(Marked(errChan))
  BY <1>4 DEF InfluxInv, Accounted
<1>6. failed \in Nat
  BY DEF InfluxInv, Influx!TypeOK
<1> QED
  BY <1>3, <1>4, <1>5, <1>6

(* When nobody will take the error, the goroutine of each call that answered *)
(* is stuck, and the error offered is one more than those they hold.         *)
LEMMA UnheardAfterTwo == InfluxInv => UnheardComesLate
<1> SUFFICES ASSUME InfluxInv, Influx!Unheard
             PROVE  failed > 2 * Cardinality(Influx!Answered)
  BY DEF UnheardComesLate, Influx!UnheardComesLate, Influx!Cardinality, Cardinality
<1>1. ASSUME NEW c \in Influx!Answered
      PROVE  held[c] # Influx!None /\ errChan[c] # Influx!None
  <2>1. c \in Calls /\ pc[c] \in {"ok", "error"}
    BY DEF Influx!Answered
  <2>2. listener[c] = "passing"
    BY <2>1 DEF InfluxInv, Influx!TypeOK, ErrorsInPlace, Influx!Unheard
  <2> QED
    BY <2>1, <2>2 DEF InfluxInv, ErrorsInPlace, Influx!Unheard, Influx!HasRoom
<1>2. Influx!Answered \subseteq Marked(held) /\ Influx!Answered \subseteq Marked(errChan)
  BY <1>1 DEF Influx!Answered, Marked
<1>3. IsFiniteSet(Marked(held)) /\ IsFiniteSet(Marked(errChan)) /\ IsFiniteSet(Marked(answer))
  BY DEF InfluxInv, FewMarked
<1>4. /\ Cardinality(Influx!Answered) \in Nat
      /\ Cardinality(Influx!Answered) <= Cardinality(Marked(held))
      /\ Cardinality(Influx!Answered) <= Cardinality(Marked(errChan))
  BY <1>2, <1>3, FS_Subset, FS_CardinalityType
<1>5. /\ Cardinality(Marked(held)) \in Nat /\ Cardinality(Marked(errChan)) \in Nat
      /\ Cardinality(Marked(answer)) \in Nat
  BY <1>3, FS_CardinalityType
<1>6. failed = 1 + Cardinality(Marked(held)) + Cardinality(Marked(errChan))
                 + Cardinality(Marked(answer))
  BY DEF InfluxInv, Accounted, Influx!Unheard
<1> QED
  BY <1>4, <1>5, <1>6
-----------------------------------------------------------------------------
(* A step of the store is a step of the one that main chose, and the other   *)
(* stands still.                                                            *)
LEMMA StoreSteps ==
  [StoreNext]_storeVars => [Next]_vars /\ [Influx!Next]_writerVars /\ UNCHANGED storage
BY DEF StoreNext, OfInflux, storeVars

(* Whichever store serves, it does what it does alone.                       *)
THEOREM ImplementsMemory == StoreSpec => Spec
BY StoreSteps, PTL DEF StoreSpec, StoreInit, Spec

THEOREM ImplementsInflux == StoreSpec => Influx!Spec
<1>1. [Influx!Next]_writerVars => [Influx!Next]_(Influx!vars)
  BY DEF writerVars, Influx!vars
<1> QED
  BY <1>1, StoreSteps, PTL DEF StoreSpec, StoreInit, Influx!Spec

LEMMA InfluxInvariant == StoreSpec => []InfluxInv
BY InfluxInvInit, InfluxInvStep, StoreSteps, PTL DEF StoreSpec, StoreInit

(* The choice stays what main made it, and the variables keep their types.   *)
THEOREM StoreTypes == StoreSpec => []StoreTypeOK
<1>1. StoreInit => storage \in {"memory", "influxdb"}
  BY DEF StoreInit
<1>2. storage \in {"memory", "influxdb"} /\ UNCHANGED storage
        => (storage \in {"memory", "influxdb"})'
  OBVIOUS
<1>3. StoreSpec => [](storage \in {"memory", "influxdb"})
  BY <1>1, <1>2, StoreSteps, PTL DEF StoreSpec
<1> QED
  BY <1>3, InfluxInvariant, ImplementsMemory, MemoryTypes, PTL
  DEF StoreTypeOK, InfluxInv

(* For any number of concurrent calls, the goroutines that hang for good are *)
(* at most half as many as the batches that failed.                          *)
THEOREM FewAreStuck == StoreSpec => []StuckTookTwo
BY InfluxInvariant, StuckHoldsTwo, PTL

(* For any number of concurrent calls, a single failed write does not stop   *)
(* the later ones: nobody takes the writer's error only after more than      *)
(* twice as many batches failed as calls have answered.                      *)
THEOREM WriterIsHeard == StoreSpec => []UnheardComesLate
BY InfluxInvariant, UnheardAfterTwo, PTL
=============================================================================
