------------------------- MODULE SlamPipelineProofs -------------------------
(***************************************************************************)
(* Proofs about the scan queue, for any bag that satisfies                 *)
(* PipelineAssumption: results advance in id and in time, every accepted   *)
(* cloud is accounted for, only missing IMU data holds a cloud back, and   *)
(* only an overlong scan throws (Inv); every window the buffer gives is    *)
(* sound, and the windows of the filter and the deskewed points meet       *)
(* (Cut, which builds on Inv).                                             *)
(***************************************************************************)
EXTENDS SlamPipeline, SequenceTheorems, WellFoundedInduction, TLAPS

-----------------------------------------------------------------------------
(* What the windows of the IMU buffer and the poses of a trajectory are, for *)
(* every buffer whose stamps increase and every range it covers.             *)

\* The stamps of a buffer: naturals that increase.
Increasing(data) ==
    /\ data \in Seq(Nat)
    /\ \A i, j \in 1..Len(data) : i < j => data[i] < data[j]

-----------------------------------------------------------------------------
\* The least element of a set of naturals.
LEMMA LeastNat ==
    ASSUME NEW T, T \subseteq Nat, T # {}
    PROVE  \E m \in T : \A n \in T : m <= n
<1>1. IsWellFoundedOn(OpToRel(<, Nat), Nat)
  BY NatLessThanWellFounded
<1>2. PICK m \in T : \A n \in T : <<n, m>> \notin OpToRel(<, Nat)
  <2> HIDE DEF OpToRel
  <2> QED
    BY <1>1, WFMin, Zenon
<1>3. \A n \in T : ~(n < m)
  BY <1>2 DEF OpToRel
<1> QED
  BY <1>3

LEMMA MinNat ==
    ASSUME NEW T, T \subseteq Nat, T # {}
    PROVE  Min(T) \in T /\ \A n \in T : Min(T) <= n
BY LeastNat DEF Min

\* Where the two binary searches split a sequence of times that do not go back.
LEMMA LowerBoundSplits ==
    ASSUME NEW s \in Seq(Nat), NEW t \in Nat,
           \A i, j \in 1..Len(s) : i < j => s[i] <= s[j]
    PROVE  /\ LowerBound(s, t) \in 1..(Len(s) + 1)
           /\ \A i \in 1..Len(s) : s[i] >= t <=> i >= LowerBound(s, t)
<1> DEFINE T == {i \in 1..Len(s) : s[i] >= t} \union {Len(s) + 1}
<1>1. Len(s) \in Nat /\ \A i \in 1..Len(s) : s[i] \in Nat
  OBVIOUS
<1>2. T \subseteq Nat /\ T # {}
  BY <1>1
<1>3. LowerBound(s, t) = Min(T)
  BY DEF LowerBound
<1>4. Min(T) \in T /\ \A n \in T : Min(T) <= n
  BY <1>2, MinNat
<1>5. ASSUME NEW i \in 1..Len(s), i >= Min(T)
      PROVE  s[i] >= t
  <2>1. Min(T) \in 1..Len(s) /\ s[Min(T)] >= t
    BY <1>1, <1>4, <1>5
  <2> QED
    BY <1>1, <1>5, <2>1
<1> QED
  BY <1>1, <1>3, <1>4, <1>5

LEMMA UpperBoundSplits ==
    ASSUME NEW s \in Seq(Nat), NEW t \in Nat,
           \A i, j \in 1..Len(s) : i < j => s[i] <= s[j]
    PROVE  /\ UpperBound(s, t) \in 1..(Len(s) + 1)
           /\ \A i \in 1..Len(s) : s[i] > t <=> i >= UpperBound(s, t)
<1> DEFINE T == {i \in 1..Len(s) : s[i] > t} \union {Len(s) + 1}
<1>1. Len(s) \in Nat /\ \A i \in 1..Len(s) : s[i] \in Nat
  OBVIOUS
<1>2. T \subseteq Nat /\ T # {}
  BY <1>1
<1>3. UpperBound(s, t) = Min(T)
  BY DEF UpperBound
<1>4. Min(T) \in T /\ \A n \in T : Min(T) <= n
  BY <1>2, MinNat
<1>5. ASSUME NEW i \in 1..Len(s), i >= Min(T)
      PROVE  s[i] > t
  <2>1. Min(T) \in 1..Len(s) /\ s[Min(T)] > t
    BY <1>1, <1>4, <1>5
  <2> QED
    BY <1>1, <1>5, <2>1
<1> QED
  BY <1>1, <1>3, <1>4, <1>5

-----------------------------------------------------------------------------
\* The parts of a window.
From(data, t0) == LowerBound(data, t0)
To(data, t1) == UpperBound(data, t1)

First(data, t0) ==
    IF From(data, t0) = 1 \/ data[From(data, t0)] = t0
    THEN Sample(data, From(data, t0))
    ELSE Interpolate(From(data, t0) - 1, From(data, t0), t0)

LastPart(data, t1) ==
    IF To(data, t1) <= Len(data) /\ data[To(data, t1) - 1] < t1
    THEN <<Interpolate(To(data, t1) - 1, To(data, t1), t1)>>
    ELSE <<>>

InnerLength(data, t0, t1) ==
    IF UpperBound(data, t0) <= LowerBound(data, t1)
    THEN LowerBound(data, t1) - UpperBound(data, t0)
    ELSE 0

Elements == [t : Nat, lo : Nat, hi : Nat]

\* A blend of two neighbouring samples strictly around the time t.
Blend(data, e, t) ==
    /\ e.t = t
    /\ e.lo \in 1..Len(data) /\ e.hi \in 1..Len(data)
    /\ e.hi = e.lo + 1
    /\ data[e.lo] < t /\ t < data[e.hi]

LEMMA WindowParts ==
    ASSUME NEW data, NEW t0, NEW t1
    PROVE  GetBetween(data, t0, t1)
               = <<First(data, t0)>> \o Interior(data, t0, t1) \o LastPart(data, t1)
BY DEF GetBetween, First, LastPart, From, To

\* What the searches find in a buffer that covers [t0, t1].
LEMMA SearchFacts ==
    ASSUME NEW data, NEW t0 \in Nat, NEW t1 \in Nat, Increasing(data),
           t0 <= t1, Covers(data, t0, t1)
    PROVE  /\ data \in Seq(Nat) /\ Len(data) \in Nat \ {0}
           /\ \A i \in 1..Len(data) : data[i] \in Nat
           /\ LowerBound(data, t0) \in 1..Len(data)
           /\ LowerBound(data, t1) \in 1..Len(data)
           /\ UpperBound(data, t0) \in 1..(Len(data) + 1)
           /\ UpperBound(data, t1) \in 2..(Len(data) + 1)
           /\ \A i \in 1..Len(data) : data[i] >= t0 <=> i >= LowerBound(data, t0)
           /\ \A i \in 1..Len(data) : data[i] >= t1 <=> i >= LowerBound(data, t1)
           /\ \A i \in 1..Len(data) : data[i] > t0 <=> i >= UpperBound(data, t0)
           /\ \A i \in 1..Len(data) : data[i] > t1 <=> i >= UpperBound(data, t1)
           /\ data[1] <= t0 /\ data[Len(data)] >= t1
<1>1. /\ data \in Seq(Nat) /\ Len(data) \in Nat \ {0}
      /\ \A i \in 1..Len(data) : data[i] \in Nat
      /\ \A i, j \in 1..Len(data) : i < j => data[i] < data[j]
      /\ data[1] <= t0 /\ data[Len(data)] >= t1
  BY DEF Increasing, Covers
<1>2. \A i, j \in 1..Len(data) : i < j => data[i] <= data[j]
  BY <1>1
<1>3. /\ LowerBound(data, t0) \in 1..(Len(data) + 1)
      /\ \A i \in 1..Len(data) : data[i] >= t0 <=> i >= LowerBound(data, t0)
      /\ LowerBound(data, t1) \in 1..(Len(data) + 1)
      /\ \A i \in 1..Len(data) : data[i] >= t1 <=> i >= LowerBound(data, t1)
  BY <1>1, <1>2, LowerBoundSplits
<1>4. /\ UpperBound(data, t0) \in 1..(Len(data) + 1)
      /\ \A i \in 1..Len(data) : data[i] > t0 <=> i >= UpperBound(data, t0)
      /\ UpperBound(data, t1) \in 1..(Len(data) + 1)
      /\ \A i \in 1..Len(data) : data[i] > t1 <=> i >= UpperBound(data, t1)
  BY <1>1, <1>2, UpperBoundSplits
<1>5. 1 \in 1..Len(data) /\ Len(data) \in 1..Len(data)
      /\ data[1] \in Nat /\ data[Len(data)] \in Nat
  BY <1>1
<1>6. data[Len(data)] >= t0 /\ ~(data[1] > t1)
  BY <1>1, <1>5
<1>7. /\ Len(data) >= LowerBound(data, t0) /\ Len(data) >= LowerBound(data, t1)
      /\ ~(1 >= UpperBound(data, t1))
  BY <1>1, <1>3, <1>4, <1>5, <1>6
<1>8. /\ LowerBound(data, t0) \in 1..Len(data)
      /\ LowerBound(data, t1) \in 1..Len(data)
      /\ UpperBound(data, t1) \in 2..(Len(data) + 1)
  BY <1>1, <1>3, <1>4, <1>7
<1> QED
  BY <1>1, <1>3, <1>4, <1>8

LEMMA FirstFacts ==
    ASSUME NEW data, NEW t0 \in Nat, NEW t1 \in Nat, Increasing(data),
           t0 <= t1, Covers(data, t0, t1)
    PROVE  /\ First(data, t0) \in Elements
           /\ First(data, t0).t = t0
           /\ \/ First(data, t0).lo = First(data, t0).hi
              \/ Blend(data, First(data, t0), t0)
<1> DEFINE lb == LowerBound(data, t0)
<1>1. /\ Len(data) \in Nat \ {0}
      /\ \A i \in 1..Len(data) : data[i] \in Nat
      /\ lb \in 1..Len(data) /\ \A i \in 1..Len(data) : data[i] >= t0 <=> i >= lb
      /\ data[1] <= t0
  BY SearchFacts
<1>2. First(data, t0) = IF lb = 1 \/ data[lb] = t0 THEN Sample(data, lb)
                        ELSE Interpolate(lb - 1, lb, t0)
  BY DEF First, From
<1> HIDE DEF lb
<1>3. data[lb] \in Nat /\ data[lb] >= t0
  BY <1>1
<1>4. CASE lb = 1 \/ data[lb] = t0
  <2>1. data[lb] = t0
    BY <1>1, <1>3, <1>4
  <2> QED
    BY <1>1, <1>2, <1>4, <2>1 DEF Sample, Elements
<1>5. CASE ~(lb = 1 \/ data[lb] = t0)
  <2>1. lb - 1 \in 1..Len(data) /\ ~(lb - 1 >= lb)
    BY <1>1, <1>5
  <2>2. ~(data[lb - 1] >= t0) /\ data[lb - 1] \in Nat
    BY <1>1, <2>1
  <2>3. data[lb - 1] < t0 /\ t0 < data[lb]
    BY <1>3, <1>5, <2>2
  <2>4. First(data, t0) = [t |-> t0, lo |-> lb - 1, hi |-> lb]
    BY <1>2, <1>5 DEF Interpolate
  <2> QED
    BY <1>1, <2>1, <2>3, <2>4 DEF Blend, Elements
<1> QED
  BY <1>4, <1>5

LEMMA LastPartFacts ==
    ASSUME NEW data, NEW t0 \in Nat, NEW t1 \in Nat, Increasing(data),
           t0 <= t1, Covers(data, t0, t1)
    PROVE  \/ LastPart(data, t1) = <<>> /\ \E i \in 1..Len(data) : data[i] = t1
           \/ \E e \in Elements : LastPart(data, t1) = <<e>> /\ Blend(data, e, t1)
<1> DEFINE ub == UpperBound(data, t1)
<1>1. /\ Len(data) \in Nat \ {0}
      /\ \A i \in 1..Len(data) : data[i] \in Nat
      /\ ub \in 2..(Len(data) + 1) /\ \A i \in 1..Len(data) : data[i] > t1 <=> i >= ub
      /\ data[Len(data)] >= t1
  BY SearchFacts
<1>2. LastPart(data, t1) = IF ub <= Len(data) /\ data[ub - 1] < t1
                           THEN <<Interpolate(ub - 1, ub, t1)>> ELSE <<>>
  BY DEF LastPart, To
<1> HIDE DEF ub
<1>3. ub - 1 \in 1..Len(data) /\ ~(ub - 1 >= ub)
  BY <1>1
<1>4. data[ub - 1] \in Nat /\ ~(data[ub - 1] > t1)
  BY <1>1, <1>3
<1>5. CASE ub <= Len(data) /\ data[ub - 1] < t1
  <2>1. ub \in 1..Len(data) /\ ub >= ub
    BY <1>1, <1>5
  <2>2. data[ub] \in Nat /\ data[ub] > t1
    BY <1>1, <2>1
  <2> DEFINE e == [t |-> t1, lo |-> ub - 1, hi |-> ub]
  <2>3. e \in Elements /\ LastPart(data, t1) = <<e>>
    BY <1>1, <1>2, <1>5 DEF Interpolate, Elements
  <2>4. Blend(data, e, t1)
    BY <1>1, <1>3, <1>5, <2>1, <2>2 DEF Blend
  <2> QED
    BY <2>3, <2>4
<1>6. CASE ~(ub <= Len(data) /\ data[ub - 1] < t1)
  <2>1. data[ub - 1] = t1
    <3>1. CASE ub <= Len(data)
      BY <1>4, <1>6, <3>1
    <3>2. CASE ub = Len(data) + 1
      <4>1. ub - 1 = Len(data)
        BY <1>1, <3>2
      <4> QED
        BY <1>1, <1>4, <4>1
    <3> QED
      BY <1>1, <3>1, <3>2
  <2> QED
    BY <1>2, <1>3, <1>6, <2>1
<1> QED
  BY <1>5, <1>6

LEMMA InteriorFacts ==
    ASSUME NEW data, NEW t0 \in Nat, NEW t1 \in Nat, Increasing(data),
           t0 <= t1, Covers(data, t0, t1),
           NEW from, from = UpperBound(data, t0),
           NEW n, n = InnerLength(data, t0, t1)
    PROVE  /\ n \in Nat /\ from \in 1..(Len(data) + 1)
           /\ Interior(data, t0, t1) \in Seq(Elements)
           /\ Len(Interior(data, t0, t1)) = n
           /\ \A k \in 1..n : /\ Interior(data, t0, t1)[k] = Sample(data, from + k - 1)
                              /\ from + k - 1 \in 1..Len(data)
                              /\ t0 < data[from + k - 1] /\ data[from + k - 1] < t1
           /\ \A i \in 1..Len(data) :
                  t0 < data[i] /\ data[i] < t1 => i - from + 1 \in 1..n
<1> DEFINE lb == LowerBound(data, t1)
           all == [i \in 1..Len(data) |-> Sample(data, i)]
<1>1. /\ Len(data) \in Nat \ {0}
      /\ \A i \in 1..Len(data) : data[i] \in Nat
      /\ lb \in 1..Len(data) /\ \A i \in 1..Len(data) : data[i] >= t1 <=> i >= lb
      /\ from \in 1..(Len(data) + 1) /\ \A i \in 1..Len(data) : data[i] > t0 <=> i >= from
  BY SearchFacts
<1>2. n = IF from <= lb THEN lb - from ELSE 0
  BY DEF InnerLength
<1>3. Interior(data, t0, t1) = SubSeq(all, from, lb - 1)
  BY DEF Interior, Samples
<1> HIDE DEF lb
<1>4. n \in Nat /\ 1..(lb - 1 - from + 1) = 1..n /\ from..(lb - 1) \subseteq 1..Len(data)
  BY <1>1, <1>2
<1>5. ASSUME NEW k \in 1..n
      PROVE  /\ from + k - 1 \in 1..Len(data)
             /\ t0 < data[from + k - 1] /\ data[from + k - 1] < t1
             /\ data[from + k - 1] \in Nat
  <2>1. from + k - 1 \in 1..Len(data) /\ from + k - 1 >= from /\ ~(from + k - 1 >= lb)
    BY <1>1, <1>2
  <2>2. data[from + k - 1] > t0 /\ ~(data[from + k - 1] >= t1) /\ data[from + k - 1] \in Nat
    BY <1>1, <2>1
  <2> QED
    BY <2>1, <2>2
<1>6. \A i \in 1..Len(data) : t0 < data[i] /\ data[i] < t1 => i - from + 1 \in 1..n
  <2> SUFFICES ASSUME NEW i \in 1..Len(data), t0 < data[i], data[i] < t1
               PROVE  i - from + 1 \in 1..n
    OBVIOUS
  <2>1. data[i] \in Nat
    BY <1>1
  <2>2. data[i] > t0 /\ ~(data[i] >= t1)
    BY <2>1
  <2>3. i >= from /\ ~(i >= lb)
    BY <1>1, <2>2
  <2> QED
    BY <1>1, <1>2, <2>3
<1>7. \A i \in 1..Len(data) : all[i] = Sample(data, i) /\ all[i] \in Elements
  BY <1>1 DEF Sample, Elements
<1> HIDE DEF all
<1>8. \A i \in from..(lb - 1) : all[i] \in Elements
  BY <1>4, <1>7
<1>9. /\ SubSeq(all, from, lb - 1) \in Seq(Elements)
      /\ Len(SubSeq(all, from, lb - 1)) = IF from <= lb - 1 THEN lb - 1 - from + 1 ELSE 0
      /\ \A k \in 1..(lb - 1 - from + 1) : SubSeq(all, from, lb - 1)[k] = all[from + k - 1]
  <2>1. from \in Int /\ lb - 1 \in Int
    BY <1>1
  <2> QED
    BY <1>8, <2>1, SubSeqProperties
<1>10. Len(SubSeq(all, from, lb - 1)) = n
  BY <1>1, <1>2, <1>9
<1>11. \A k \in 1..n : SubSeq(all, from, lb - 1)[k] = Sample(data, from + k - 1)
  BY <1>4, <1>5, <1>7, <1>9
<1> QED
  BY <1>1, <1>3, <1>4, <1>5, <1>6, <1>9, <1>10, <1>11

\* An element, a sequence and at most one element, joined.
LEMMA Joined ==
    ASSUME NEW S, NEW a \in S, NEW s \in Seq(S), NEW b \in Seq(S),
           b = <<>> \/ \E e \in S : b = <<e>>
    PROVE  /\ <<a>> \o s \o b \in Seq(S)
           /\ Len(<<a>> \o s \o b) = Len(s) + 1 + Len(b)
           /\ (<<a>> \o s \o b)[1] = a
           /\ \A k \in 1..Len(s) : (<<a>> \o s \o b)[k + 1] = s[k]
           /\ b # <<>> => (<<a>> \o s \o b)[Len(s) + 2] = b[1]
<1> DEFINE h == <<a>> \o s
           w == h \o b
<1>1. Len(s) \in Nat /\ <<a>> \in Seq(S) /\ Len(<<a>>) = 1 /\ <<a>>[1] = a
  OBVIOUS
<1>2. /\ h \in Seq(S) /\ Len(h) = 1 + Len(s)
      /\ \A i \in 1..(1 + Len(s)) : h[i] = IF i <= 1 THEN <<a>>[i] ELSE s[i - 1]
  BY <1>1, ConcatProperties
<1> HIDE DEF h
<1>3. h[1] = a
  BY <1>1, <1>2
<1>4. ASSUME NEW k \in 1..Len(s)
      PROVE  h[k + 1] = s[k]
  <2>1. k + 1 \in 1..(1 + Len(s)) /\ ~(k + 1 <= 1) /\ (k + 1) - 1 = k
    BY <1>1
  <2> QED
    BY <1>2, <2>1
<1>5. /\ w \in Seq(S) /\ Len(w) = Len(h) + Len(b)
      /\ \A i \in 1..(Len(h) + Len(b)) : w[i] = IF i <= Len(h) THEN h[i] ELSE b[i - Len(h)]
  BY <1>2, ConcatProperties
<1>6. Len(b) \in Nat /\ (b # <<>> => Len(b) = 1)
  OBVIOUS
<1> HIDE DEF w
<1>7. w[1] = a
  <2>1. 1 \in 1..(Len(h) + Len(b)) /\ 1 <= Len(h)
    BY <1>1, <1>2, <1>6
  <2> QED
    BY <1>3, <1>5, <2>1
<1>8. ASSUME NEW k \in 1..Len(s)
      PROVE  w[k + 1] = s[k]
  <2>1. k + 1 \in 1..(Len(h) + Len(b)) /\ k + 1 <= Len(h)
    BY <1>1, <1>2, <1>6
  <2> QED
    BY <1>4, <1>5, <2>1
<1>9. ASSUME b # <<>>
      PROVE  w[Len(s) + 2] = b[1]
  <2>1. /\ Len(s) + 2 \in 1..(Len(h) + Len(b)) /\ ~(Len(s) + 2 <= Len(h))
        /\ (Len(s) + 2) - Len(h) = 1
    BY <1>1, <1>2, <1>6, <1>9
  <2> QED
    BY <1>5, <2>1
<1>10. Len(w) = Len(s) + 1 + Len(b)
  BY <1>1, <1>2, <1>5, <1>6
<1> QED
  BY <1>5, <1>7, <1>8, <1>9, <1>10 DEF w, h

\* A window, element by element: it begins at t0, goes on with the n samples
\* strictly inside, and ends at t1 unless a sample is stamped t1.
Shape(data, t0, t1, w, from, n) ==
    /\ n \in Nat /\ from \in 1..(Len(data) + 1)
    /\ w \in Seq(Elements)
    /\ w[1].t = t0
    /\ w[1].lo = w[1].hi \/ Blend(data, w[1], t0)
    /\ \A k \in 1..n : /\ w[k + 1] = Sample(data, from + k - 1)
                       /\ from + k - 1 \in 1..Len(data)
                       /\ t0 < data[from + k - 1] /\ data[from + k - 1] < t1
    /\ \A i \in 1..Len(data) : t0 < data[i] /\ data[i] < t1 => i - from + 1 \in 1..n
    /\ \/ Len(w) = n + 1 /\ \E i \in 1..Len(data) : data[i] = t1
       \/ Len(w) = n + 2 /\ Blend(data, w[n + 2], t1)

LEMMA WindowShape ==
    ASSUME NEW data, NEW t0 \in Nat, NEW t1 \in Nat, Increasing(data),
           t0 <= t1, Covers(data, t0, t1)
    PROVE  Shape(data, t0, t1, GetBetween(data, t0, t1), UpperBound(data, t0),
                 InnerLength(data, t0, t1))
<1> DEFINE w == GetBetween(data, t0, t1)
           from == UpperBound(data, t0)
           n == InnerLength(data, t0, t1)
<1> DEFINE first == First(data, t0)
           inner == Interior(data, t0, t1)
           last == LastPart(data, t1)
<1>1. /\ first \in Elements /\ first.t = t0
      /\ first.lo = first.hi \/ Blend(data, first, t0)
  BY FirstFacts
<1>2. /\ n \in Nat /\ from \in 1..(Len(data) + 1)
      /\ inner \in Seq(Elements) /\ Len(inner) = n
      /\ \A k \in 1..n : /\ inner[k] = Sample(data, from + k - 1)
                         /\ from + k - 1 \in 1..Len(data)
                         /\ t0 < data[from + k - 1] /\ data[from + k - 1] < t1
      /\ \A i \in 1..Len(data) : t0 < data[i] /\ data[i] < t1 => i - from + 1 \in 1..n
  BY InteriorFacts
<1>3. \/ last = <<>> /\ \E i \in 1..Len(data) : data[i] = t1
      \/ \E e \in Elements : last = <<e>> /\ Blend(data, e, t1)
  BY LastPartFacts
<1>4. w = <<first>> \o inner \o last
  BY WindowParts
<1> HIDE DEF first, inner, last, w, from, n
<1>5. last \in Seq(Elements) /\ (last = <<>> \/ \E e \in Elements : last = <<e>>)
  <2>1. CASE last = <<>>
    BY <2>1
  <2>2. CASE \E e \in Elements : last = <<e>>
    BY <2>2
  <2> QED
    BY <1>3, <2>1, <2>2
<1>6. /\ w \in Seq(Elements) /\ Len(w) = n + 1 + Len(last)
      /\ w[1] = first /\ \A k \in 1..n : w[k + 1] = inner[k]
      /\ last # <<>> => w[n + 2] = last[1]
  <2>1. first \in Elements /\ inner \in Seq(Elements) /\ Len(inner) = n /\ n \in Nat
    BY <1>1, <1>2
  <2>2. /\ <<first>> \o inner \o last \in Seq(Elements)
        /\ Len(<<first>> \o inner \o last) = Len(inner) + 1 + Len(last)
        /\ (<<first>> \o inner \o last)[1] = first
        /\ \A k \in 1..Len(inner) : (<<first>> \o inner \o last)[k + 1] = inner[k]
        /\ last # <<>> => (<<first>> \o inner \o last)[Len(inner) + 2] = last[1]
    <3>1. last \in Seq(Elements) /\ (last = <<>> \/ \E e \in Elements : last = <<e>>)
      BY <1>5
    <3> HIDE <1>5
    <3> QED
      BY <2>1, <3>1, Joined
  <2> QED
    BY <1>4, <2>1, <2>2
<1>7. \/ Len(w) = n + 1 /\ \E i \in 1..Len(data) : data[i] = t1
      \/ Len(w) = n + 2 /\ Blend(data, w[n + 2], t1)
  <2>1. CASE last = <<>> /\ \E i \in 1..Len(data) : data[i] = t1
    BY <1>2, <1>6, <2>1
  <2>2. CASE \E e \in Elements : last = <<e>> /\ Blend(data, e, t1)
    <3>1. PICK e \in Elements : last = <<e>> /\ Blend(data, e, t1)
      BY <2>2
    <3>2. Len(last) = 1 /\ last # <<>> /\ last[1] = e
      BY <3>1
    <3> QED
      BY <1>2, <1>6, <3>1, <3>2
  <2> QED
    BY <1>3, <2>1, <2>2
<1>8. Shape(data, t0, t1, w, from, n)
  BY <1>1, <1>2, <1>6, <1>7 DEF Shape
<1> QED
  BY <1>8 DEF w, from, n

\* The times of a window: a window has at least one element, its times are
\* naturals that do not go back, and increase if it is longer than an instant.
LEMMA WindowTimes ==
    ASSUME NEW data, NEW t0 \in Nat, NEW t1 \in Nat, Increasing(data),
           t0 <= t1, NEW w, NEW from, NEW n, Shape(data, t0, t1, w, from, n)
    PROVE  /\ Len(w) \in Nat \ {0}
           /\ \A k \in 1..Len(w) : w[k].t \in t0..t1
           /\ \A k, m \in 1..Len(w) : k < m => w[k].t <= w[m].t
           /\ t0 < t1 => \A k, m \in 1..Len(w) : k < m => w[k].t < w[m].t
<1>1. /\ n \in Nat /\ from \in 1..(Len(data) + 1)
      /\ w[1].t = t0
      /\ \A k \in 1..n : /\ w[k + 1] = Sample(data, from + k - 1)
                         /\ from + k - 1 \in 1..Len(data)
                         /\ t0 < data[from + k - 1] /\ data[from + k - 1] < t1
      /\ \/ Len(w) = n + 1
         \/ Len(w) = n + 2 /\ w[n + 2].t = t1
  BY DEF Shape, Blend
<1>2. /\ Len(data) \in Nat /\ \A i \in 1..Len(data) : data[i] \in Nat
      /\ \A i, j \in 1..Len(data) : i < j => data[i] < data[j]
  BY DEF Increasing
<1>3. ASSUME NEW k \in 2..(n + 1)
      PROVE  /\ from + k - 2 \in 1..Len(data) /\ w[k].t = data[from + k - 2]
             /\ w[k].t \in Nat /\ t0 < w[k].t /\ w[k].t < t1
  <2>1. k - 1 \in 1..n /\ (k - 1) + 1 = k /\ from + (k - 1) - 1 = from + k - 2
    BY <1>1
  <2>2. w[k] = Sample(data, from + k - 2) /\ from + k - 2 \in 1..Len(data)
        /\ t0 < data[from + k - 2] /\ data[from + k - 2] < t1
    BY <1>1, <2>1
  <2> QED
    BY <1>2, <2>2 DEF Sample
<1>4. \A k \in 1..Len(w) : w[k].t \in t0..t1
  <2> SUFFICES ASSUME NEW k \in 1..Len(w)
               PROVE  w[k].t \in t0..t1
    OBVIOUS
  <2>1. CASE k = 1
    BY <1>1, <2>1
  <2>2. CASE k \in 2..(n + 1)
    BY <1>3, <2>2
  <2>3. CASE k = n + 2
    BY <1>1, <2>3
  <2> QED
    BY <1>1, <2>1, <2>2, <2>3
<1>5. ASSUME NEW k \in 1..Len(w), NEW m \in 1..Len(w), k < m
      PROVE  w[k].t <= w[m].t /\ (t0 < t1 => w[k].t < w[m].t)
  <2>1. CASE m \in 2..(n + 1)
    <3>1. CASE k = 1
      <4>1. w[k].t = t0 /\ w[m].t \in Nat /\ t0 < w[m].t
        BY <1>1, <1>3, <2>1, <3>1
      <4> QED
        BY <4>1
    <3>2. CASE k \in 2..(n + 1)
      <4>1. /\ from + k - 2 \in 1..Len(data) /\ w[k].t = data[from + k - 2]
            /\ from + m - 2 \in 1..Len(data) /\ w[m].t = data[from + m - 2]
        BY <1>3, <2>1, <3>2
      <4>2. from + k - 2 < from + m - 2
        BY <1>1, <1>5
      <4>3. data[from + k - 2] < data[from + m - 2]
        BY <1>2, <4>1, <4>2
      <4>4. data[from + k - 2] \in Nat /\ data[from + m - 2] \in Nat
        BY <1>2, <4>1
      <4> QED
        BY <4>1, <4>3, <4>4
    <3> QED
      BY <1>1, <1>5, <2>1, <3>1, <3>2
  <2>2. CASE m = n + 2
    <3>1. w[m].t = t1
      BY <1>1, <2>2
    <3>2. CASE k = 1
      BY <1>1, <3>1, <3>2
    <3>3. CASE k \in 2..(n + 1)
      BY <1>3, <3>1, <3>3
    <3> QED
      BY <1>1, <1>5, <2>2, <3>2, <3>3
  <2> QED
    BY <1>1, <1>5, <2>1, <2>2
<1>6. Len(w) \in Nat \ {0}
  BY <1>1
<1> QED
  BY <1>4, <1>5, <1>6

\* Every range that a buffer covers has a sound window (buffer.cpp:14-84).
THEOREM WindowSound ==
    ASSUME NEW data, NEW t0 \in Nat, NEW t1 \in Nat, Increasing(data),
           t0 <= t1, Covers(data, t0, t1)
    PROVE  SoundWindow(data, t0, t1)
<1> DEFINE w == GetBetween(data, t0, t1)
           from == UpperBound(data, t0)
           n == InnerLength(data, t0, t1)
<1>0. Shape(data, t0, t1, w, from, n)
  BY WindowShape
<1> HIDE DEF w, from, n
<1>1. /\ n \in Nat /\ from \in 1..(Len(data) + 1)
      /\ w[1].t = t0
      /\ w[1].lo = w[1].hi \/ Blend(data, w[1], t0)
      /\ \A k \in 1..n : w[k + 1] = Sample(data, from + k - 1)
      /\ \A i \in 1..Len(data) : t0 < data[i] /\ data[i] < t1 => i - from + 1 \in 1..n
      /\ \/ Len(w) = n + 1
         \/ Len(w) = n + 2 /\ Blend(data, w[n + 2], t1)
  BY <1>0 DEF Shape
<1>2. /\ Len(w) \in Nat \ {0}
      /\ \A k \in 1..Len(w) : w[k].t \in t0..t1
      /\ \A k, m \in 1..Len(w) : k < m => w[k].t <= w[m].t
      /\ t0 < t1 => \A k, m \in 1..Len(w) : k < m => w[k].t < w[m].t
  BY <1>0, WindowTimes
<1>3. Len(data) \in Nat
  BY DEF Increasing
<1>4. \A k \in 1..(Len(w) - 1) : w[k].t <= w[k + 1].t
  BY <1>2
<1>5. ASSUME NEW i \in 1..Len(data), t0 < data[i], data[i] < t1
      PROVE  \E k \in 1..Len(w) : w[k] = Sample(data, i)
  <2>1. i - from + 1 \in 1..n
    BY <1>1, <1>5
  <2>2. from + (i - from + 1) - 1 = i
    BY <1>1
  <2>3. w[(i - from + 1) + 1] = Sample(data, i)
    BY <1>1, <2>1, <2>2
  <2>4. (i - from + 1) + 1 \in 1..Len(w)
    BY <1>1, <2>1
  <2> QED
    BY <2>3, <2>4
<1>6. ASSUME NEW k \in 1..Len(w), NEW m \in 1..Len(w), w[k] = w[m], k # m
      PROVE  t0 = t1
  <2>1. ~(t0 < t1)
    <3>1. k < m \/ m < k
      BY <1>2, <1>6
    <3> QED
      BY <1>2, <1>6, <3>1
  <2> QED
    BY <2>1
<1>7. ASSUME NEW k \in 1..Len(w), w[k].lo # w[k].hi
      PROVE  /\ w[k].hi = w[k].lo + 1
             /\ data[w[k].lo] < w[k].t
             /\ w[k].t < data[w[k].hi]
  <2>1. CASE k = 1
    BY <1>1, <1>7, <2>1 DEF Blend
  <2>2. CASE k \in 2..(n + 1)
    <3>0. n \in Nat
      BY <1>1
    <3>1. k - 1 \in 1..n /\ (k - 1) + 1 = k
      BY <2>2, <3>0
    <3>2. w[k] = Sample(data, from + (k - 1) - 1)
      BY <1>1, <3>1
    <3> QED
      BY <1>7, <3>2 DEF Sample
  <2>3. CASE k = n + 2
    BY <1>1, <1>2, <2>3 DEF Blend
  <2> QED
    BY <1>1, <1>2, <2>1, <2>2, <2>3
<1> QED
  BY <1>1, <1>4, <1>5, <1>6, <1>7 DEF SoundWindow, w

-----------------------------------------------------------------------------
\* Where a window ends: at t1, or, when a sample is stamped t1, with no sample
\* between its end and t1.
LEMMA WindowEnd ==
    ASSUME NEW data, NEW t0 \in Nat, NEW t1 \in Nat, Increasing(data),
           t0 <= t1, Covers(data, t0, t1),
           NEW w, w = GetBetween(data, t0, t1)
    PROVE  /\ Len(w) \in Nat \ {0} /\ w[1].t = t0 /\ w[Len(w)].t \in t0..t1
           /\ \/ w[Len(w)].t = t1
              \/ /\ \E i \in 1..Len(data) : data[i] = t1
                 /\ \A i \in 1..Len(data) : data[i] < t1 => data[i] <= w[Len(w)].t
                 /\ w[Len(w)].t = t0 \/ \E i \in 1..Len(data) : data[i] = w[Len(w)].t
<1> DEFINE from == UpperBound(data, t0)
           n == InnerLength(data, t0, t1)
<1>0. Shape(data, t0, t1, w, from, n)
  BY WindowShape
<1> HIDE DEF from, n
<1>1. /\ n \in Nat /\ from \in 1..(Len(data) + 1)
      /\ w[1].t = t0
      /\ \A k \in 1..n : /\ w[k + 1] = Sample(data, from + k - 1)
                         /\ from + k - 1 \in 1..Len(data)
      /\ \A i \in 1..Len(data) : t0 < data[i] /\ data[i] < t1 => i - from + 1 \in 1..n
      /\ \/ Len(w) = n + 1 /\ \E i \in 1..Len(data) : data[i] = t1
         \/ Len(w) = n + 2 /\ w[n + 2].t = t1
  BY <1>0 DEF Shape, Blend
<1>2. /\ Len(w) \in Nat \ {0}
      /\ \A k \in 1..Len(w) : w[k].t \in t0..t1
      /\ \A k, m \in 1..Len(w) : k < m => w[k].t <= w[m].t
  BY <1>0, WindowTimes
<1>3. Len(data) \in Nat /\ \A i \in 1..Len(data) : data[i] \in Nat
  BY DEF Increasing
<1>4. CASE Len(w) = n + 2 /\ w[n + 2].t = t1
  BY <1>1, <1>2, <1>4
<1>5. CASE Len(w) = n + 1 /\ \E i \in 1..Len(data) : data[i] = t1
  <2>1. ASSUME NEW i \in 1..Len(data), data[i] < t1
        PROVE  data[i] <= w[n + 1].t
    <3>1. n + 1 \in 1..Len(w) /\ w[n + 1].t \in t0..t1 /\ data[i] \in Nat
      BY <1>1, <1>2, <1>3, <1>5
    <3>2. CASE data[i] <= t0
      BY <3>1, <3>2
    <3>3. CASE t0 < data[i]
      <4>1. i - from + 1 \in 1..n
        BY <1>1, <2>1, <3>3
      <4> DEFINE k == i - from + 1
      <4>2. k \in 1..n /\ from + k - 1 = i
        BY <1>1, <4>1
      <4> HIDE DEF k
      <4>3. w[k + 1].t = data[i]
        <5>1. w[k + 1] = Sample(data, i)
          BY <1>1, <4>2
        <5> QED
          BY <5>1 DEF Sample
      <4>4. k + 1 \in 1..Len(w) /\ (k + 1 < n + 1 \/ k + 1 = n + 1)
        BY <1>1, <1>5, <4>2
      <4>5. w[k + 1].t <= w[n + 1].t
        BY <1>2, <3>1, <4>3, <4>4
      <4> QED
        BY <4>3, <4>5
    <3> QED
      BY <3>1, <3>2, <3>3
  <2>2. w[n + 1].t = t0 \/ \E i \in 1..Len(data) : data[i] = w[n + 1].t
    <3>1. CASE n = 0
      BY <1>1, <3>1
    <3>2. CASE n # 0
      <4>1. n \in 1..n
        BY <1>1, <3>2
      <4>2. w[n + 1] = Sample(data, from + n - 1) /\ from + n - 1 \in 1..Len(data)
        BY <1>1, <4>1
      <4> QED
        BY <4>2 DEF Sample
    <3> QED
      BY <3>1, <3>2
  <2>3. n + 1 \in 1..Len(w)
    BY <1>1, <1>5
  <2> QED
    BY <1>1, <1>2, <1>5, <2>1, <2>2, <2>3
<1> QED
  BY <1>1, <1>4, <1>5

\* A trajectory has the times of its window.
LEMMA TrajectoryTimes ==
    ASSUME NEW data, NEW t0 \in Nat, NEW t1 \in Nat, Increasing(data),
           t0 <= t1, Covers(data, t0, t1),
           NEW w, w = GetBetween(data, t0, t1)
    PROVE  /\ Trajectory(data, t0, t1) \in Seq(Nat)
           /\ Len(Trajectory(data, t0, t1)) = Len(w)
           /\ \A k \in 1..Len(w) : Trajectory(data, t0, t1)[k] = w[k].t
           /\ \A k, m \in 1..Len(w) : k < m => w[k].t <= w[m].t
           /\ Len(w) \in Nat \ {0} /\ \A k \in 1..Len(w) : w[k].t \in Nat
<1>1. /\ Len(w) \in Nat \ {0}
      /\ \A k \in 1..Len(w) : w[k].t \in t0..t1
      /\ \A k, m \in 1..Len(w) : k < m => w[k].t <= w[m].t
  BY WindowShape, WindowTimes
<1>2. Trajectory(data, t0, t1) = [k \in 1..Len(w) |-> w[k].t]
  BY DEF Trajectory
<1> DEFINE f == [k \in 1..Len(w) |-> w[k].t]
<1>3. f \in [1..Len(w) -> Nat] /\ \A k \in 1..Len(w) : f[k] = w[k].t
  BY <1>1
<1> HIDE DEF f
<1>4. f \in Seq(Nat) /\ Len(f) = Len(w)
  BY <1>1, <1>3
<1>5. Trajectory(data, t0, t1) = f
  BY <1>2 DEF f
<1> QED
  BY <1>1, <1>3, <1>4, <1>5

\* What interpolate_pose() returns for a time at or after the first pose.
LEMMA PoseFacts ==
    ASSUME NEW s \in Seq(Nat), Len(s) # 0, NEW t \in Nat, s[1] <= t,
           \A i, j \in 1..Len(s) : i < j => s[i] <= s[j],
           NEW pose, pose = InterpolatePose(s, t)
    PROVE  /\ pose.lo # pose.hi => /\ pose.hi = pose.lo + 1
                                   /\ s[pose.lo] <= t /\ t < s[pose.hi]
           /\ pose.t = t \/ (s[Len(s)] < t /\ pose.t = s[Len(s)])
<1> DEFINE last == Len(s)
           hi == UpperBound(s, t)
<1>1. last \in Nat \ {0} /\ \A i \in 1..last : s[i] \in Nat
  OBVIOUS
<1>2. hi \in 1..(last + 1) /\ \A i \in 1..last : s[i] > t <=> i >= hi
  BY UpperBoundSplits
<1>3. pose = CASE t <= s[1]    -> [t |-> s[1], lo |-> 1, hi |-> 1]
               [] t >= s[last] -> [t |-> s[last], lo |-> last, hi |-> last]
               [] OTHER        -> [t |-> t, lo |-> hi - 1, hi |-> hi]
  BY DEF InterpolatePose
<1> HIDE DEF last, hi
<1>4. 1 \in 1..last /\ last \in 1..last /\ s[1] \in Nat /\ s[last] \in Nat
      /\ s[1] <= s[last]
  <2>1. 1 \in 1..last /\ last \in 1..last /\ (1 < last \/ 1 = last)
    BY <1>1
  <2> QED
    BY <1>1, <2>1 DEF last
<1>5. CASE t <= s[1]
  <2>1. t = s[1]
    BY <1>4, <1>5
  <2>2. pose.t = s[1] /\ pose.lo = pose.hi
    <3>1. CASE t >= s[last]
      <4>1. s[last] = s[1]
        BY <1>4, <2>1, <3>1
      <4> QED
        BY <1>3, <1>5, <3>1, <4>1
    <3> QED
      BY <1>3, <1>5, <3>1
  <2> QED
    BY <2>1, <2>2
<1>6. CASE ~(t <= s[1]) /\ t >= s[last]
  <2>1. pose.t = s[last] /\ pose.lo = last /\ pose.hi = last
    BY <1>3, <1>6
  <2> QED
    BY <1>4, <1>6, <2>1 DEF last
<1>7. CASE ~(t <= s[1]) /\ ~(t >= s[last])
  <2>1. pose.t = t /\ pose.lo = hi - 1 /\ pose.hi = hi
    BY <1>3, <1>7
  <2>2. ~(s[1] > t) /\ s[last] > t
    BY <1>4, <1>7
  <2>3. hi \in 2..last
    BY <1>1, <1>2, <1>4, <2>2
  <2>4. hi \in 1..last /\ hi - 1 \in 1..last /\ hi >= hi /\ ~(hi - 1 >= hi)
    BY <1>1, <2>3
  <2>5. s[hi] > t /\ ~(s[hi - 1] > t) /\ s[hi] \in Nat /\ s[hi - 1] \in Nat
    BY <1>1, <1>2, <2>4
  <2> QED
    BY <1>1, <2>1, <2>3, <2>5
<1> QED
  BY <1>5, <1>6, <1>7

\* Every range that a buffer covers gives each of its instants a sound pose
\* (deskew.cpp:20-75).
THEOREM PoseSound ==
    ASSUME NEW data, NEW t0 \in Nat, NEW t1 \in Nat, Increasing(data),
           t0 <= t1, Covers(data, t0, t1)
    PROVE  SoundPoses(data, t0, t1)
<1> DEFINE w == GetBetween(data, t0, t1)
           traj == Trajectory(data, t0, t1)
<1>1. /\ traj \in Seq(Nat) /\ Len(traj) = Len(w)
      /\ \A k \in 1..Len(w) : traj[k] = w[k].t
      /\ \A k, m \in 1..Len(w) : k < m => w[k].t <= w[m].t
      /\ Len(w) \in Nat \ {0}
  <2>1. traj \in Seq(Nat) /\ Len(traj) = Len(w)
    BY TrajectoryTimes
  <2>2. \A k \in 1..Len(w) : traj[k] = w[k].t
    BY TrajectoryTimes
  <2>3. /\ \A k, m \in 1..Len(w) : k < m => w[k].t <= w[m].t
        /\ Len(w) \in Nat \ {0}
    BY TrajectoryTimes
  <2> QED
    BY <2>1, <2>2, <2>3
<1>2. /\ w[1].t = t0 /\ w[Len(w)].t \in t0..t1
      /\ \/ w[Len(w)].t = t1
         \/ /\ \E i \in 1..Len(data) : data[i] = t1
            /\ \A i \in 1..Len(data) : data[i] < t1 => data[i] <= w[Len(w)].t
  BY WindowEnd
<1>3. \A i \in 1..Len(data) : data[i] \in Nat
  BY DEF Increasing
<1> HIDE DEF w, traj
<1>4. traj[1] = t0 /\ traj[Len(traj)] = w[Len(w)].t
      /\ \A k, m \in 1..Len(traj) : k < m => traj[k] <= traj[m]
  <2>0. Len(w) \in Nat \ {0}
    BY <1>1
  <2>1. 1 \in 1..Len(w) /\ Len(w) \in 1..Len(w)
    BY <2>0
  <2>2. Len(traj) = Len(w) /\ \A k \in 1..Len(w) : traj[k] = w[k].t
    BY <1>1
  <2>3. traj[1] = t0 /\ traj[Len(traj)] = w[Len(w)].t
    BY <1>2, <2>1, <2>2
  <2>4. ASSUME NEW k \in 1..Len(traj), NEW m \in 1..Len(traj), k < m
        PROVE  traj[k] <= traj[m]
    BY <1>1, <2>2, <2>4
  <2> QED
    BY <2>3, <2>4
<1>5. ASSUME NEW t \in t0..t1
      PROVE  LET pose == InterpolatePose(traj, t)
             IN  /\ pose.lo # pose.hi => /\ pose.hi = pose.lo + 1
                                         /\ traj[pose.lo] <= t
                                         /\ t < traj[pose.hi]
                 /\ \/ pose.t = t
                    \/ /\ \E i \in 1..Len(data) : data[i] = t1
                       /\ \A i \in 1..Len(data) : ~(pose.t < data[i] /\ data[i] < t1)
  <2> DEFINE pose == InterpolatePose(traj, t)
  <2>1. /\ pose.lo # pose.hi => /\ pose.hi = pose.lo + 1
                                /\ traj[pose.lo] <= t /\ t < traj[pose.hi]
        /\ pose.t = t \/ (traj[Len(traj)] < t /\ pose.t = traj[Len(traj)])
    BY <1>1, <1>4, PoseFacts
  <2> HIDE DEF pose
  <2>2. ASSUME pose.t # t
        PROVE  /\ \E i \in 1..Len(data) : data[i] = t1
               /\ \A i \in 1..Len(data) : ~(pose.t < data[i] /\ data[i] < t1)
    <3>1. pose.t = w[Len(w)].t /\ w[Len(w)].t < t /\ w[Len(w)].t # t1
      BY <1>2, <1>4, <2>1, <2>2
    <3> QED
      BY <1>2, <1>3, <3>1
  <2> QED
    BY <2>1, <2>2 DEF pose
<1> QED
  BY <1>5 DEF SoundPoses, traj

-----------------------------------------------------------------------------
(* The scan queue *)

USE PipelineAssumption

\* TypeOK without the windows.
Typed ==
    /\ imu \in Seq(Nat)
    /\ initImu \in Seq(Nat)
    /\ ekf \in BOOLEAN
    /\ lastRef \in Nat
    /\ pending \in Seq(WaitingClouds)
    /\ control \in {"idle", "draining", "dead"}
    /\ accepted \in Nat
    /\ discarded \subseteq Nat
    /\ results \in Seq(Processed)

\* The first IMU sample comes before the last one, and before last_ref_ once
\* the filter runs; no cloud is accepted earlier than that.
Started ==
    /\ imu # <<>> => imu[1] \in Nat \ {0} /\ imu[1] <= Last(imu)
    /\ IF ekf THEN imu # <<>> /\ imu[1] <= lastRef
       ELSE pending = <<>> /\ accepted = 0 /\ results = <<>>

\* The queue holds the last clouds in order; the ones before it have left it.
Queued ==
    /\ Len(pending) <= accepted
    /\ \A i \in 1..Len(pending) : pending[i].id = accepted - Len(pending) + i

Left ==
    /\ ResultIds \union discarded = 1..(accepted - Len(pending))
    /\ ResultIds \intersect discarded = {}

Inv ==
    /\ Typed /\ Started /\ Queued /\ Left
    /\ ResultsAdvance /\ HeadWaitsForImu /\ OnlyLongScansThrow

-----------------------------------------------------------------------------
LEMMA ShiftedType == \A c \in Clouds : Shifted(c.stamp) \in Nat
BY DEF Shifted

LEMMA AppendFacts ==
    ASSUME NEW S, NEW s \in Seq(S), NEW x \in S
    PROVE  /\ Append(s, x) \in Seq(S) /\ Append(s, x) # <<>>
           /\ Len(s) \in Nat /\ Len(Append(s, x)) = Len(s) + 1
           /\ Append(s, x)[Len(s) + 1] = x
           /\ \A i \in 1..Len(s) : Append(s, x)[i] = s[i] /\ s[i] \in S
OBVIOUS

LEMMA NonEmptyFacts ==
    ASSUME NEW S, NEW s \in Seq(S), s # <<>>
    PROVE  /\ Len(s) \in Nat \ {0}
           /\ s[1] \in S /\ Last(s) \in S /\ Head(s) = s[1]
           /\ Tail(s) \in Seq(S) /\ Len(Tail(s)) = Len(s) - 1
           /\ \A i \in 1..(Len(s) - 1) : Tail(s)[i] = s[i + 1]
BY DEF Last

\* The head of the queue is the first cloud that has not left it.
LEMMA HeadId ==
    ASSUME Typed, Queued, pending # <<>>
    PROVE  /\ Head(pending) \in WaitingClouds
           /\ Head(pending).id = accepted - Len(pending) + 1
           /\ Len(pending) \in Nat \ {0}
           /\ Tail(pending) \in Seq(WaitingClouds)
           /\ Len(Tail(pending)) = Len(pending) - 1
           /\ \A i \in 1..Len(Tail(pending)) :
                  Tail(pending)[i].id = accepted - Len(Tail(pending)) + i
<1>1. pending \in Seq(WaitingClouds) /\ accepted \in Nat
  BY DEF Typed
<1>2. /\ Len(pending) \in Nat \ {0}
      /\ pending[1] \in WaitingClouds /\ Head(pending) = pending[1]
      /\ Tail(pending) \in Seq(WaitingClouds) /\ Len(Tail(pending)) = Len(pending) - 1
      /\ \A i \in 1..(Len(pending) - 1) : Tail(pending)[i] = pending[i + 1]
  BY <1>1, NonEmptyFacts
<1>3. \A i \in 1..Len(pending) : pending[i].id = accepted - Len(pending) + i
  BY DEF Queued
<1>4. ASSUME NEW i \in 1..Len(Tail(pending))
      PROVE  Tail(pending)[i].id = accepted - Len(Tail(pending)) + i
  <2>1. i \in 1..(Len(pending) - 1) /\ i + 1 \in 1..Len(pending)
    BY <1>2
  <2> QED
    BY <1>1, <1>2, <1>3, <2>1
<1> QED
  BY <1>1, <1>2, <1>3, <1>4

LEMMA AppendedIds ==
    ASSUME NEW s \in Seq(Processed), NEW r \in Processed
    PROVE  {Append(s, r)[i].id : i \in 1..Len(Append(s, r))}
               = {s[i].id : i \in 1..Len(s)} \union {r.id}
<1> DEFINE a == Append(s, r)
<1>1. Len(a) = Len(s) + 1 /\ a[Len(s) + 1] = r /\ Len(s) \in Nat
      /\ \A i \in 1..Len(s) : a[i] = s[i]
  OBVIOUS
<1> HIDE DEF a
<1>2. \A x : x \in {a[i].id : i \in 1..Len(a)} =>
          x \in {s[i].id : i \in 1..Len(s)} \union {r.id}
  BY <1>1
<1>3. \A x : x \in {s[i].id : i \in 1..Len(s)} => x \in {a[i].id : i \in 1..Len(a)}
  BY <1>1
<1>4. r.id \in {a[i].id : i \in 1..Len(a)}
  BY <1>1
<1> QED
  BY <1>2, <1>3, <1>4 DEF a

\* A scan that is neither useless nor short of IMU data ends after last_ref_.
LEMMA ReadyFacts ==
    ASSUME Inv, pending # <<>>, Ready(Head(pending))
    PROVE  /\ Head(pending).end > lastRef
           /\ imu # <<>>
           /\ Last(imu) >= Head(pending).end
           /\ ekf
<1>1. ekf /\ imu # <<>> /\ imu[1] \in Nat \ {0} /\ imu[1] <= lastRef /\ lastRef \in Nat
  BY DEF Inv, Started, Typed
<1>2. Head(pending).end \in Nat
  BY HeadId DEF Inv, WaitingClouds
<1>3. Last(imu) >= Head(pending).end
  BY DEF Ready, Covers, Last
<1>4. ~(Head(pending).end <= lastRef)
  BY <1>1 DEF Ready, Useless, Overtaken
<1> QED
  BY <1>1, <1>2, <1>3, <1>4

-----------------------------------------------------------------------------
LEMMA InitInv == Init => Inv
<1> SUFFICES ASSUME Init
             PROVE  Inv
  OBVIOUS
<1>1. Typed
  <2>1. /\ imu \in Seq(Nat) /\ initImu \in Seq(Nat) /\ pending \in Seq(WaitingClouds)
        /\ results \in Seq(Processed)
    BY EmptySeq DEF Init
  <2> QED
    BY <2>1 DEF Init, Typed
<1>2. Started /\ Queued
  BY DEF Init, Started, Queued
<1>3. Left
  <2>1. ResultIds = {} /\ accepted - Len(pending) = 0
    <3>1. Len(results) = 0 /\ Len(pending) = 0 /\ accepted = 0
      BY DEF Init
    <3> QED
      BY <3>1 DEF ResultIds
  <2> QED
    BY <2>1 DEF Init, Left
<1>4. ResultsAdvance /\ HeadWaitsForImu /\ OnlyLongScansThrow
  BY DEF Init, ResultsAdvance, HeadWaitsForImu, OnlyLongScansThrow
<1> QED
  BY <1>1, <1>2, <1>3, <1>4 DEF Inv

LEMMA OnImuInv ==
    ASSUME Inv, NEW step \in ImuSteps, OnImu(step)
    PROVE  Inv'
<1> DEFINE t == LastStamp + step
<1>1. t \in Nat \ {0} /\ (imu # <<>> => imu[1] <= t) /\ Len(imu) \in Nat
  BY DEF Inv, Typed, Started, LastStamp, Last
<1>2. imu' = Append(imu, t) /\ control' = "draining"
      /\ UNCHANGED <<pending, accepted, discarded, results>>
  BY DEF OnImu
<1>3. \/ UNCHANGED <<ekf, lastRef>>
      \/ ~ekf /\ ekf' = TRUE /\ lastRef' = t
  <2>1. initImu \in Seq(Nat)
    BY DEF Inv, Typed
  <2>2. Last(Append(initImu, t)) = t
    BY <1>1, <2>1 DEF Last
  <2> QED
    BY <2>2 DEF OnImu
<1>4. initImu' \in Seq(Nat)
  <2>1. initImu \in Seq(Nat)
    BY DEF Inv, Typed
  <2>2. Append(initImu, t) \in Seq(Nat) /\ Append(initImu, t) # <<>>
    BY <1>1, <2>1, AppendFacts
  <2>3. Tail(Append(initImu, t)) \in Seq(Nat)
    BY <2>2, NonEmptyFacts
  <2> QED
    BY <2>1, <2>2, <2>3 DEF OnImu
<1> HIDE DEF t
<1>5. Len(imu') = Len(imu) + 1 /\ imu'[Len(imu')] = t /\ imu' \in Seq(Nat)
      /\ imu' # <<>> /\ imu'[1] = IF imu = <<>> THEN t ELSE imu[1]
  <2>1. imu \in Seq(Nat)
    BY DEF Inv, Typed
  <2>2. /\ imu' \in Seq(Nat) /\ imu' # <<>> /\ Len(imu') = Len(imu) + 1
        /\ imu'[Len(imu) + 1] = t /\ \A i \in 1..Len(imu) : imu'[i] = imu[i]
    BY <1>1, <1>2, <2>1, AppendFacts
  <2>3. IF imu = <<>> THEN Len(imu) = 0 ELSE 1 \in 1..Len(imu)
    BY <2>1, NonEmptyFacts
  <2> QED
    BY <1>1, <2>2, <2>3
<1>6. Typed'
  BY <1>1, <1>2, <1>3, <1>4, <1>5 DEF Inv, Typed
<1>7. Started'
  BY <1>1, <1>2, <1>3, <1>5 DEF Inv, Typed, Started, Last
<1>8. Queued' /\ Left'
  <2>1. Queued /\ Left
    BY DEF Inv
  <2>2. ResultIds' = ResultIds
    BY <1>2 DEF ResultIds
  <2> QED
    BY <1>2, <2>1, <2>2 DEF Queued, Left
<1>9. ResultsAdvance'
  <2>1. CASE UNCHANGED <<ekf, lastRef>>
    BY <1>2, <2>1 DEF Inv, ResultsAdvance
  <2>2. CASE ~ekf
    <3>1. results' = <<>>
      BY <1>2, <2>2 DEF Inv, Started
    <3> QED
      BY <3>1 DEF ResultsAdvance
  <2> QED
    BY <1>3, <2>1, <2>2
<1> QED
  BY <1>2, <1>6, <1>7, <1>8, <1>9 DEF Inv, HeadWaitsForImu, OnlyLongScansThrow

LEMMA OnCloudInv ==
    ASSUME Inv, NEW c \in Clouds, OnCloud(c)
    PROVE  Inv'
<1> DEFINE w == [id |-> accepted + 1, timed |-> c.timed,
                 start |-> Shifted(c.stamp) + c.lo, end |-> Shifted(c.stamp) + c.hi]
<1>1. w \in WaitingClouds /\ w.id = accepted + 1
  <2>1. /\ accepted + 1 \in Nat /\ c.timed \in BOOLEAN
        /\ Shifted(c.stamp) + c.lo \in Nat /\ Shifted(c.stamp) + c.hi \in Nat
    <3>1. accepted \in Nat
      BY DEF Inv, Typed
    <3> QED
      BY <3>1, ShiftedType
  <2> QED
    BY <2>1 DEF WaitingClouds
<1>2. /\ accepted' = accepted + 1 /\ pending' = Append(pending, w)
      /\ control' = "draining" /\ ekf
      /\ UNCHANGED <<imu, initImu, ekf, lastRef, discarded, results>>
  BY DEF OnCloud
<1> HIDE DEF w
<1>3. /\ pending' \in Seq(WaitingClouds) /\ Len(pending') = Len(pending) + 1
      /\ Len(pending) \in Nat
      /\ pending'[Len(pending) + 1] = w
      /\ \A i \in 1..Len(pending) : pending'[i] = pending[i]
  BY <1>1, <1>2, AppendFacts DEF Inv, Typed
<1>4. Typed'
  BY <1>2, <1>3 DEF Inv, Typed
<1>5. Started'
  BY <1>2 DEF Inv, Started, Last
<1>6. Queued'
  <2>1. accepted \in Nat /\ Len(pending) <= accepted
        /\ \A i \in 1..Len(pending) : pending[i].id = accepted - Len(pending) + i
    BY DEF Inv, Queued, Typed
  <2>2. ASSUME NEW i \in 1..Len(pending')
        PROVE  pending'[i].id = accepted' - Len(pending') + i
    <3>1. CASE i \in 1..Len(pending)
      BY <1>2, <1>3, <2>1, <3>1
    <3>2. CASE i = Len(pending) + 1
      BY <1>1, <1>2, <1>3, <2>1, <3>2
    <3>3. i \in 1..Len(pending) \/ i = Len(pending) + 1
      BY <1>3
    <3> QED
      BY <3>1, <3>2, <3>3
  <2>3. Len(pending') <= accepted'
    BY <1>2, <1>3, <2>1
  <2> QED
    BY <2>2, <2>3 DEF Queued
<1>7. Left'
  <2>1. ResultIds' = ResultIds
    BY <1>2 DEF ResultIds
  <2>2. accepted' - Len(pending') = accepted - Len(pending)
    BY <1>2, <1>3 DEF Inv, Typed
  <2> QED
    BY <1>2, <2>1, <2>2 DEF Inv, Left
<1>8. ResultsAdvance'
  BY <1>2 DEF Inv, ResultsAdvance
<1> QED
  BY <1>2, <1>4, <1>5, <1>6, <1>7, <1>8 DEF Inv, HeadWaitsForImu, OnlyLongScansThrow

LEMMA DrainDoneInv ==
    ASSUME Inv, DrainDone
    PROVE  Inv'
<1>1. UNCHANGED <<imu, initImu, ekf, lastRef, pending, accepted, discarded, results>>
      /\ pending = <<>> /\ control' = "idle"
  BY DEF DrainDone
<1> QED
  BY <1>1 DEF Inv, Typed, Started, Queued, Left, ResultIds, ResultsAdvance,
              HeadWaitsForImu, OnlyLongScansThrow

LEMMA AwaitImuInv ==
    ASSUME Inv, AwaitImu
    PROVE  Inv'
<1>1. UNCHANGED <<imu, initImu, ekf, lastRef, pending, accepted, discarded, results>>
      /\ pending # <<>> /\ control' = "idle"
  BY DEF AwaitImu
<1>2. ekf /\ imu # <<>> /\ imu[1] <= lastRef /\ lastRef # 0
  BY <1>1 DEF Inv, Started, Typed
<1>3. Head(pending).end > lastRef /\ Head(pending).timed
  <2>1. ~Useless(Head(pending)) /\ ~Overtaken(Head(pending))
    BY DEF AwaitImu, Useless
  <2>2. Head(pending).end \in Nat /\ lastRef \in Nat
    BY <1>1, HeadId DEF Inv, WaitingClouds, Typed
  <2> QED
    BY <1>2, <2>1, <2>2 DEF Useless, Overtaken
<1>4. Head(pending).end > LastStamp
  <2>1. ~(Last(imu) >= Head(pending).end)
    BY <1>2 DEF AwaitImu, Covers, Last
  <2>2. Last(imu) \in Nat /\ Head(pending).end \in Nat
    <3>1. Head(pending) \in WaitingClouds /\ imu \in Seq(Nat)
      BY <1>1, HeadId DEF Inv, Typed
    <3> QED
      BY <1>2, <3>1, NonEmptyFacts DEF WaitingClouds
  <2> QED
    BY <1>2, <2>1, <2>2 DEF LastStamp
<1>5. HeadWaitsForImu'
  BY <1>1, <1>3, <1>4 DEF HeadWaitsForImu, LastStamp, Last
<1> QED
  BY <1>1, <1>5 DEF Inv, Typed, Started, Queued, Left, ResultIds, ResultsAdvance,
                   OnlyLongScansThrow, Last

LEMMA ThrowInv ==
    ASSUME Inv, Throw
    PROVE  Inv'
<1>1. UNCHANGED <<imu, initImu, ekf, lastRef, pending, accepted, discarded, results>>
      /\ pending # <<>> /\ control' = "dead" /\ Ready(Head(pending))
  BY DEF Throw
<1>2. /\ Head(pending).end > lastRef /\ imu # <<>>
      /\ Last(imu) >= Head(pending).end
  BY <1>1, ReadyFacts
<1>3. Head(pending) \in WaitingClouds /\ imu[1] \in Nat /\ lastRef \in Nat
  BY <1>1, <1>2, HeadId DEF Inv, Typed, Started
<1>4. imu[1] > Head(pending).start
  <2>1. ~(imu[1] <= Head(pending).start)
    BY <1>2 DEF Throw, Covers, Last
  <2>2. Head(pending).start \in Nat
    BY <1>3 DEF WaitingClouds
  <2> QED
    BY <1>3, <2>1, <2>2
<1>5. OnlyLongScansThrow'
  BY <1>1, <1>2, <1>3, <1>4 DEF OnlyLongScansThrow, WaitingClouds
<1> QED
  BY <1>1, <1>5 DEF Inv, Typed, Started, Queued, Left, ResultIds, ResultsAdvance,
                   HeadWaitsForImu, Last

\* The bookkeeping when the head of the queue leaves it.
LEMMA Popped ==
    ASSUME Inv, pending # <<>>, pending' = Tail(pending), accepted' = accepted,
           ResultIds' \union discarded' = ResultIds \union discarded \union {Head(pending).id},
           ResultIds' \intersect discarded' = {}
    PROVE  pending' \in Seq(WaitingClouds) /\ Queued' /\ Left'
<1>1. /\ Head(pending).id = accepted - Len(pending) + 1
      /\ Len(pending) \in Nat \ {0}
      /\ pending' \in Seq(WaitingClouds)
      /\ Len(pending') = Len(pending) - 1
      /\ \A i \in 1..Len(pending') : pending'[i].id = accepted - Len(pending') + i
  BY HeadId DEF Inv
<1>2. Len(pending) <= accepted /\ accepted \in Nat
  BY DEF Inv, Queued, Typed
<1>3. ResultIds \union discarded = 1..(accepted - Len(pending))
  BY DEF Inv, Left
<1>4. 1..(accepted' - Len(pending'))
          = (1..(accepted - Len(pending))) \union {accepted - Len(pending) + 1}
  BY <1>1, <1>2
<1> QED
  BY <1>1, <1>2, <1>3, <1>4 DEF Queued, Left

LEMMA DiscardInv ==
    ASSUME Inv, Discard
    PROVE  Inv'
<1>1. /\ UNCHANGED <<imu, initImu, ekf, lastRef, control, accepted, results>>
      /\ pending # <<>> /\ pending' = Tail(pending) /\ control = "draining"
      /\ discarded' = discarded \union {Head(pending).id}
  BY DEF Discard, Draining
<1>2. Head(pending).id \in Nat /\ Head(pending).id = accepted - Len(pending) + 1
      /\ Len(pending) \in Nat /\ accepted \in Nat
  BY <1>1, HeadId DEF Inv, WaitingClouds, Typed
<1>3. Head(pending).id \notin ResultIds
  BY <1>2 DEF Inv, Left
<1>4. ResultIds' = ResultIds
  BY <1>1 DEF ResultIds
<1>5. /\ ResultIds' \union discarded' = ResultIds \union discarded \union {Head(pending).id}
      /\ ResultIds' \intersect discarded' = {}
  BY <1>1, <1>3, <1>4 DEF Inv, Left
<1>6. pending' \in Seq(WaitingClouds) /\ Queued' /\ Left'
  BY <1>1, <1>5, Popped
<1>7. ekf /\ Started'
  BY <1>1 DEF Inv, Started, Last
<1> QED
  BY <1>1, <1>2, <1>6, <1>7 DEF Inv, Typed, ResultsAdvance, HeadWaitsForImu,
                                OnlyLongScansThrow

LEMMA ProcessInv ==
    ASSUME Inv, Process
    PROVE  Inv'
<1> DEFINE c == Head(pending)
           r == [id |-> c.id, t |-> c.end]
<1>1. /\ UNCHANGED <<imu, initImu, ekf, control, accepted, discarded>>
      /\ pending # <<>> /\ pending' = Tail(pending) /\ control = "draining"
      /\ lastRef' = c.end /\ results' = Append(results, r) /\ Ready(c)
  BY DEF Process, Draining
<1>2. c \in WaitingClouds /\ c.id = accepted - Len(pending) + 1
      /\ Len(pending) \in Nat /\ accepted \in Nat
  BY <1>1, HeadId DEF Inv, Typed
<1>3. c.end > lastRef /\ ekf /\ lastRef \in Nat
  BY <1>1, ReadyFacts DEF Inv, Typed
<1>4. r \in Processed /\ r.id = c.id /\ r.t = c.end
  BY <1>2 DEF WaitingClouds, Processed
<1>5. c.id \notin ResultIds \union discarded
  BY <1>2 DEF Inv, Left
<1>6. results \in Seq(Processed)
  BY DEF Inv, Typed
<1> HIDE DEF c, r
<1>7. ResultIds' = ResultIds \union {c.id}
  BY <1>1, <1>4, <1>6, AppendedIds DEF ResultIds
<1>8. pending' \in Seq(WaitingClouds) /\ Queued' /\ Left'
  <2>1. ResultIds' \union discarded' = ResultIds \union discarded \union {c.id}
    BY <1>1, <1>7
  <2>2. ResultIds' \intersect discarded' = {}
    BY <1>1, <1>5, <1>7 DEF Inv, Left
  <2> QED
    BY <1>1, <2>1, <2>2, Popped DEF c
<1>9. Typed' /\ Started'
  <2>1. results' \in Seq(Processed)
    BY <1>1, <1>4, <1>6, AppendFacts
  <2>2. lastRef' \in Nat /\ lastRef' >= lastRef
    BY <1>1, <1>2, <1>3 DEF WaitingClouds
  <2>3. Typed'
    BY <1>1, <1>8, <2>1, <2>2 DEF Inv, Typed
  <2>4. Started'
    BY <1>1, <1>3, <2>2 DEF Inv, Started, Last
  <2> QED
    BY <2>3, <2>4
<1>10. ResultsAdvance'
  <2>1. /\ Len(results') = Len(results) + 1 /\ Len(results) \in Nat
        /\ results'[Len(results) + 1] = r
        /\ \A i \in 1..Len(results) :
               /\ results'[i] = results[i]
               /\ results[i].id \in Nat /\ results[i].t \in Nat
    <3>1. /\ Len(results) \in Nat /\ Len(results') = Len(results) + 1
          /\ results'[Len(results) + 1] = r
          /\ \A i \in 1..Len(results) :
                 results'[i] = results[i] /\ results[i] \in Processed
      BY <1>1, <1>4, <1>6, AppendFacts
    <3> QED
      BY <3>1 DEF Processed
  <2>2. \A i \in 1..Len(results) : results[i].t < c.end
    BY <1>2, <1>3, <2>1 DEF Inv, ResultsAdvance, WaitingClouds
  <2>3. \A i \in 1..Len(results) : results[i].id < c.id
    <3>1. \A i \in 1..Len(results) : results[i].id \in 1..(accepted - Len(pending))
      BY DEF Inv, Left, ResultIds
    <3> QED
      BY <1>2, <3>1
  <2>4. ASSUME NEW i \in 1..Len(results'), NEW j \in 1..Len(results'), i < j
        PROVE  results'[i].id < results'[j].id /\ results'[i].t < results'[j].t
    <3>1. i \in 1..Len(results)
      BY <2>1, <2>4
    <3>2. CASE j \in 1..Len(results)
      BY <2>1, <2>4, <3>1, <3>2 DEF Inv, ResultsAdvance
    <3>3. CASE j = Len(results) + 1
      BY <1>4, <2>1, <2>2, <2>3, <3>1, <3>3
    <3> QED
      BY <2>1, <3>2, <3>3
  <2>5. \A i \in 1..Len(results') : results'[i].t <= lastRef'
    BY <1>1, <1>2, <1>4, <2>1, <2>2 DEF WaitingClouds
  <2> QED
    BY <2>4, <2>5 DEF ResultsAdvance
<1> QED
  BY <1>1, <1>8, <1>9, <1>10 DEF Inv, HeadWaitsForImu, OnlyLongScansThrow

LEMMA NextInv == Inv /\ [Next]_vars => Inv'
<1> SUFFICES ASSUME Inv, [Next]_vars
             PROVE  Inv'
  OBVIOUS
<1>1. CASE Next
  BY <1>1, OnImuInv, OnCloudInv, DrainDoneInv, DiscardInv, AwaitImuInv, ProcessInv, ThrowInv
  DEF Next, Drain
<1>2. CASE UNCHANGED vars
  <2>1. UNCHANGED <<imu, initImu, ekf, lastRef, pending, control, accepted, discarded,
                    results>>
    BY <1>2 DEF vars
  <2>2. Typed' /\ Started' /\ Queued'
    BY <2>1 DEF Inv, Typed, Started, Queued, Last
  <2>3. Left'
    BY <2>1 DEF Inv, Left, ResultIds
  <2>4. ResultsAdvance'
    BY <2>1 DEF Inv, ResultsAdvance
  <2>5. HeadWaitsForImu' /\ OnlyLongScansThrow'
    BY <2>1 DEF Inv, HeadWaitsForImu, OnlyLongScansThrow, LastStamp, Last
  <2> QED
    BY <2>2, <2>3, <2>4, <2>5 DEF Inv
<1> QED
  BY <1>1, <1>2

LEMMA InvHolds == Spec => []Inv
BY InitInv, NextInv, PTL DEF Spec

-----------------------------------------------------------------------------
\* Results come out in order of arrival and strictly forward in time
\* (slam_pipeline.cpp:58-63).
THEOREM ResultsInOrder == Spec => []ResultsAdvance
<1>1. Inv => ResultsAdvance
  BY DEF Inv
<1> QED
  BY InvHolds, <1>1, PTL

\* Every accepted cloud is waiting, processed or discarded, once
\* (slam_pipeline.cpp:48-88).
THEOREM CloudsAccounted == Spec => []EveryCloudAccounted
<1>1. Inv => EveryCloudAccounted
  <2> SUFFICES ASSUME Inv
               PROVE  EveryCloudAccounted
    OBVIOUS
  <2>1. /\ Len(pending) \in Nat /\ accepted \in Nat /\ Len(pending) <= accepted
        /\ \A i \in 1..Len(pending) : pending[i].id = accepted - Len(pending) + i
    BY DEF Inv, Typed, Queued
  <2>2. PendingIds = (accepted - Len(pending) + 1)..accepted
    <3>1. \A i \in 1..Len(pending) :
              pending[i].id \in (accepted - Len(pending) + 1)..accepted
      BY <2>1
    <3>2. ASSUME NEW id \in (accepted - Len(pending) + 1)..accepted
          PROVE  \E i \in 1..Len(pending) : pending[i].id = id
      <4>1. id - (accepted - Len(pending)) \in 1..Len(pending)
        BY <2>1
      <4>2. pending[id - (accepted - Len(pending))].id = id
        BY <2>1, <4>1
      <4> QED
        BY <4>1, <4>2
    <3> QED
      BY <3>1, <3>2 DEF PendingIds
  <2>3. /\ ResultIds \union discarded = 1..(accepted - Len(pending))
        /\ ResultIds \intersect discarded = {}
    BY DEF Inv, Left
  <2>4. 1..accepted = (1..(accepted - Len(pending)))
                      \union ((accepted - Len(pending) + 1)..accepted)
    BY <2>1
  <2>5. \A id \in ResultIds \union discarded : id <= accepted - Len(pending)
    BY <2>1, <2>3
  <2> QED
    BY <2>1, <2>2, <2>3, <2>4, <2>5 DEF EveryCloudAccounted
<1> QED
  BY InvHolds, <1>1, PTL

\* Between two messages only the want of IMU data holds a cloud back
\* (slam_pipeline.cpp:64).
THEOREM OnlyImuHoldsBack == Spec => []HeadWaitsForImu
<1>1. Inv => HeadWaitsForImu
  BY DEF Inv
<1> QED
  BY InvHolds, <1>1, PTL

\* Only a scan longer than the IMU history before last_ref_ throws
\* (slam_pipeline.cpp:60-67).
THEOREM ThrowsOnlyOnLongScans == Spec => []OnlyLongScansThrow
<1>1. Inv => OnlyLongScansThrow
  BY DEF Inv
<1> QED
  BY InvHolds, <1>1, PTL
-----------------------------------------------------------------------------
\* The second invariant: what the pipeline cuts out of the buffer.
Windows == [start : Nat, ref : Nat, from : Nat, to : Nat]

Buffered ==
    /\ Increasing(imu)
    /\ lastRef <= LastStamp
    /\ \A i \in 1..Len(pending) : pending[i].start <= pending[i].end

\* A sample is stamped end, and none lies between the time t and end.
TailLost(data, t, end) ==
    /\ \E k \in 1..Len(data) : data[k] = end
    /\ \A k \in 1..Len(data) : data[k] < end => data[k] <= t

\* What is so of the window w of a scan that ends at end.
Fits(data, w, end) ==
    /\ w \in Windows
    /\ end \in Nat /\ data # <<>> /\ end <= Last(data)
    /\ w.from <= w.to
    /\ \/ w.to = end
       \/ /\ TailLost(data, w.to, end) /\ w.to < end
          /\ w.to = w.from \/ \E k \in 1..Len(data) : data[k] = w.to
    /\ w.ref = w.to \/ (TailLost(data, w.ref, end) /\ TailLost(data, w.to, end))

Told ==
    /\ Len(windows) = Len(results)
    /\ windows \in Seq(Windows)
    /\ results # <<>> => Last(results).t = lastRef
    /\ \A i \in 1..Len(results) : /\ Fits(imu, windows[i], results[i].t)
                                  /\ i > 1 => windows[i].from = results[i - 1].t

Cut == Buffered /\ Told

LEMMA InitCut == Init => Cut
<1> SUFFICES ASSUME Init
             PROVE  Cut
  OBVIOUS
<1>1. imu = <<>> /\ lastRef = 0 /\ pending = <<>> /\ results = <<>> /\ windows = <<>>
  BY DEF Init
<1>2. Len(imu) = 0 /\ Len(pending) = 0 /\ Len(results) = 0 /\ Len(windows) = 0
  BY <1>1
<1>3. imu \in Seq(Nat) /\ windows \in Seq(Windows)
  BY <1>1, EmptySeq
<1> QED
  BY <1>1, <1>2, <1>3 DEF Cut, Buffered, Told, Increasing, LastStamp

\* A later sample leaves the windows as they are.
LEMMA LaterSample ==
    ASSUME Inv, Buffered, NEW step \in ImuSteps, OnImu(step)
    PROVE  /\ Increasing(imu') /\ LastStamp' >= LastStamp /\ LastStamp \in Nat
           /\ imu' # <<>> /\ LastStamp' = LastStamp + step
           /\ \A w, end : Fits(imu, w, end) => Fits(imu', w, end)
<1> DEFINE t == LastStamp + step
<1>1. imu \in Seq(Nat) /\ Len(imu) \in Nat /\ step \in Nat \ {0}
      /\ \A i, j \in 1..Len(imu) : i < j => imu[i] < imu[j]
  BY DEF Buffered, Increasing
<1>2. LastStamp \in Nat /\ \A i \in 1..Len(imu) : imu[i] \in Nat /\ imu[i] <= LastStamp
  <2>1. CASE imu = <<>>
    <3>1. LastStamp = 0 /\ Len(imu) = 0
      BY <2>1 DEF LastStamp
    <3> QED
      BY <3>1
  <2>2. CASE imu # <<>>
    <3>1. LastStamp = imu[Len(imu)] /\ Len(imu) \in 1..Len(imu)
      BY <1>1, <2>2, NonEmptyFacts DEF LastStamp, Last
    <3>2. \A i \in 1..Len(imu) : imu[i] \in Nat
      BY <1>1
    <3>3. \A i \in 1..Len(imu) : i < Len(imu) \/ i = Len(imu)
      BY <1>1
    <3> QED
      BY <1>1, <3>1, <3>2, <3>3
  <2> QED
    BY <2>1, <2>2
<1>3. t \in Nat /\ t > LastStamp /\ imu' = Append(imu, t)
  BY <1>1, <1>2 DEF OnImu
<1> HIDE DEF t
<1>4. /\ imu' \in Seq(Nat) /\ imu' # <<>> /\ Len(imu') = Len(imu) + 1
      /\ imu'[Len(imu) + 1] = t
      /\ \A i \in 1..Len(imu) : imu'[i] = imu[i]
  BY <1>1, <1>3, AppendFacts
<1>9. /\ \A m \in 1..Len(imu') : m \in 1..Len(imu) \/ m = Len(imu) + 1
      /\ \A m, k \in 1..Len(imu') : m < k => m \in 1..Len(imu)
  <2>1. Len(imu) \in Nat /\ Len(imu') = Len(imu) + 1
    BY <1>1, <1>4
  <2> QED
    BY <2>1
<1>5. Increasing(imu')
  <2>1. ASSUME NEW i \in 1..Len(imu'), NEW j \in 1..Len(imu'), i < j
        PROVE  imu'[i] < imu'[j]
    <3>1. i \in 1..Len(imu) /\ (j \in 1..Len(imu) \/ j = Len(imu) + 1)
      BY <1>9, <2>1
    <3>2. CASE j \in 1..Len(imu)
      BY <1>1, <1>4, <2>1, <3>1, <3>2
    <3>3. CASE j = Len(imu) + 1
      BY <1>2, <1>3, <1>4, <3>1, <3>3
    <3> QED
      BY <3>1, <3>2, <3>3
  <2> QED
    BY <1>4, <2>1 DEF Increasing
<1>6. LastStamp' = t
  BY <1>1, <1>4 DEF LastStamp, Last
<1>7. ASSUME NEW u, NEW end \in Nat, TailLost(imu, u, end), end <= LastStamp
      PROVE  TailLost(imu', u, end)
  <2>1. PICK k \in 1..Len(imu) : imu[k] = end
    BY <1>7 DEF TailLost
  <2>2. k \in 1..Len(imu') /\ imu'[k] = end
    BY <1>1, <1>4, <2>1
  <2>3. ASSUME NEW m \in 1..Len(imu'), imu'[m] < end
        PROVE  imu'[m] <= u
    <3>1. m \in 1..Len(imu) \/ m = Len(imu) + 1
      BY <1>9
    <3>2. m # Len(imu) + 1
      BY <1>2, <1>3, <1>4, <1>7, <2>3
    <3> QED
      BY <1>4, <1>7, <2>3, <3>1, <3>2 DEF TailLost
  <2> QED
    BY <2>2, <2>3 DEF TailLost
<1>8. ASSUME NEW w, NEW end, Fits(imu, w, end)
      PROVE  Fits(imu', w, end)
  <2>1. end \in Nat /\ end <= LastStamp /\ end <= Last(imu')
    BY <1>2, <1>3, <1>4, <1>6, <1>8 DEF Fits, LastStamp, Last
  <2>2. \A u : TailLost(imu, u, end) => TailLost(imu', u, end)
    BY <1>7, <2>1
  <2>3. (\E k \in 1..Len(imu) : imu[k] = w.to) => \E k \in 1..Len(imu') : imu'[k] = w.to
    BY <1>1, <1>4
  <2> QED
    BY <1>4, <1>8, <2>1, <2>2, <2>3 DEF Fits
<1> QED
  BY <1>2, <1>3, <1>4, <1>5, <1>6, <1>8 DEF t

LEMMA OnImuCut ==
    ASSUME Inv, Cut, NEW step \in ImuSteps, OnImu(step)
    PROVE  Cut'
<1>1. /\ Increasing(imu') /\ LastStamp' >= LastStamp /\ LastStamp \in Nat
      /\ LastStamp' = LastStamp + step
      /\ \A w, end : Fits(imu, w, end) => Fits(imu', w, end)
  BY LaterSample DEF Cut
<1>2. UNCHANGED <<pending, results, windows>>
  BY DEF OnImu
<1>3. UNCHANGED lastRef \/ (~ekf /\ lastRef' = LastStamp')
  <2>1. initImu \in Seq(Nat) /\ LastStamp + step \in Nat
    BY <1>1 DEF Inv, Typed
  <2>2. Last(Append(initImu, LastStamp + step)) = LastStamp + step
    BY <2>1 DEF Last
  <2> QED
    BY <1>1, <2>2 DEF OnImu
<1>4. lastRef' <= LastStamp'
  BY <1>1, <1>3 DEF Cut, Buffered, Inv, Typed
<1>5. Buffered'
  BY <1>1, <1>2, <1>4 DEF Cut, Buffered
<1>6. results # <<>> => ekf
  BY DEF Inv, Started
<1>7. Told'
  BY <1>1, <1>2, <1>3, <1>6 DEF Cut, Told, Last
<1> QED
  BY <1>5, <1>7 DEF Cut

LEMMA OnCloudCut ==
    ASSUME Inv, Cut, NEW c \in Clouds, OnCloud(c)
    PROVE  Cut'
<1> DEFINE w == [id |-> accepted + 1, timed |-> c.timed,
                 start |-> Shifted(c.stamp) + c.lo, end |-> Shifted(c.stamp) + c.hi]
<1>1. w \in WaitingClouds /\ w.start <= w.end
  BY ShiftedType DEF WaitingClouds, Inv, Typed
<1>2. pending' = Append(pending, w) /\ UNCHANGED <<imu, lastRef, results, windows>>
  BY DEF OnCloud
<1> HIDE DEF w
<1>3. /\ Len(pending') = Len(pending) + 1 /\ Len(pending) \in Nat
      /\ pending'[Len(pending) + 1] = w
      /\ \A i \in 1..Len(pending) : pending'[i] = pending[i]
  BY <1>1, <1>2, AppendFacts DEF Inv, Typed
<1>4. \A i \in 1..Len(pending') : pending'[i].start <= pending'[i].end
  BY <1>1, <1>3 DEF Cut, Buffered
<1>5. Buffered'
  BY <1>2, <1>4 DEF Cut, Buffered, LastStamp, Last
<1>6. Told'
  BY <1>2 DEF Cut, Told, Fits, TailLost, LastStamp, Last
<1> QED
  BY <1>5, <1>6 DEF Cut

\* The head of the queue leaves, and nothing else changes in the windows.
LEMMA PopCut ==
    ASSUME Inv, Buffered, pending # <<>>, pending' = Tail(pending)
    PROVE  \A i \in 1..Len(pending') : pending'[i].start <= pending'[i].end
<1>1. /\ Len(pending) \in Nat \ {0} /\ Len(pending') = Len(pending) - 1
      /\ \A i \in 1..(Len(pending) - 1) : pending'[i] = pending[i + 1]
  BY NonEmptyFacts DEF Inv, Typed
<1>2. \A i \in 1..Len(pending') : i \in 1..(Len(pending) - 1) /\ i + 1 \in 1..Len(pending)
  BY <1>1
<1> QED
  BY <1>1, <1>2 DEF Buffered

LEMMA QuietCut ==
    ASSUME Inv, Cut, DrainDone \/ Discard \/ AwaitImu \/ Throw
    PROVE  Cut'
<1>1. UNCHANGED <<imu, lastRef, results, windows>>
  BY DEF DrainDone, Discard, AwaitImu, Throw
<1>2. UNCHANGED pending \/ (pending # <<>> /\ pending' = Tail(pending))
  BY DEF DrainDone, Discard, AwaitImu, Throw
<1>3. \A i \in 1..Len(pending') : pending'[i].start <= pending'[i].end
  BY <1>2, PopCut DEF Cut, Buffered
<1>4. Buffered'
  BY <1>1, <1>3 DEF Cut, Buffered, LastStamp, Last
<1>5. Told'
  BY <1>1 DEF Cut, Told, Fits, TailLost, LastStamp, Last
<1> QED
  BY <1>4, <1>5 DEF Cut

\* The window of a scan that is processed fits.
LEMMA ProcessFits ==
    ASSUME Inv, Cut, Process
    PROVE  LET c == Head(pending)
               w == FilterWindow(c)
           IN  Fits(imu, [start |-> c.start, ref |-> Reference(c), from |-> w[1].t, to |-> Last(w).t],
                    c.end)
               /\ w[1].t = lastRef
<1> DEFINE c == Head(pending)
           w == FilterWindow(c)
           v == GetBetween(imu, c.start, c.end)
           traj == Trajectory(imu, c.start, c.end)
           end == c.end
           start == c.start
<1>1. pending # <<>> /\ Ready(c) /\ Covers(imu, start, end)
  BY DEF Process
<1>2. end \in Nat /\ start \in Nat /\ start <= end
  <2>1. c \in WaitingClouds /\ c = pending[1] /\ 1 \in 1..Len(pending)
    BY <1>1, HeadId, NonEmptyFacts DEF Inv, Typed
  <2> QED
    BY <2>1 DEF WaitingClouds, Cut, Buffered
<1>3. /\ end > lastRef /\ imu # <<>> /\ Last(imu) >= end
      /\ lastRef \in Nat /\ Covers(imu, lastRef, end)
  BY <1>1, ReadyFacts DEF Inv, Typed, Ready
<1>4. Increasing(imu) /\ Len(imu) \in Nat /\ \A k \in 1..Len(imu) : imu[k] \in Nat
  BY DEF Cut, Buffered, Increasing
<1>5. w = GetBetween(imu, lastRef, end)
  BY DEF FilterWindow
<1>6. Reference(c) = InterpolatePose(traj, end).t
  BY DEF Reference
<1> HIDE DEF c, w, v, traj, end, start
<1>7. /\ Len(w) \in Nat \ {0} /\ w[1].t = lastRef /\ w[Len(w)].t \in lastRef..end
      /\ \/ w[Len(w)].t = end
         \/ /\ \E i \in 1..Len(imu) : imu[i] = end
            /\ \A i \in 1..Len(imu) : imu[i] < end => imu[i] <= w[Len(w)].t
            /\ w[Len(w)].t = lastRef \/ \E i \in 1..Len(imu) : imu[i] = w[Len(w)].t
  BY <1>2, <1>3, <1>4, <1>5, WindowEnd
<1>8. v = GetBetween(imu, start, end) /\ traj = Trajectory(imu, start, end)
  BY DEF v, traj, start, end
<1>9. /\ Len(v) \in Nat \ {0} /\ v[1].t = start /\ v[Len(v)].t \in start..end
      /\ \/ v[Len(v)].t = end
         \/ /\ \E i \in 1..Len(imu) : imu[i] = end
            /\ \A i \in 1..Len(imu) : imu[i] < end => imu[i] <= v[Len(v)].t
  BY <1>1, <1>2, <1>4, <1>8, WindowEnd
<1>10. /\ traj \in Seq(Nat) /\ Len(traj) = Len(v)
       /\ \A k \in 1..Len(v) : traj[k] = v[k].t
       /\ \A k, m \in 1..Len(v) : k < m => v[k].t <= v[m].t
  BY <1>1, <1>2, <1>4, <1>8, TrajectoryTimes
<1>11. /\ traj[1] = start /\ traj[Len(traj)] = v[Len(v)].t
       /\ \A k, m \in 1..Len(traj) : k < m => traj[k] <= traj[m]
  BY <1>9, <1>10
<1> DEFINE ref == InterpolatePose(traj, end).t
<1>12. ref = end \/ (traj[Len(traj)] < end /\ ref = traj[Len(traj)])
  <2>1. Len(traj) # 0 /\ traj[1] <= end
    BY <1>2, <1>9, <1>10, <1>11
  <2> QED
    BY <1>2, <1>10, <1>11, <2>1, PoseFacts
<1> HIDE DEF ref
<1>13. ref \in Nat /\ (ref = end \/ TailLost(imu, ref, end))
  BY <1>2, <1>9, <1>11, <1>12 DEF TailLost
<1> DEFINE to == Last(w).t
<1>14. to = w[Len(w)].t
  BY DEF Last
<1> HIDE DEF to
<1>15. /\ to \in Nat /\ lastRef <= to /\ to <= end
       /\ \/ to = end
          \/ /\ TailLost(imu, to, end) /\ to < end
             /\ to = lastRef \/ \E k \in 1..Len(imu) : imu[k] = to
  BY <1>2, <1>3, <1>7, <1>14 DEF TailLost
<1>16. ref = to \/ (TailLost(imu, ref, end) /\ TailLost(imu, to, end))
  <2>1. CASE ref = end /\ to # end
    BY <1>2, <1>4, <1>15, <2>1 DEF TailLost
  <2>2. CASE ref # end /\ to = end
    BY <1>2, <1>4, <1>13, <2>2 DEF TailLost
  <2>3. CASE ref # end /\ to # end
    BY <1>13, <1>15, <2>3
  <2> QED
    BY <2>1, <2>2, <2>3
<1> DEFINE r == [start |-> start, ref |-> ref, from |-> lastRef, to |-> to]
<1>17. r \in Windows /\ r.from = lastRef /\ r.to = to /\ r.ref = ref
  BY <1>2, <1>3, <1>13, <1>15 DEF Windows
<1> HIDE DEF r
<1>18. imu # <<>> /\ end <= Last(imu)
  <2>1. Last(imu) \in Nat
    BY <1>3, <1>4, NonEmptyFacts DEF Cut, Buffered, Increasing
  <2> QED
    BY <1>2, <1>3, <2>1
<1>19. Fits(imu, r, end)
  BY <1>2, <1>15, <1>16, <1>17, <1>18 DEF Fits
<1>20. [start |-> c.start, ref |-> Reference(c), from |-> w[1].t, to |-> Last(w).t] = r
  BY <1>6, <1>7 DEF r, ref, to, start
<1> QED
  BY <1>7, <1>19, <1>20 DEF c, w, end

LEMMA ProcessCut ==
    ASSUME Inv, Cut, Process
    PROVE  Cut'
<1> DEFINE c == Head(pending)
           f == FilterWindow(c)
           w == [start |-> c.start, ref |-> Reference(c), from |-> f[1].t, to |-> Last(f).t]
           r == [id |-> c.id, t |-> c.end]
<1>1. /\ UNCHANGED imu
      /\ pending # <<>> /\ pending' = Tail(pending)
      /\ lastRef' = c.end /\ results' = Append(results, r) /\ windows' = Append(windows, w)
  BY DEF Process
<1>2. Fits(imu, w, c.end) /\ w.from = lastRef
  BY ProcessFits
<1>3. r \in Processed /\ r.t = c.end
  <2>1. c \in WaitingClouds
    BY <1>1, HeadId DEF Inv
  <2> QED
    BY <2>1 DEF WaitingClouds, Processed
<1> HIDE DEF c, f, w, r
<1>4. LastStamp' = LastStamp /\ (imu # <<>> => LastStamp = Last(imu))
  BY <1>1 DEF LastStamp, Last
<1>5. Buffered'
  <2>1. \A i \in 1..Len(pending') : pending'[i].start <= pending'[i].end
    BY <1>1, PopCut DEF Cut
  <2>2. lastRef' <= LastStamp'
    BY <1>1, <1>2, <1>4 DEF Fits
  <2> QED
    BY <1>1, <2>1, <2>2 DEF Cut, Buffered
<1>6. results \in Seq(Processed) /\ windows \in Seq(Windows) /\ w \in Windows
      /\ Len(windows) = Len(results)
  BY <1>2 DEF Inv, Typed, Cut, Told, Fits
<1>7. /\ results' # <<>> /\ Len(results') = Len(results) + 1 /\ Len(results) \in Nat
      /\ results'[Len(results) + 1] = r
      /\ \A i \in 1..Len(results) : results'[i] = results[i]
  BY <1>1, <1>3, <1>6, AppendFacts
<1>8. /\ windows' \in Seq(Windows) /\ Len(windows') = Len(results) + 1
      /\ windows'[Len(results) + 1] = w
      /\ \A i \in 1..Len(results) : windows'[i] = windows[i]
  BY <1>1, <1>6, AppendFacts
<1>9. Last(results').t = lastRef'
  BY <1>1, <1>3, <1>7 DEF Last
<1>10. ASSUME NEW i \in 1..Len(results')
       PROVE  /\ Fits(imu', windows'[i], results'[i].t)
              /\ i > 1 => windows'[i].from = results'[i - 1].t
  <2>1. CASE i \in 1..Len(results)
    <3>1. Fits(imu, windows[i], results[i].t) /\ (i > 1 => windows[i].from = results[i - 1].t)
      BY <2>1 DEF Cut, Told
    <3>2. windows'[i] = windows[i] /\ results'[i] = results[i]
      BY <1>7, <1>8, <2>1
    <3>3. i > 1 => results'[i - 1] = results[i - 1]
      BY <1>7, <2>1
    <3> QED
      BY <1>1, <3>1, <3>2, <3>3
  <2>2. CASE i = Len(results) + 1
    <3>1. i > 1 => results # <<>> /\ results'[i - 1] = Last(results)
      <4>1. ASSUME i > 1
            PROVE  Len(results) \in 1..Len(results)
        BY <1>7, <2>2, <4>1
      <4> QED
        BY <1>6, <1>7, <2>2, <4>1 DEF Last
    <3>2. Fits(imu', w, c.end)
      BY <1>1, <1>2
    <3>3. i > 1 => w.from = results'[i - 1].t
      BY <1>2, <3>1 DEF Cut, Told
    <3> QED
      BY <1>3, <1>7, <1>8, <2>2, <3>2, <3>3
  <2> QED
    BY <1>7, <2>1, <2>2
<1>11. Told'
  BY <1>7, <1>8, <1>9, <1>10 DEF Told
<1> QED
  BY <1>5, <1>11 DEF Cut
LEMMA CutHolds == Spec => []Cut
<1>1. Inv /\ Cut /\ [Next]_vars => Cut'
  <2> SUFFICES ASSUME Inv, Cut, [Next]_vars
               PROVE  Cut'
    OBVIOUS
  <2>1. CASE Next
    BY <2>1, OnImuCut, OnCloudCut, QuietCut, ProcessCut DEF Next, Drain
  <2>2. CASE UNCHANGED vars
    <3>1. UNCHANGED <<imu, lastRef, pending, results, windows>>
      BY <2>2 DEF vars
    <3> QED
      BY <3>1 DEF Cut, Buffered, Told, LastStamp, Last
  <2> QED
    BY <2>1, <2>2
<1> QED
  BY InitCut, InvHolds, <1>1, PTL DEF Spec

-----------------------------------------------------------------------------
\* The pipeline keeps its types (slam_pipeline.h, slam_pipeline.cpp:12-90).
THEOREM TypeCorrect == Spec => []TypeOK
<1>1. Inv /\ Cut => TypeOK
  BY DEF Inv, Cut, Typed, Told, Windows, TypeOK
<1> QED
  BY InvHolds, CutHolds, <1>1, PTL

\* Whatever samples have arrived, every range they cover has a sound window
\* (buffer.cpp:14-84).
THEOREM BufferSound == Spec => []WindowsSound
<1>1. Cut => WindowsSound
  BY WindowSound DEF Cut, Buffered, WindowsSound
<1> QED
  BY CutHolds, <1>1, PTL

\* Whatever samples have arrived, every range they cover gives each of its
\* instants a sound pose (deskew.cpp:20-75).
THEOREM DeskewSound == Spec => []PosesSound
<1>1. Cut => PosesSound
  BY PoseSound DEF Cut, Buffered, PosesSound
<1> QED
  BY CutHolds, <1>1, PTL

\* The filter's windows follow each other, and lose at most the last interval,
\* when a sample is stamped at the end of the scan (buffer.cpp:52-63).
THEOREM OnlyTailLost == Spec => []OnlyExactHitLosesTail
<1>1. Cut => OnlyExactHitLosesTail
  <2> SUFFICES ASSUME Cut, NEW i \in 1..Len(results)
               PROVE  LET w == windows[i]
                          end == results[i].t
                          stamps == {imu[k] : k \in 1..Len(imu)}
                      IN  /\ i > 1 => w.from = results[i - 1].t
                          /\ \/ w.to = end
                             \/ /\ end \in stamps
                                /\ w.to = Max({w.from} \union {t \in stamps : t < end})
    BY DEF OnlyExactHitLosesTail
  <2> DEFINE w == windows[i]
             end == results[i].t
             stamps == {imu[k] : k \in 1..Len(imu)}
             T == {w.from} \union {t \in stamps : t < end}
  <2>1. Fits(imu, w, end) /\ (i > 1 => w.from = results[i - 1].t)
    BY DEF Cut, Told
  <2>2. w.from \in Nat /\ w.to \in Nat /\ end \in Nat /\ w.from <= w.to
    BY <2>1 DEF Fits, Windows
  <2>3. \A k \in 1..Len(imu) : imu[k] \in Nat
    BY DEF Cut, Buffered, Increasing
  <2>4. ASSUME w.to # end
        PROVE  end \in stamps /\ w.to = Max(T)
    <3>1. /\ TailLost(imu, w.to, end) /\ w.to < end
          /\ w.to = w.from \/ \E k \in 1..Len(imu) : imu[k] = w.to
      BY <2>1, <2>4 DEF Fits
    <3>2. w.to \in T
      BY <3>1
    <3>3. \A t \in T : w.to >= t /\ t \in Nat
      BY <2>2, <2>3, <3>1 DEF TailLost
    <3>4. end \in stamps
      BY <3>1 DEF TailLost
    <3> HIDE DEF T, w
    <3>5. \A t \in T : (\A u \in T : t >= u) => t = w.to
      BY <2>2, <3>2, <3>3
    <3> QED
      BY <3>2, <3>3, <3>4, <3>5 DEF Max
  <2> QED
    BY <2>1, <2>4
<1> QED
  BY CutHolds, <1>1, PTL

\* The points of a scan are moved to the instant its state is predicted to, or
\* both lie in the last interval before a sample stamped at its end
\* (slam_pipeline.cpp:66-76, deskew.cpp:77-110).
THEOREM PointsMeet == Spec => []PointsMeetPrediction
<1>1. Cut => PointsMeetPrediction
  <2> SUFFICES ASSUME Cut, NEW i \in 1..Len(results)
               PROVE  LET w == windows[i]
                          end == results[i].t
                          stamps == {imu[k] : k \in 1..Len(imu)}
                      IN  \/ w.ref = w.to
                          \/ /\ end \in stamps
                             /\ \A t \in stamps : t < end => t <= w.ref /\ t <= w.to
    BY DEF PointsMeetPrediction
  <2>1. Fits(imu, windows[i], results[i].t)
    BY DEF Cut, Told
  <2> QED
    BY <2>1 DEF Fits, TailLost
<1> QED
  BY CutHolds, <1>1, PTL
=============================================================================
