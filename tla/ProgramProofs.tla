--------------------------- MODULE ProgramProofs ----------------------------
(***************************************************************************)
(* The program, for any invocations, bags, grids and clocks within the     *)
(* assumptions of its modules:                                             *)
(*   - the voxel grid and the decoders, as lemmas about their operators;   *)
(*   - the program implements a bag reader and a pipeline on their own, so *)
(*     that what BagReaderProofs and SlamPipelineProofs prove holds of it  *)
(*     (ReaderRefined, PipelineRefined);                                   *)
(*   - the properties of the whole.  MainInv relates the stage of main()   *)
(*     to reader and pipeline, Kept says what was decoded, Rowed and       *)
(*     Marked what the files hold of scans and of ground truth.            *)
(***************************************************************************)
EXTENDS Program, SequenceTheorems, FiniteSetTheorems, TLAPS

-----------------------------------------------------------------------------
(* The voxel grid. *)

\* Division by a positive number rounds down.
LEMMA Division ==
    ASSUME NEW v \in Int, NEW d \in Nat \ {0}
    PROVE  /\ v \div d \in Int /\ v % d \in 0..(d - 1)
           /\ v = d * (v \div d) + (v % d)
OBVIOUS

LEMMA DivisionOrder ==
    ASSUME NEW v \in Int, NEW w \in Int, v <= w, NEW d \in Nat \ {0}
    PROVE  v \div d <= w \div d
<1>1. PICK q, r : q = v \div d /\ r = w \div d
  OBVIOUS
<1>2. /\ q \in Int /\ r \in Int
      /\ d * q <= v /\ w < d * r + d
  BY <1>1, Division
<1>3. ASSUME r + 1 <= q
      PROVE  FALSE
  <2>1. d * (q - r - 1) >= 0
    BY <1>2, <1>3
  <2>2. d * (q - r - 1) = d * q - d * r - d
    BY <1>2
  <2> QED
    BY <1>2, <2>1, <2>2
<1> QED
  BY <1>1, <1>2, <1>3

\* What is written as a multiple and a remainder is so in only one way.
LEMMA Digits ==
    ASSUME NEW d \in Nat \ {0}, NEW a \in 0..(d - 1), NEW b \in 0..(d - 1),
           NEW q \in Int, NEW r \in Int, a + d * q = b + d * r
    PROVE  a = b /\ q = r
<1>1. d * (q - r) = b - a
  OBVIOUS
<1>2. CASE q = r
  BY <1>2
<1>3. CASE q >= r + 1
  <2>1. d * (q - r) >= d
    BY <1>3
  <2> QED
    BY <1>1, <2>1
<1>4. CASE q + 1 <= r
  <2>1. d * (q - r) <= -d
    BY <1>4
  <2> QED
    BY <1>1, <2>1
<1> QED
  BY <1>2, <1>3, <1>4

LEMMA Remainder ==
    ASSUME NEW d \in Nat \ {0}, NEW v \in 0..(d - 1)
    PROVE  v % d = v
<1>1. v = d * (v \div d) + (v % d) /\ v % d \in 0..(d - 1) /\ v \div d \in Int
  BY Division
<1>2. (v % d) + d * (v \div d) = v + d * 0
  BY <1>1
<1> QED
  BY <1>1, <1>2, Digits

LEMMA BiasFacts == Bias \in Nat /\ 2 * Bias = KeySpan
<1>1. KeySpan = 2 * (KeySpan \div 2) + (KeySpan % 2) /\ KeySpan \div 2 \in Int
  BY Division, GridAssumption
<1> QED
  BY <1>1, GridAssumption DEF Bias

Place == [1..3 -> Int]

\* The low corner of the cube of a point.
CubeOf(p) == [a \in 1..3 |-> Leaf * Index(p[a])]

Corners == [1..3 -> {Leaf * k : k \in -Bias..(Bias - 1)}]

\* In one coordinate, the cube of a point is the only one it is in.
LEMMA OneCube ==
    ASSUME NEW v \in Int
    PROVE  /\ Index(v) \in Int
           /\ Leaf * Index(v) <= v /\ v < Leaf * Index(v) + Leaf
           /\ \A k \in Int : Leaf * k <= v /\ v < Leaf * k + Leaf => k = Index(v)
           /\ -Bias * Leaf <= v /\ v < Bias * Leaf => Index(v) \in -Bias..(Bias - 1)
<1>1. Leaf \in Nat \ {0} /\ Bias \in Nat
  BY GridAssumption, BiasFacts
<1>2. /\ Index(v) \in Int /\ v = Leaf * Index(v) + (v % Leaf)
      /\ v % Leaf \in 0..(Leaf - 1)
  BY <1>1, Division DEF Index
<1>3. Leaf * Index(v) \in Int /\ v % Leaf \in Int
  BY <1>1, <1>2
<1>4. Leaf * Index(v) <= v /\ v < Leaf * Index(v) + Leaf
  BY <1>1, <1>2, <1>3
<1>5. ASSUME NEW k \in Int, Leaf * k <= v, v < Leaf * k + Leaf
      PROVE  k = Index(v)
  <2>1. v - Leaf * k \in 0..(Leaf - 1)
    BY <1>1, <1>5
  <2>2. (v - Leaf * k) + Leaf * k = (v % Leaf) + Leaf * Index(v)
    BY <1>1, <1>2, <1>3
  <2> QED
    BY <1>1, <1>2, <2>1, <2>2, Digits
<1>6. ASSUME -Bias * Leaf <= v, v < Bias * Leaf
      PROVE  Index(v) \in -Bias..(Bias - 1)
  <2> DEFINE k == Index(v)
  <2>1. k \in Int /\ Leaf * k <= v /\ v < Leaf * k + Leaf
    BY <1>2, <1>4
  <2> SUFFICES k \in -Bias..(Bias - 1)
    OBVIOUS
  <2> HIDE DEF k
  <2>2. CASE k >= Bias
    <3>1. Leaf * k >= Leaf * Bias
      BY <1>1, <2>1, <2>2
    <3>2. Leaf * Bias = Bias * Leaf /\ Leaf * Bias \in Int /\ Leaf * k \in Int
      BY <1>1, <2>1
    <3> QED
      BY <1>6, <2>1, <3>1, <3>2
  <2>3. CASE k + 1 <= -Bias
    <3>1. Leaf * (k + 1) <= Leaf * (-Bias)
      BY <1>1, <2>1, <2>3
    <3>2. Leaf * (k + 1) = Leaf * k + Leaf /\ Leaf * (-Bias) = -Bias * Leaf
      BY <1>1, <2>1
    <3> QED
      BY <1>1, <1>6, <2>1, <3>1, <3>2
  <2> QED
    BY <1>1, <2>1, <2>2, <2>3
<1> QED
  BY <1>2, <1>4, <1>5, <1>6

LEMMA CubeFacts ==
    ASSUME NEW p \in Place, InRange(p)
    PROVE  /\ CubeOf(p) \in Corners
           /\ \A c \in Corners : InCube(p, c) <=> c = CubeOf(p)
<1>1. \A a \in 1..3 : p[a] \in Int
  BY DEF Place
<1>2. \A a \in 1..3 : Index(p[a]) \in -Bias..(Bias - 1)
  BY <1>1, OneCube DEF InRange
<1>3. CubeOf(p) \in Corners
  BY <1>2 DEF CubeOf, Corners
<1>4. InCube(p, CubeOf(p))
  BY <1>1, OneCube DEF CubeOf, InCube
<1>5. ASSUME NEW c \in Corners, InCube(p, c)
      PROVE  c = CubeOf(p)
  <2>1. ASSUME NEW a \in 1..3
        PROVE  c[a] = Leaf * Index(p[a])
    <3>1. PICK k \in -Bias..(Bias - 1) : c[a] = Leaf * k
      BY DEF Corners
    <3>2. k \in Int
      BY <3>1, BiasFacts
    <3>3. Leaf * k <= p[a] /\ p[a] < Leaf * k + Leaf
      BY <1>5, <3>1 DEF InCube
    <3>4. k = Index(p[a])
      BY <1>1, <3>2, <3>3, OneCube
    <3> QED
      BY <3>1, <3>4
  <2> QED
    BY <2>1 DEF CubeOf, Corners
<1> QED
  BY <1>3, <1>4, <1>5

\* An index before the others in a key.
Packed(index, rest) == index + KeySpan * rest

LEMMA PackedOnce ==
    \A a, b \in 0..(KeySpan - 1) : \A q, r \in Int :
        /\ Packed(a, q) \in Int
        /\ Packed(a, q) = Packed(b, r) => a = b /\ q = r
<1> SUFFICES ASSUME NEW a \in 0..(KeySpan - 1), NEW b \in 0..(KeySpan - 1),
                    NEW q \in Int, NEW r \in Int
             PROVE  Packed(a, q) \in Int /\ (Packed(a, q) = Packed(b, r) => a = b /\ q = r)
  OBVIOUS
<1>1. KeySpan \in Nat \ {0}
  BY GridAssumption
<1>2. ASSUME a + KeySpan * q = b + KeySpan * r
      PROVE  a = b /\ q = r
  BY <1>1, <1>2, Digits
<1> QED
  BY <1>1, <1>2 DEF Packed

\* Two points of a scan within range have one key when they are in one cube.
LEMMA KeyIsCube ==
    ASSUME NEW p \in Place, NEW q \in Place, InRange(p), InRange(q)
    PROVE  VoxelKey(p) = VoxelKey(q) <=> CubeOf(p) = CubeOf(q)
<1> DEFINE Bits(v) == (Index(v) + Bias) % KeySpan
<1>1. KeySpan \in Nat \ {0} /\ Bias \in Nat /\ 2 * Bias = KeySpan /\ Leaf \in Nat \ {0}
  BY BiasFacts, GridAssumption
<1>2. \A a \in 1..3 : /\ p[a] \in Int /\ Index(p[a]) \in -Bias..(Bias - 1)
                      /\ q[a] \in Int /\ Index(q[a]) \in -Bias..(Bias - 1)
  BY OneCube DEF InRange, Place
<1>3. ASSUME NEW v, Index(v) \in -Bias..(Bias - 1)
      PROVE  Bits(v) = Index(v) + Bias /\ Bits(v) \in 0..(KeySpan - 1)
  <2>1. Index(v) + Bias \in 0..(KeySpan - 1)
    BY <1>1, <1>3
  <2> QED
    BY <1>1, <2>1, Remainder
<1>4. \A a \in 1..3 : /\ Bits(p[a]) = Index(p[a]) + Bias /\ Bits(p[a]) \in 0..(KeySpan - 1)
                      /\ Bits(q[a]) = Index(q[a]) + Bias /\ Bits(q[a]) \in 0..(KeySpan - 1)
  BY <1>2, <1>3
<1>5. /\ VoxelKey(p) = Packed(Bits(p[1]), Packed(Bits(p[2]), Bits(p[3])))
      /\ VoxelKey(q) = Packed(Bits(q[1]), Packed(Bits(q[2]), Bits(q[3])))
  BY DEF VoxelKey, Packed
<1> HIDE DEF Bits
<1>6. ASSUME VoxelKey(p) = VoxelKey(q)
      PROVE  \A a \in 1..3 : Index(p[a]) = Index(q[a])
  <2>1. Bits(p[3]) \in Int /\ Bits(q[3]) \in Int
    BY <1>1, <1>4
  <2>2. Packed(Bits(p[2]), Bits(p[3])) \in Int /\ Packed(Bits(q[2]), Bits(q[3])) \in Int
    BY <1>4, <2>1, PackedOnce
  <2>3. /\ Bits(p[1]) = Bits(q[1])
        /\ Packed(Bits(p[2]), Bits(p[3])) = Packed(Bits(q[2]), Bits(q[3]))
    <3>1. Bits(p[1]) \in 0..(KeySpan - 1) /\ Bits(q[1]) \in 0..(KeySpan - 1)
      BY <1>4
    <3>2. Packed(Bits(p[1]), Packed(Bits(p[2]), Bits(p[3])))
              = Packed(Bits(q[1]), Packed(Bits(q[2]), Bits(q[3])))
      BY <1>5, <1>6
    <3> QED
      BY <2>2, <3>1, <3>2, PackedOnce
  <2>4. Bits(p[2]) = Bits(q[2]) /\ Bits(p[3]) = Bits(q[3])
    BY <1>4, <2>1, <2>3, PackedOnce
  <2>5. \A a \in 1..3 : Bits(p[a]) = Bits(q[a])
    BY <2>3, <2>4
  <2> QED
    BY <1>1, <1>2, <1>4, <2>5
<1>7. ASSUME \A a \in 1..3 : Index(p[a]) = Index(q[a])
      PROVE  VoxelKey(p) = VoxelKey(q)
  BY <1>4, <1>5, <1>7
<1>8. (\A a \in 1..3 : Index(p[a]) = Index(q[a])) <=> CubeOf(p) = CubeOf(q)
  <2>1. \A a \in 1..3 : Leaf * Index(p[a]) = Leaf * Index(q[a]) => Index(p[a]) = Index(q[a])
    <3>1. ASSUME NEW i \in Int, NEW j \in Int, Leaf * i = Leaf * j
          PROVE  i = j
      BY <1>1, <3>1, Digits
    <3>2. \A a \in 1..3 : Index(p[a]) \in Int /\ Index(q[a]) \in Int
      BY <1>2, OneCube
    <3> QED
      BY <3>1, <3>2
  <2>2. \A a \in 1..3 : CubeOf(p)[a] = Leaf * Index(p[a]) /\ CubeOf(q)[a] = Leaf * Index(q[a])
    BY DEF CubeOf
  <2>3. (\A a \in 1..3 : Index(p[a]) = Index(q[a])) => CubeOf(p) = CubeOf(q)
    BY DEF CubeOf
  <2> QED
    BY <2>1, <2>2, <2>3
<1> QED
  BY <1>6, <1>7, <1>8

\* Of every cloud within the range of the keys, whatever its points and the
\* leaf, voxel_downsample() makes one centroid for each cube that holds a finite
\* point (voxel_grid.cpp:21-63).
THEOREM CentroidPerCube ==
    ASSUME NEW points \in Seq({<<>>} \union Place)
    PROVE  OneCentroidPerCube(points)
<1> SUFFICES ASSUME \A i \in Finite(points) : InRange(points[i])
             PROVE  Downsample(points) =
                        {Centroid(points, {i \in Finite(points) : InCube(points[i], c)}) :
                            c \in {c \in Corners : \E i \in Finite(points) :
                                                       InCube(points[i], c)}}
  BY DEF OneCentroidPerCube, Corners
<1> DEFINE Members(key) == {i \in Finite(points) : VoxelKey(points[i]) = key}
           Inside(c) == {i \in Finite(points) : InCube(points[i], c)}
           Occupied == {c \in Corners : \E i \in Finite(points) : InCube(points[i], c)}
<1>1. \A i \in Finite(points) : points[i] \in Place /\ InRange(points[i])
  <2>1. \A i \in 1..Len(points) : points[i] \in {<<>>} \union Place
    BY ElementOfSeq
  <2> QED
    BY <2>1 DEF Finite
<1>2. ASSUME NEW i \in Finite(points)
      PROVE  Members(VoxelKey(points[i])) = Inside(CubeOf(points[i]))
  <2>1. ASSUME NEW j \in Finite(points)
        PROVE  VoxelKey(points[j]) = VoxelKey(points[i])
                   <=> InCube(points[j], CubeOf(points[i]))
    <3>1. CubeOf(points[i]) \in Corners
      BY <1>1, CubeFacts
    <3>2. InCube(points[j], CubeOf(points[i])) <=> CubeOf(points[i]) = CubeOf(points[j])
      BY <1>1, <3>1, CubeFacts
    <3>3. VoxelKey(points[j]) = VoxelKey(points[i]) <=> CubeOf(points[j]) = CubeOf(points[i])
      BY <1>1, KeyIsCube
    <3> QED
      BY <3>2, <3>3
  <2> QED
    BY <2>1
<1>3. Downsample(points) = {Centroid(points, Members(VoxelKey(points[i]))) : i \in Finite(points)}
  BY DEF Downsample
<1>4. Occupied = {CubeOf(points[i]) : i \in Finite(points)}
  BY <1>1, CubeFacts
<1>5. {Centroid(points, Inside(c)) : c \in Occupied}
          = {Centroid(points, Inside(CubeOf(points[i]))) : i \in Finite(points)}
  <2> HIDE DEF Occupied, Inside
  <2> QED
    BY <1>4
<1> HIDE DEF Members
<1>6. {Centroid(points, Members(VoxelKey(points[i]))) : i \in Finite(points)}
          = {Centroid(points, Inside(CubeOf(points[i]))) : i \in Finite(points)}
  <2> HIDE DEF Inside
  <2> QED
    BY <1>2
<1> QED
  BY <1>3, <1>5, <1>6

-----------------------------------------------------------------------------
(* The cloud decoders. *)

Points == [at : Int, pos : {<<>>} \union Place]

\* The nearest double is at most half a step away, and keeps the order.
LEMMA RoundedFacts ==
    ASSUME NEW t \in Int
    PROVE  /\ Rounded(t) \in Int
           /\ 2 * Rounded(t) <= 2 * t + FloatStep
           /\ 2 * t < 2 * Rounded(t) + FloatStep
           /\ \A u \in Int : t <= u => Rounded(t) <= Rounded(u)
<1>1. FloatStep \in Nat \ {0} /\ 2 * FloatStep \in Nat \ {0}
  BY DecoderAssumption
<1>2. ASSUME NEW x \in Int
      PROVE  (2 * x + FloatStep) \div (2 * FloatStep) \in Int
  <2>1. 2 * x + FloatStep \in Int
    BY <1>1
  <2> QED
    BY <1>1, <2>1, Division
<1>3. PICK q : q = (2 * t + FloatStep) \div (2 * FloatStep)
  OBVIOUS
<1>4. q \in Int /\ Rounded(t) = FloatStep * q
  BY <1>2, <1>3 DEF Rounded
<1>5. /\ (2 * FloatStep) * q <= 2 * t + FloatStep
      /\ 2 * t + FloatStep < (2 * FloatStep) * q + 2 * FloatStep
  <2>1. PICK v, d : v = 2 * t + FloatStep /\ d = 2 * FloatStep
    OBVIOUS
  <2>2. v \in Int /\ d \in Nat \ {0} /\ q = v \div d
    BY <1>1, <1>3, <2>1
  <2>3. d * q <= v /\ v < d * q + d
    BY <1>4, <2>2, Division
  <2> QED
    BY <2>1, <2>3
<1>6. PICK r : r = FloatStep * q
  OBVIOUS
<1>7. r \in Int /\ (2 * FloatStep) * q = 2 * r
  BY <1>1, <1>4, <1>6
<1>8. ASSUME NEW u \in Int, t <= u
      PROVE  Rounded(t) <= Rounded(u)
  <2>1. PICK w : w = (2 * u + FloatStep) \div (2 * FloatStep)
    OBVIOUS
  <2>2. w \in Int /\ Rounded(u) = FloatStep * w
    BY <1>2, <2>1 DEF Rounded
  <2>3. q <= w
    <3>1. /\ 2 * t + FloatStep \in Int /\ 2 * u + FloatStep \in Int
          /\ 2 * t + FloatStep <= 2 * u + FloatStep
      BY <1>1, <1>8
    <3> QED
      BY <1>1, <1>3, <2>1, <3>1, DivisionOrder
  <2>4. FloatStep * (w - q) >= 0 /\ FloatStep * (w - q) = FloatStep * w - FloatStep * q
    BY <1>1, <1>4, <2>2, <2>3
  <2> QED
    BY <1>1, <1>4, <2>2, <2>4
<1> QED
  BY <1>1, <1>4, <1>5, <1>6, <1>7, <1>8

LEMMA TruncatedFacts ==
    ASSUME NEW t \in Int
    PROVE  /\ Truncated(t) \in Nat
           /\ t > 0 => Parts * Truncated(t) <= t /\ t < Parts * Truncated(t) + Parts
           /\ t <= 0 => Truncated(t) = 0
           /\ \A u \in Int : t <= u => Truncated(t) <= Truncated(u)
<1>1. Parts \in Nat \ {0}
  BY DecoderAssumption
<1>2. ASSUME NEW x \in Int, x > 0
      PROVE  /\ x \div Parts \in Nat
             /\ Parts * (x \div Parts) <= x /\ x < Parts * (x \div Parts) + Parts
  <2>1. PICK q : q = x \div Parts
    OBVIOUS
  <2>2. q \in Int /\ Parts * q <= x /\ x < Parts * q + Parts
    BY <1>1, <1>2, <2>1, Division
  <2>3. ASSUME q <= -1
        PROVE  FALSE
    <3>1. Parts * (-1 - q) >= 0 /\ Parts * (-1 - q) = -(Parts * q) - Parts
      BY <1>1, <2>2, <2>3
    <3> QED
      BY <1>1, <1>2, <2>2, <3>1
  <2> QED
    BY <2>1, <2>2, <2>3
<1>3. \A x \in Int : Truncated(x) \in Nat
  BY <1>2 DEF Truncated
<1>4. ASSUME NEW u \in Int, t <= u
      PROVE  Truncated(t) <= Truncated(u)
  <2>1. CASE t > 0
    <3>1. u > 0
      BY <1>4, <2>1
    <3>2. t \div Parts <= u \div Parts
      BY <1>1, <1>4, DivisionOrder
    <3> QED
      BY <2>1, <3>1, <3>2 DEF Truncated
  <2>2. CASE ~(t > 0)
    <3>1. Truncated(t) = 0 /\ Truncated(u) \in Nat
      BY <1>3, <2>2 DEF Truncated
    <3> QED
      BY <3>1
  <2> QED
    BY <2>1, <2>2
<1> QED
  BY <1>2, <1>3, <1>4 DEF Truncated

LEMMA LateType ==
    ASSUME NEW sweep, sweep.stamp \in Nat, sweep.points \in Seq(Points),
           NEW i \in 1..Len(sweep.points)
    PROVE  /\ sweep.points[i] \in Points /\ sweep.points[i].at \in Int
           /\ Parts * sweep.stamp \in Int
           /\ sweep.points[i].at - Parts * sweep.stamp \in Int
           /\ Late(sweep, i) \in Nat /\ Due(sweep, i) \in Nat
<1>1. sweep.points[i] \in Points
  BY ElementOfSeq
<1>2. sweep.points[i].at \in Int
  BY <1>1 DEF Points
<1>3. Parts * sweep.stamp \in Int
  BY DecoderAssumption
<1>4. sweep.points[i].at - Parts * sweep.stamp \in Int
  BY <1>2, <1>3
<1>5. Late(sweep, i) \in Nat
  BY <1>4, TruncatedFacts DEF Late
<1>6. Due(sweep, i) \in Nat
  BY <1>4 DEF Due
<1> QED
  BY <1>1, <1>2, <1>3, <1>4, <1>5, <1>6

LEMMA OnlyPresent ==
    ASSUME NEW names, NEW present, NEW k \in Nat,
           {i \in 1..Len(names) : names[i] \in present} = {k}
    PROVE  FirstPresent(names, present) = names[k]
<1> DEFINE there == {i \in 1..Len(names) : names[i] \in present}
           first == CHOOSE i \in there : \A j \in there : i <= j
<1>1. FirstPresent(names, present) = IF there = {} THEN "" ELSE names[first]
  BY DEF FirstPresent
<1>2. there = {k}
  OBVIOUS
<1> HIDE DEF there
<1>3. \E i \in there : \A j \in there : i <= j
  BY <1>2
<1>4. first \in there
  BY <1>3
<1> QED
  BY <1>1, <1>2, <1>4

\* The field that holds the time.
LEMMA TimeField ==
    /\ FirstPresent(TimeNames, {"x", "t"}) = "t"
    /\ FirstPresent(TimeNames, {"x", "timestamp"}) = "timestamp"
<1>1. {i \in 1..Len(TimeNames) : TimeNames[i] \in {"x", "t"}} = {1}
  BY DEF TimeNames
<1>2. {i \in 1..Len(TimeNames) : TimeNames[i] \in {"x", "timestamp"}} = {3}
  BY DEF TimeNames
<1>3. FirstPresent(TimeNames, {"x", "t"}) = TimeNames[1]
  BY <1>1, OnlyPresent
<1>4. FirstPresent(TimeNames, {"x", "timestamp"}) = TimeNames[3]
  BY <1>2, OnlyPresent
<1> QED
  BY <1>3, <1>4 DEF TimeNames

\* What the rest of the program needs of a decoded cloud.
Decoded(decoder, sweep, cloud) ==
    /\ Normalized(decoder, sweep, cloud)
    /\ \A i \in 1..Len(sweep.points) : cloud.offsets[i] \in 0..(OffsetLimit - 1)
    /\ cloud.points = [i \in 1..Len(sweep.points) |-> sweep.points[i].pos]

LEMMA ConvertedFacts ==
    ASSUME NEW n \in Nat, NEW time, DOMAIN time = 1..n, \A i \in 1..n : time[i] \in Nat,
           NEW offsets \in Converted(time)
    PROVE  /\ Len(offsets) = n
           /\ \A i \in 1..n : /\ offsets[i] \in 0..(OffsetLimit - 1)
                              /\ time[i] < OffsetLimit => offsets[i] = time[i]
<1> DEFINE wild == {i \in DOMAIN time : time[i] >= OffsetLimit}
<1>1. PICK any \in [wild -> 0..(OffsetLimit - 1)] :
          offsets = [i \in DOMAIN time |-> IF i \in wild THEN any[i] ELSE time[i]]
  BY DEF Converted
<1>2. \A i \in 1..n : i \in wild <=> time[i] >= OffsetLimit
  OBVIOUS
<1> HIDE DEF wild
<1>3. Len(offsets) = n /\ \A i \in 1..n : offsets[i] = IF i \in wild THEN any[i] ELSE time[i]
  BY <1>1
<1>4. ASSUME NEW i \in 1..n
      PROVE  /\ offsets[i] \in 0..(OffsetLimit - 1)
             /\ time[i] < OffsetLimit => offsets[i] = time[i]
  <2>1. CASE i \in wild
    BY <1>1, <1>2, <1>3, <2>1, DecoderAssumption
  <2>2. CASE i \notin wild
    BY <1>2, <1>3, <2>2, DecoderAssumption
  <2> QED
    BY <2>1, <2>2
<1> QED
  BY <1>3, <1>4

Times(mode, msg, name, n) ==
    [i \in 1..n |-> Offset32(mode, msg.stamp, msg.fields[name], msg.points[i].times[name])]

\* The points whose time is not past the range of the offsets.
Within(sweep, slack) ==
    {i \in 1..Len(sweep.points) : Due(sweep, i) + slack < Parts * OffsetLimit}

\* The times are those of the points since the stamp, to within the slack.
Timely(sweep, time, slack) ==
    /\ \A i \in Within(sweep, slack) :
           /\ time[i] \in Nat /\ time[i] < OffsetLimit
           /\ Parts * time[i] <= Due(sweep, i) + slack
           /\ Due(sweep, i) - slack < Parts * (time[i] + 1)
    /\ \A i, j \in Within(sweep, slack) :
           sweep.points[i].at <= sweep.points[j].at => time[i] <= time[j]

\* Each point of the message has its position and its time.
Faithful(sweep, msg, time, slack) ==
    /\ \A i \in 1..Len(sweep.points) :
           msg.points[i].pos = sweep.points[i].pos /\ time[i] \in Nat
    /\ Timely(sweep, time, slack)

\* Truncated to ticks, differences that are off by no more than the slack, and
\* keep the order, are such times.
LEMMA TruncatedTimely ==
    ASSUME NEW sweep, sweep.stamp \in Nat, sweep.points \in Seq(Points),
           NEW slack \in Nat, NEW time, NEW since,
           \A i \in 1..Len(sweep.points) :
               /\ since[i] \in Int /\ time[i] = Truncated(since[i])
               /\ since[i] <= (sweep.points[i].at - Parts * sweep.stamp) + slack
               /\ (sweep.points[i].at - Parts * sweep.stamp) <= since[i] + slack,
           \A i, j \in 1..Len(sweep.points) :
               sweep.points[i].at <= sweep.points[j].at => since[i] <= since[j]
    PROVE  Timely(sweep, time, slack)
<1>1. Parts \in Nat \ {0} /\ OffsetLimit \in Nat \ {0}
  BY DecoderAssumption
<1>2. ASSUME NEW i \in Within(sweep, slack)
      PROVE  /\ time[i] \in Nat /\ time[i] < OffsetLimit
             /\ Parts * time[i] <= Due(sweep, i) + slack
             /\ Due(sweep, i) - slack < Parts * (time[i] + 1)
  <2>1. i \in 1..Len(sweep.points) /\ Due(sweep, i) + slack < Parts * OffsetLimit
    BY DEF Within
  <2>2. PICK late, x, o : /\ late = sweep.points[i].at - Parts * sweep.stamp
                          /\ x = since[i] /\ o = time[i]
    OBVIOUS
  <2>3. late \in Int /\ x \in Int /\ o = Truncated(x) /\ x <= late + slack /\ late <= x + slack
    BY <2>1, <2>2, LateType
  <2>4. PICK due : due = Due(sweep, i)
    OBVIOUS
  <2>5. due = (IF late > 0 THEN late ELSE 0) /\ due + slack < Parts * OffsetLimit
    BY <2>1, <2>2, <2>4 DEF Due
  <2>6. PICK y, l : y = Parts * o /\ l = Parts * OffsetLimit
    OBVIOUS
  <2>7. /\ o \in Nat /\ y \in Nat /\ l \in Nat
        /\ x > 0 => y <= x /\ x < y + Parts
        /\ x <= 0 => o = 0 /\ y = 0
    <3>1. /\ Truncated(x) \in Nat
          /\ x > 0 => Parts * Truncated(x) <= x /\ x < Parts * Truncated(x) + Parts
          /\ x <= 0 => Truncated(x) = 0
      BY <2>3, TruncatedFacts
    <3>2. o \in Nat /\ Parts * o \in Nat /\ Parts * OffsetLimit \in Nat /\ Parts * 0 = 0
      BY <1>1, <2>3, <3>1
    <3>3. y \in Nat /\ l \in Nat
      BY <2>6, <3>2
    <3>4. x > 0 => y <= x /\ x < y + Parts
      BY <2>3, <2>6, <3>1
    <3> QED
      BY <2>3, <2>6, <3>1, <3>2, <3>3, <3>4
  <2>8. y <= due + slack /\ due - slack < y + Parts /\ y < l
    <3>1. due \in Nat /\ due + slack < l
      BY <2>3, <2>5, <2>6
    <3>2. CASE x > 0
      <4>1. y <= due + slack
        BY <2>3, <2>5, <2>7, <3>1, <3>2
      <4>2. due - slack < y + Parts
        BY <1>1, <2>3, <2>5, <2>7, <3>1, <3>2
      <4> QED
        BY <2>7, <3>1, <4>1, <4>2
    <3>3. CASE x <= 0
      BY <1>1, <2>3, <2>5, <2>7, <3>1, <3>3
    <3> QED
      BY <2>3, <3>2, <3>3
  <2>9. o < OffsetLimit
    <3>1. SUFFICES ASSUME OffsetLimit <= o
                   PROVE  FALSE
      BY <1>1, <2>7
    <3>2. Parts * (o - OffsetLimit) >= 0 /\ Parts * (o - OffsetLimit) = y - l
      BY <1>1, <2>6, <2>7, <3>1
    <3> QED
      BY <2>7, <2>8, <3>2
  <2>10. Parts * (o + 1) = y + Parts
    BY <1>1, <2>6, <2>7
  <2> QED
    BY <2>2, <2>4, <2>6, <2>7, <2>8, <2>9, <2>10
<1>3. ASSUME NEW i \in Within(sweep, slack), NEW j \in Within(sweep, slack),
             sweep.points[i].at <= sweep.points[j].at
      PROVE  time[i] <= time[j]
  <2>1. i \in 1..Len(sweep.points) /\ j \in 1..Len(sweep.points)
    BY DEF Within
  <2>2. since[i] \in Int /\ since[j] \in Int /\ since[i] <= since[j]
    BY <1>3, <2>1
  <2>3. Truncated(since[i]) <= Truncated(since[j])
    BY <2>2, TruncatedFacts
  <2> QED
    BY <2>1, <2>3
<1> QED
  BY <1>2, <1>3 DEF Timely

LEMMA DecodedIf ==
    ASSUME NEW decoder, NEW sweep, NEW cloud,
           cloud.stamp = sweep.stamp, Len(cloud.offsets) = Len(sweep.points),
           Timely(sweep, cloud.offsets, Slack(decoder)),
           \A i \in 1..Len(sweep.points) : cloud.offsets[i] \in 0..(OffsetLimit - 1),
           cloud.points = [i \in 1..Len(sweep.points) |-> sweep.points[i].pos]
    PROVE  Decoded(decoder, sweep, cloud)
BY DEF Decoded, Normalized, Timely, Within

\* A PointCloud2 with a time for each of its points.
LEMMA FromPointCloud2 ==
    ASSUME NEW sweep, sweep.stamp \in Nat, sweep.points \in Seq(Points),
           NEW mode, NEW msg, NEW name, NEW cloud \in PointCloud2(mode, msg),
           msg.stamp = sweep.stamp,
           name = FirstPresent(TimeNames, DOMAIN msg.fields), name # "",
           NEW n \in Nat, n = Len(sweep.points), Len(msg.points) = n,
           NEW time, time = Times(mode, msg, name, n),
           NEW decoder, Faithful(sweep, msg, time, Slack(decoder))
    PROVE  Decoded(decoder, sweep, cloud)
<1>1. n \in Nat
  BY LenProperties
<1>2. PICK offsets \in Converted(time) :
          cloud = [stamp |-> msg.stamp, offsets |-> offsets,
                   points |-> [i \in 1..n |-> msg.points[i].pos]]
  BY DEF PointCloud2, Times
<1>3. DOMAIN time = 1..n /\ \A i \in 1..n : time[i] \in Nat
  BY DEF Times, Faithful
<1>4. /\ Len(offsets) = n
      /\ \A i \in 1..n : /\ offsets[i] \in 0..(OffsetLimit - 1)
                         /\ time[i] < OffsetLimit => offsets[i] = time[i]
  BY <1>1, <1>3, ConvertedFacts
<1>5. /\ cloud.offsets = offsets /\ cloud.stamp = sweep.stamp
      /\ cloud.points = [i \in 1..n |-> sweep.points[i].pos]
  BY <1>2 DEF Faithful
<1>6. \A i \in Within(sweep, Slack(decoder)) : i \in 1..n /\ offsets[i] = time[i]
  BY <1>4 DEF Faithful, Timely, Within
<1>7. Timely(sweep, offsets, Slack(decoder))
  BY <1>6 DEF Faithful, Timely
<1> QED
  BY <1>4, <1>5, <1>7, DecodedIf

\* What a driver has to send.
Taken(sweep) == sweep.stamp \in Nat /\ sweep.points \in Seq(Points)

LEMMA WireFacts ==
    ASSUME NEW decoder, NEW sweep, Len(sweep.points) \in Nat
    PROVE  /\ OnWire(decoder, sweep).stamp = sweep.stamp
           /\ Len(OnWire(decoder, sweep).points) = Len(sweep.points)
           /\ \A i \in 1..Len(sweep.points) :
                  /\ OnWire(decoder, sweep).points[i] = Point(decoder, sweep, i)
                  /\ OnWire(decoder, sweep).points[i].pos = sweep.points[i].pos
<1>1. /\ OnWire(decoder, sweep).stamp = sweep.stamp
      /\ OnWire(decoder, sweep).points = [i \in 1..Len(sweep.points) |-> Point(decoder, sweep, i)]
  BY DEF OnWire
<1>2. \A i \in 1..Len(sweep.points) :
          /\ OnWire(decoder, sweep).points[i] = Point(decoder, sweep, i)
          /\ Point(decoder, sweep, i).pos = sweep.points[i].pos
  BY <1>1 DEF Point
<1> QED
  BY <1>1, <1>2

LEMMA WireTimes ==
    ASSUME NEW sweep, NEW i
    PROVE  /\ Point("ouster", sweep, i).times["t"] = Late(sweep, i) % OffsetLimit
           /\ Point("hesai", sweep, i).times["timestamp"] = Rounded(sweep.points[i].at)
           /\ Point("livox", sweep, i).times["offset_time"] = Late(sweep, i) % OffsetLimit
<1>1. /\ Point("ouster", sweep, i).times = [t |-> Late(sweep, i) % OffsetLimit]
      /\ Point("hesai", sweep, i).times = [timestamp |-> Rounded(sweep.points[i].at)]
      /\ Point("livox", sweep, i).times = [offset_time |-> Late(sweep, i) % OffsetLimit]
  BY DEF Point
<1> QED
  BY <1>1

\* A time within the range is sent as it is.
LEMMA SentTime ==
    ASSUME NEW sweep, Taken(sweep),
           NEW time, \A i \in 1..Len(sweep.points) : time[i] = Late(sweep, i) % OffsetLimit
    PROVE  /\ \A i \in 1..Len(sweep.points) : time[i] \in 0..(OffsetLimit - 1)
           /\ Timely(sweep, time, 0)
<1> DEFINE n == Len(sweep.points)
           late == [i \in 1..n |-> Late(sweep, i)]
           since == [i \in 1..n |-> sweep.points[i].at - Parts * sweep.stamp]
<1>1. /\ \A i \in 1..n : late[i] \in Nat /\ late[i] = Truncated(since[i])
      /\ \A i \in 1..n : since[i] \in Int
      /\ \A i \in 1..n : since[i] = sweep.points[i].at - Parts * sweep.stamp
  BY LateType DEF Taken, Late
<1>2. OffsetLimit \in Nat \ {0}
  BY DecoderAssumption
<1>3. ASSUME NEW i \in 1..n
      PROVE  /\ time[i] \in 0..(OffsetLimit - 1)
             /\ late[i] < OffsetLimit => time[i] = late[i]
  <2>1. PICK t, l : t = late[i] /\ l = OffsetLimit
    OBVIOUS
  <2>2. t \in Nat /\ l \in Nat \ {0} /\ time[i] = t % l
    BY <1>1, <1>2, <2>1
  <2>3. t % l \in 0..(l - 1)
    BY <2>2, Division
  <2>4. t < l => t % l = t
    BY <2>2, Remainder
  <2> QED
    BY <2>1, <2>2, <2>3, <2>4
<1>4. Timely(sweep, late, 0)
  <2>1. \A i, j \in 1..n : sweep.points[i].at <= sweep.points[j].at => since[i] <= since[j]
    <3> SUFFICES ASSUME NEW i \in 1..n, NEW j \in 1..n, sweep.points[i].at <= sweep.points[j].at
                 PROVE  since[i] <= since[j]
      OBVIOUS
    <3>1. sweep.points[i].at \in Int /\ sweep.points[j].at \in Int /\ Parts * sweep.stamp \in Int
      BY LateType DEF Taken
    <3> QED
      BY <3>1
  <2> HIDE DEF late, since
  <2>2. \A i \in 1..n :
            /\ since[i] \in Int /\ late[i] = Truncated(since[i])
            /\ since[i] <= (sweep.points[i].at - Parts * sweep.stamp) + 0
            /\ (sweep.points[i].at - Parts * sweep.stamp) <= since[i] + 0
    BY <1>1
  <2> QED
    BY <2>1, <2>2, TruncatedTimely DEF Taken
<1> HIDE DEF late, since
<1>5. \A i \in Within(sweep, 0) : i \in 1..n /\ time[i] = late[i]
  BY <1>3, <1>4 DEF Within, Timely
<1>6. Timely(sweep, time, 0)
  BY <1>4, <1>5 DEF Timely
<1> QED
  BY <1>3, <1>6

\* The difference of two doubles is off by less than a step.
LEMMA Since ==
    ASSUME NEW at \in Int, NEW stamp \in Nat
    PROVE  /\ Rounded(at) - ToSec(stamp) \in Int
           /\ Rounded(at) - ToSec(stamp) <= (at - Parts * stamp) + (FloatStep - 1)
           /\ at - Parts * stamp <= (Rounded(at) - ToSec(stamp)) + (FloatStep - 1)
<1>1. PICK x, y, s : x = Rounded(at) /\ y = ToSec(stamp) /\ s = Parts * stamp
  OBVIOUS
<1>2. s \in Int /\ FloatStep \in Nat \ {0}
  BY <1>1, DecoderAssumption
<1>3. x \in Int /\ 2 * x <= 2 * at + FloatStep /\ 2 * at < 2 * x + FloatStep
  BY <1>1, RoundedFacts
<1>4. y \in Int /\ 2 * y <= 2 * s + FloatStep /\ 2 * s < 2 * y + FloatStep
  BY <1>1, <1>2, RoundedFacts DEF ToSec
<1> QED
  BY <1>1, <1>2, <1>3, <1>4

LEMMA OusterDecoded ==
    ASSUME NEW sweep, Taken(sweep), NEW cloud \in DecodeCloud("ouster", OnWire("ouster", sweep))
    PROVE  Decoded("ouster", sweep, cloud)
<1> DEFINE msg == OnWire("ouster", sweep)
           n == Len(sweep.points)
           time == Times("relative", msg, "t", n)
<1>1. sweep.stamp \in Nat /\ sweep.points \in Seq(Points) /\ n \in Nat
  BY LenProperties DEF Taken
<1>2. cloud \in PointCloud2("relative", msg)
  BY DEF DecodeCloud
<1>3. DOMAIN msg.fields = {"x", "t"} /\ msg.fields["t"] = "uint32"
  BY DEF OnWire
<1>4. \A i \in 1..n : msg.points[i].times["t"] = Late(sweep, i) % OffsetLimit
  BY <1>1, WireFacts, WireTimes
<1>5. \A i \in 1..n : time[i] = Late(sweep, i) % OffsetLimit
  BY <1>3, <1>4 DEF Times, Offset32, AsU32
<1>6. msg.stamp = sweep.stamp /\ Len(msg.points) = n
      /\ \A i \in 1..n : msg.points[i].pos = sweep.points[i].pos
  BY <1>1, WireFacts
<1> HIDE DEF msg, n, time
<1>7. (\A i \in 1..n : time[i] \in Nat) /\ Timely(sweep, time, 0)
  BY <1>5, SentTime, DecoderAssumption DEF n
<1>8. "t" = FirstPresent(TimeNames, DOMAIN msg.fields) /\ "t" # ""
  BY <1>3, TimeField
<1>9. n = Len(sweep.points) /\ time = Times("relative", msg, "t", n)
  BY DEF n, time
<1>10. Faithful(sweep, msg, time, Slack("ouster"))
  BY <1>6, <1>7, <1>9 DEF Faithful, Slack
<1> QED
  BY <1>1, <1>2, <1>6, <1>8, <1>9, <1>10, FromPointCloud2

LEMMA HesaiDecoded ==
    ASSUME NEW sweep, Taken(sweep), NEW cloud \in DecodeCloud("hesai", OnWire("hesai", sweep))
    PROVE  Decoded("hesai", sweep, cloud)
<1> DEFINE msg == OnWire("hesai", sweep)
           n == Len(sweep.points)
           time == Times("absolute", msg, "timestamp", n)
           since == [i \in 1..n |-> Rounded(sweep.points[i].at) - ToSec(sweep.stamp)]
<1>1. sweep.stamp \in Nat /\ sweep.points \in Seq(Points) /\ n \in Nat
  BY LenProperties DEF Taken
<1>2. cloud \in PointCloud2("absolute", msg)
  BY DEF DecodeCloud
<1>3. DOMAIN msg.fields = {"x", "timestamp"} /\ msg.fields["timestamp"] = "float64"
  BY DEF OnWire
<1>4. \A i \in 1..n : msg.points[i].times["timestamp"] = Rounded(sweep.points[i].at)
  BY <1>1, WireFacts, WireTimes
<1>5. \A i \in 1..n : time[i] = Truncated(since[i])
  BY <1>3, <1>4, WireFacts DEF Times, Offset32, AsDouble
<1>6. msg.stamp = sweep.stamp /\ Len(msg.points) = n
      /\ \A i \in 1..n : msg.points[i].pos = sweep.points[i].pos
  BY <1>1, WireFacts
<1>7. \A i \in 1..n : /\ since[i] \in Int
                      /\ since[i] <= (sweep.points[i].at - Parts * sweep.stamp) + (FloatStep - 1)
                      /\ (sweep.points[i].at - Parts * sweep.stamp) <= since[i] + (FloatStep - 1)
  BY <1>1, LateType, Since
<1>11. ASSUME NEW i \in 1..n, NEW j \in 1..n, sweep.points[i].at <= sweep.points[j].at
       PROVE  since[i] <= since[j]
  <2>1. PICK x, y, s : /\ x = Rounded(sweep.points[i].at) /\ y = Rounded(sweep.points[j].at)
                       /\ s = ToSec(sweep.stamp)
    OBVIOUS
  <2>2. x \in Int /\ y \in Int /\ x <= y
    BY <1>1, <1>11, <2>1, LateType, RoundedFacts
  <2>3. s \in Int
    BY <1>1, <2>1, LateType, RoundedFacts DEF ToSec
  <2>4. since[i] = x - s /\ since[j] = y - s
    BY <2>1
  <2> QED
    BY <2>2, <2>3, <2>4
<1> HIDE DEF msg, n, time, since
<1>12. FloatStep - 1 \in Nat
  BY DecoderAssumption
<1>13. Timely(sweep, time, FloatStep - 1)
  BY <1>1, <1>5, <1>7, <1>11, <1>12, TruncatedTimely DEF n
<1>14. \A i \in 1..n : time[i] \in Nat
  BY <1>5, <1>7, TruncatedFacts
<1>8. "timestamp" = FirstPresent(TimeNames, DOMAIN msg.fields) /\ "timestamp" # ""
  BY <1>3, TimeField
<1>9. n = Len(sweep.points) /\ time = Times("absolute", msg, "timestamp", n)
  BY DEF n, time
<1>10. Faithful(sweep, msg, time, Slack("hesai"))
  BY <1>6, <1>9, <1>13, <1>14 DEF Faithful, Slack
<1> QED
  BY <1>1, <1>2, <1>6, <1>8, <1>9, <1>10, FromPointCloud2

LEMMA LivoxDecoded ==
    ASSUME NEW sweep, Taken(sweep), NEW cloud \in DecodeCloud("livox", OnWire("livox", sweep))
    PROVE  Decoded("livox", sweep, cloud)
<1> DEFINE msg == OnWire("livox", sweep)
           n == Len(sweep.points)
<1>1. sweep.stamp \in Nat /\ sweep.points \in Seq(Points) /\ n \in Nat
  BY LenProperties DEF Taken
<1>2. cloud = [stamp |-> msg.stamp,
               offsets |-> [i \in 1..Len(msg.points) |-> msg.points[i].times["offset_time"]],
               points |-> [i \in 1..Len(msg.points) |-> msg.points[i].pos]]
  BY DEF DecodeCloud, LivoxCustomMsg
<1>3. \A i \in 1..n : msg.points[i].times["offset_time"] = Late(sweep, i) % OffsetLimit
  BY <1>1, WireFacts, WireTimes
<1>4. msg.stamp = sweep.stamp /\ Len(msg.points) = n
      /\ \A i \in 1..n : msg.points[i].pos = sweep.points[i].pos
  BY <1>1, WireFacts
<1> HIDE DEF msg
<1> HIDE DEF n
<1>5. /\ cloud.stamp = sweep.stamp /\ Len(cloud.offsets) = n
      /\ \A i \in 1..n : cloud.offsets[i] = Late(sweep, i) % OffsetLimit
      /\ cloud.points = [i \in 1..n |-> sweep.points[i].pos]
  <2>1. cloud = [stamp |-> sweep.stamp,
                 offsets |-> [i \in 1..n |-> msg.points[i].times["offset_time"]],
                 points |-> [i \in 1..n |-> msg.points[i].pos]]
    BY <1>2, <1>4
  <2>2. cloud.points = [i \in 1..n |-> sweep.points[i].pos]
    BY <1>4, <2>1
  <2>3. Len(cloud.offsets) = n
    BY <1>1, <2>1
  <2>4. \A i \in 1..n : cloud.offsets[i] = Late(sweep, i) % OffsetLimit
    BY <1>3, <2>1
  <2> QED
    BY <2>1, <2>2, <2>3, <2>4
<1> USE DEF n
<1>6. /\ \A i \in 1..n : cloud.offsets[i] \in 0..(OffsetLimit - 1)
      /\ Timely(sweep, cloud.offsets, Slack("livox"))
  BY <1>5, SentTime DEF Slack
<1> QED
  BY <1>5, <1>6, DecodedIf

\* Whichever of the three drivers sends a sweep, the decoder of its dataset
\* gives every point the time since the stamp, exactly or, from doubles of
\* seconds, to within one of their steps, and the points in their order
\* (ros_deserializer.cpp:226-357).
THEOREM DecodersNormalize ==
    ASSUME NEW decoder \in {"ouster", "hesai", "livox"}, NEW sweep, Taken(sweep),
           NEW cloud \in DecodeCloud(decoder, OnWire(decoder, sweep))
    PROVE  Decoded(decoder, sweep, cloud)
BY OusterDecoded, HesaiDecoded, LivoxDecoded

-----------------------------------------------------------------------------
(* The program is a reader and a pipeline at work together. *)

BR == INSTANCE BagReaderProofs WITH Bags <- {r.bag : r \in Runs}

LEMMA RunFacts ==
    ASSUME NEW r \in Runs
    PROVE  /\ r.format \in Formats
           /\ BR!WellFormed(r.bag)
           /\ \A c \in Range(r.bag.body) :
                  c.op = "chunk" => \A m \in Range(c.messages) : Measured(m)
           /\ ImuIncreases(r)
           /\ \A s \in DOMAIN r.params.sections :
                  r.params.sections[s].form \in {"map", "list", "scalar"}
<1>1. Reader!WellFormed(r.bag) <=> BR!WellFormed(r.bag)
  BY DEF Reader!WellFormed, BR!WellFormed, Reader!Range, BR!Range
<1>2. /\ r.format \in Formats
      /\ Reader!WellFormed(r.bag)
      /\ ImuIncreases(r)
  BY ProgramAssumption
<1>3. /\ \A c \in Range(r.bag.body) :
             c.op = "chunk" => \A m \in Range(c.messages) : Measured(m)
      /\ \A s \in DOMAIN r.params.sections :
             r.params.sections[s].form \in {"map", "list", "scalar"}
  BY ProgramAssumption
<1> QED
  BY <1>1, <1>2, <1>3

\* The reader of the program and the reader of the proofs are the same.
LEMMA SameReader ==
    /\ Reader!vars = BR!vars /\ Reader!Record = BR!Record
    /\ Reader!Current = BR!Current /\ Reader!Callback = BR!Callback
    /\ Reader!Delivered = BR!Delivered
    /\ Reader!TypeOK = BR!TypeOK /\ Reader!MessagesWhole = BR!MessagesWhole
<1>1. Reader!Record = BR!Record
  BY DEF Reader!Record, BR!Record
<1>2. Reader!Current = BR!Current /\ Reader!InChunk = BR!InChunk
  BY <1>1 DEF Reader!Current, BR!Current, Reader!InChunk, BR!InChunk
<1>3. Reader!Callback = BR!Callback
  BY <1>2 DEF Reader!Callback, BR!Callback
<1>4. Reader!Delivered = BR!Delivered
  BY DEF Reader!Delivered, BR!Delivered
<1>5. /\ \A conns : Reader!MessagesOn(conns) = BR!MessagesOn(conns)
      /\ \A m, n : Reader!Before(m, n) = BR!Before(m, n)
      /\ Reader!Named = BR!Named
  BY DEF Reader!MessagesOn, BR!MessagesOn, Reader!MessagesIn, BR!MessagesIn,
         Reader!Before, BR!Before, Reader!Named, BR!Named
<1>6. Reader!MessagesWhole = BR!MessagesWhole
  BY <1>4, <1>5 DEF Reader!MessagesWhole, BR!MessagesWhole
<1> QED
  BY <1>1, <1>2, <1>3, <1>4, <1>6
  DEF Reader!vars, BR!vars, Reader!TypeOK, BR!TypeOK

LEMMA ReaderSteps ==
    /\ Reader!Init => BR!Init
    /\ Reader!Open => BR!Open
    /\ Reader!Scan => BR!Scan
    /\ \A wanted : Reader!BeginRead(wanted) => BR!BeginRead(wanted)
    /\ Reader!Read => BR!Read
    /\ Reader!Deliver => BR!Deliver
BY DEF Reader!Init, BR!Init, Reader!Open, BR!Open, Reader!Scan, BR!Scan,
       Reader!BeginRead, BR!BeginRead, Reader!Read, BR!Read, Reader!Deliver, BR!Deliver,
       Reader!Throw, BR!Throw, Reader!Record, BR!Record, Reader!HeaderThere, BR!HeaderThere,
       Reader!AtEnd, BR!AtEnd, Reader!ScanEnds, BR!ScanEnds, Reader!ScanTorn, BR!ScanTorn,
       Reader!ScanRecord, BR!ScanRecord, Reader!Selected, BR!Selected,
       Reader!InBody, BR!InBody, Reader!Return, BR!Return, Reader!ReadFails, BR!ReadFails,
       Reader!SkipRecord, BR!SkipRecord, Reader!EnterChunk, BR!EnterChunk,
       Reader!InChunk, BR!InChunk, Reader!Current, BR!Current,
       Reader!Callback, BR!Callback, Reader!SkipMessage, BR!SkipMessage,
       Reader!LeaveChunk, BR!LeaveChunk

LEMMA ReaderStep == [Next]_vars => [BR!Next]_(BR!vars)
<1> SUFFICES ASSUME [Next]_vars
             PROVE  BR!Next \/ UNCHANGED readerVars
  BY DEF readerVars, BR!vars
<1>1. CASE ParseArgs \/ ReadParams \/ Load \/ TakeReady \/ Finish
  BY <1>1 DEF ParseArgs, ReadParams, Load, TakeReady, Finish
<1>2. CASE OpenBag
  BY <1>2, ReaderSteps DEF OpenBag, BR!Next
<1>3. CASE OpenOutputs
  BY <1>3, ReaderSteps DEF OpenOutputs, BR!Next
<1>4. CASE ReadOn
  BY <1>4, ReaderSteps DEF ReadOn, BR!Next
<1>5. CASE Torn \/ OnGt \/ OnImu \/ OnLidar
  BY <1>5, ReaderSteps DEF Torn, OnGt, OnImu, OnLidar, Message, BR!Next
<1>6. CASE UNCHANGED vars
  BY <1>6 DEF vars
<1> QED
  BY <1>1, <1>2, <1>3, <1>4, <1>5, <1>6 DEF Next

\* Every behaviour of the program is one of a reader that may be asked for any
\* topics (main.cpp:186-207).
THEOREM ReaderRefined == Spec => BR!Spec
<1>1. Init => BR!Init
  BY ReaderSteps DEF Init
<1> QED
  BY <1>1, ReaderStep, PTL DEF Spec, BR!Spec

LEMMA ReaderHolds == Spec => [](BR!Inv /\ BR!MessagesWhole)
<1>1. \A b \in {r.bag : r \in Runs} : BR!WellFormed(b)
  BY RunFacts
<1>2. BR!Spec => []BR!Inv
  BY <1>1, BR!InvHolds
<1>3. BR!Spec => []BR!MessagesWhole
  BY <1>1, BR!ReadsWhole
<1> QED
  BY <1>2, <1>3, ReaderRefined, PTL

-----------------------------------------------------------------------------
\* What main() has done by each step, and where the reader is.
Staged ==
    /\ run \in Runs /\ bag = run.bag
    /\ stage \in Stages
    /\ stage \in {"args", "params", "loader"} => reader = "closed"
    /\ stage = "bag" => reader \in {"closed", "scanning"}
    /\ stage = "outputs" => reader = "open"
    /\ stage = "reading" => reader \in {"reading", "chunk", "returned"}
    /\ stage = "done" => reader = "returned"
    /\ stage \notin {"reading", "failed"} => control = "idle"

Loaded ==
    /\ params.set \intersect params.warnings = {}
    /\ stage \in {"loader", "bag", "outputs", "reading", "done"} =>
           params = LoadParams(run.params) /\ params.ok
    /\ loader.ok => /\ loader = MakeLoader(run.format, run.dir)
                    /\ params = LoadParams(run.params) /\ params.ok
    /\ stage \in {"bag", "outputs", "reading", "done"} => loader.ok

\* The table has its topics from the index of a bag that has one.
Mapped ==
    /\ \A c \in DOMAIN topics :
           \E r \in Range(bag.index) : /\ r.op = "connection"
                                       /\ r.conn = c /\ r.topic = topics[c]
    /\ reader \notin {"closed", "threw"} => bag.version /\ bag.indexed

\* The last IMU sample is a message the callback got.
Stamped ==
    /\ imu \in Seq(Nat)
    /\ imu # <<>> =>
           \E k \in 1..Len(delivered) :
               /\ topics[DeliveredMessage(k).conn] = loader.imu
               /\ DeliveredMessage(k).data.stamp = Pipeline!LastStamp

MainInv == Staged /\ Loaded /\ Mapped /\ Stamped

LEMMA SettingsFacts ==
    ASSUME NEW file
    PROVE  LoadParams(file).set \intersect LoadParams(file).warnings = {}
BY DEF LoadParams, Recognized, Unknown

LEMMA InitMain == ASSUME Init
                  PROVE  MainInv
<1>1. Staged
  BY DEF Init, Reader!Init, Pipeline!Init, Staged, Stages
<1>2. Loaded
  BY DEF Init, Loaded
<1>3. Mapped
  BY DEF Init, Reader!Init, Mapped
<1>4. Stamped
  BY DEF Init, Pipeline!Init, Stamped
<1> QED
  BY <1>1, <1>2, <1>3, <1>4 DEF MainInv

\* What each step of the reader does to its stage and its table.
LEMMA ReaderMoves ==
    /\ Reader!Open =>
           /\ reader = "closed" /\ reader' \in {"scanning", "threw"}
           /\ reader' = "scanning" => bag.version /\ bag.indexed
           /\ UNCHANGED <<bag, topics, filter, delivered>>
    /\ Reader!Scan =>
           /\ reader = "scanning" /\ reader' \in {"scanning", "open", "threw"}
           /\ UNCHANGED <<bag, filter, delivered>>
    /\ \A wanted : Reader!BeginRead(wanted) =>
           /\ reader = "open" /\ reader' = "reading"
           /\ UNCHANGED <<bag, topics, delivered>>
    /\ Reader!Read =>
           /\ reader \in {"reading", "chunk"}
           /\ reader' \in {"reading", "chunk", "returned", "threw"}
           /\ UNCHANGED <<bag, topics, filter, delivered>>
    /\ Reader!Deliver =>
           /\ reader = "chunk" /\ reader' = "chunk"
           /\ delivered' = Append(delivered, <<pos, inner>>)
           /\ UNCHANGED <<bag, topics, filter>>
<1>1. Reader!Open =>
          /\ reader = "closed" /\ reader' \in {"scanning", "threw"}
          /\ reader' = "scanning" => bag.version /\ bag.indexed
          /\ UNCHANGED <<bag, topics, filter, delivered>>
  BY DEF Reader!Open, Reader!Throw
<1>2. Reader!Scan =>
          /\ reader = "scanning" /\ reader' \in {"scanning", "open", "threw"}
          /\ UNCHANGED <<bag, filter, delivered>>
  BY DEF Reader!Scan, Reader!ScanEnds, Reader!ScanTorn, Reader!ScanRecord, Reader!Throw
<1>3. \A wanted : Reader!BeginRead(wanted) =>
          /\ reader = "open" /\ reader' = "reading"
          /\ UNCHANGED <<bag, topics, delivered>>
  BY DEF Reader!BeginRead
<1>4. Reader!Read =>
          /\ reader \in {"reading", "chunk"}
          /\ reader' \in {"reading", "chunk", "returned", "threw"}
          /\ UNCHANGED <<bag, topics, filter, delivered>>
  BY DEF Reader!Read, Reader!Return, Reader!ReadFails, Reader!SkipRecord, Reader!EnterChunk,
         Reader!SkipMessage, Reader!LeaveChunk, Reader!InBody, Reader!InChunk, Reader!Throw
<1>5. Reader!Deliver =>
          /\ reader = "chunk" /\ reader' = "chunk"
          /\ delivered' = Append(delivered, <<pos, inner>>)
          /\ UNCHANGED <<bag, topics, filter>>
  BY DEF Reader!Deliver, Reader!Callback, Reader!InChunk
<1> QED
  BY <1>1, <1>2, <1>3, <1>4, <1>5

\* Every message leaves the reader in its chunk; the callback begins when the
\* pipeline is idle.
LEMMA OnMessage ==
    ASSUME Torn \/ OnGt \/ OnImu \/ OnLidar
    PROVE  /\ stage = "reading" /\ control = "idle" /\ Reader!Deliver
           /\ UNCHANGED <<run, params, loader>>
           /\ Torn \/ stage' = stage
BY DEF Torn, OnGt, OnImu, OnLidar, Message, Reading, mainVars

LEMMA StagedStep == ASSUME MainInv, [Next]_vars
                    PROVE  Staged'
<1>1. CASE ParseArgs \/ ReadParams \/ Load
  BY <1>1 DEF ParseArgs, ReadParams, Load, Fail, MainInv, Staged, Stages,
              readerVars, pipelineVars, mainVars
<1>2. CASE OpenBag
  BY <1>2, ReaderMoves DEF OpenBag, Fail, MainInv, Staged, Stages, pipelineVars, mainVars
<1>3. CASE OpenOutputs
  BY <1>3, ReaderMoves DEF OpenOutputs, MainInv, Staged, Stages, pipelineVars, mainVars
<1>4. CASE ReadOn
  BY <1>4, ReaderMoves DEF ReadOn, Reading, Fail, MainInv, Staged, Stages, pipelineVars, mainVars
<1>5. CASE Torn \/ OnGt \/ OnImu \/ OnLidar
  <2>1. stage' \in {"reading", "failed"}
    BY <1>5, OnMessage DEF Torn, Fail
  <2> QED
    BY <1>5, <2>1, OnMessage, ReaderMoves DEF MainInv, Staged, Stages
<1>6. CASE TakeReady
  <2>1. stage' \in {"reading", "failed"}
    BY <1>6 DEF TakeReady, Fail, Pipeline!Drain, Pipeline!DrainDone, Pipeline!Discard,
                Pipeline!AwaitImu, Pipeline!Process, Pipeline!Throw, Pipeline!Draining
  <2> QED
    BY <1>6, <2>1 DEF TakeReady, MainInv, Staged, Stages, readerVars, mainVars
<1>7. CASE Finish
  BY <1>7 DEF Finish, Reading, MainInv, Staged, Stages, readerVars, pipelineVars, mainVars
<1>8. CASE UNCHANGED vars
  BY <1>8 DEF vars, readerVars, pipelineVars, mainVars, MainInv, Staged
<1> QED
  BY <1>1, <1>2, <1>3, <1>4, <1>5, <1>6, <1>7, <1>8 DEF Next

LEMMA LoadedStep == ASSUME MainInv, [Next]_vars
                    PROVE  Loaded'
<1>1. CASE ReadParams
  BY <1>1, SettingsFacts DEF ReadParams, Fail, MainInv, Loaded
<1>2. CASE Load
  BY <1>2 DEF Load, Fail, MainInv, Loaded
<1>3. CASE ParseArgs \/ OpenBag \/ OpenOutputs \/ ReadOn \/ Finish
  BY <1>3 DEF ParseArgs, OpenBag, OpenOutputs, ReadOn, Finish, Fail, Reading, MainInv, Loaded,
              mainVars
<1>4. CASE Torn \/ OnGt \/ OnImu \/ OnLidar
  <2>1. stage' \in {"reading", "failed"}
    BY <1>4, OnMessage DEF Torn, Fail
  <2> QED
    BY <1>4, <2>1, OnMessage DEF MainInv, Loaded
<1>5. CASE TakeReady
  <2>1. stage' \in {"reading", "failed"}
    BY <1>5 DEF TakeReady, Fail, Pipeline!Drain, Pipeline!DrainDone, Pipeline!Discard,
                Pipeline!AwaitImu, Pipeline!Process, Pipeline!Throw, Pipeline!Draining
  <2> QED
    BY <1>5, <2>1 DEF TakeReady, MainInv, Loaded, mainVars
<1>6. CASE UNCHANGED vars
  BY <1>6 DEF vars, mainVars, MainInv, Loaded
<1> QED
  BY <1>1, <1>2, <1>3, <1>4, <1>5, <1>6 DEF Next

\* The record that scan_connections() reads is one of the index.
LEMMA IndexRecord ==
    ASSUME BR!Inv, Reader!ScanRecord
    PROVE  Reader!Record \in Range(bag.index)
<1>1. reader = "scanning" /\ BR!HeaderThere
  BY DEF Reader!ScanRecord, Reader!HeaderThere, BR!HeaderThere
<1>2. /\ bag.body \in Seq(BR!Range(bag.body)) /\ bag.index \in Seq(BR!Range(bag.index))
      /\ bag.whole \in 0..(Len(bag.body) + Len(bag.index))
      /\ bag.rest # "none" => bag.whole < Len(bag.body) + Len(bag.index)
      /\ pos \in Nat /\ pos > Len(bag.body)
  BY <1>1 DEF BR!Inv, BR!Typed, BR!WellFormed, BR!TypeOK, BR!Tabled
<1>3. Len(bag.body) \in Nat /\ Len(bag.index) \in Nat
  BY <1>2, LenProperties
<1>4. pos <= Len(bag.body) + Len(bag.index)
  <2>1. ASSUME NEW n \in Nat, NEW m \in Nat, NEW w \in 0..(n + m), NEW p \in Nat,
               p <= w \/ (p = w + 1 /\ w < n + m)
        PROVE  p <= n + m
    BY <2>1
  <2>2. pos <= bag.whole \/ (pos = bag.whole + 1 /\ bag.whole < Len(bag.body) + Len(bag.index))
    BY <1>1, <1>2 DEF BR!HeaderThere
  <2> QED
    BY <1>2, <1>3, <2>1, <2>2
<1>5. ASSUME NEW S, NEW s \in Seq(S), NEW T, NEW t \in Seq(T),
             NEW k \in Nat, k > Len(s), k <= Len(s) + Len(t)
      PROVE  (s \o t)[k] = t[k - Len(s)] /\ k - Len(s) \in 1..Len(t)
  BY <1>5
<1>6. Reader!Record = bag.index[pos - Len(bag.body)] /\ pos - Len(bag.body) \in 1..Len(bag.index)
  BY <1>2, <1>4, <1>5 DEF Reader!Record
<1>7. DOMAIN bag.index = 1..Len(bag.index)
  BY <1>2
<1> QED
  BY <1>6, <1>7 DEF Range

LEMMA MappedStep == ASSUME MainInv, BR!Inv, [Next]_vars
                    PROVE  Mapped'
<1>1. CASE OpenBag
  <2>1. CASE Reader!Open
    BY <2>1, ReaderMoves DEF MainInv, Mapped
  <2>2. CASE Reader!Scan
    <3>1. reader' \notin {"closed", "threw"} => bag.version /\ bag.indexed
      BY <2>2, ReaderMoves DEF MainInv, Mapped
    <3>2. CASE UNCHANGED topics
      BY <2>2, <3>1, <3>2, ReaderMoves DEF MainInv, Mapped
    <3>3. CASE Reader!ScanRecord
      <4>1. Reader!Record \in Range(bag.index)
        BY <3>3, IndexRecord
      <4>2. CASE Reader!Record.op = "connection"
        <5>1. topics' = [c \in DOMAIN topics \union {Reader!Record.conn} |->
                            IF c = Reader!Record.conn THEN Reader!Record.topic ELSE topics[c]]
          BY <3>3, <4>2 DEF Reader!ScanRecord
        <5>2. \A c \in DOMAIN topics' :
                  \E r \in Range(bag.index) : /\ r.op = "connection"
                                              /\ r.conn = c /\ r.topic = topics'[c]
          BY <4>1, <4>2, <5>1 DEF MainInv, Mapped
        <5> QED
          BY <2>2, <3>1, <5>2, ReaderMoves DEF Mapped
      <4>3. CASE Reader!Record.op # "connection"
        BY <3>2, <3>3, <4>3 DEF Reader!ScanRecord
      <4> QED
        BY <4>2, <4>3
    <3> QED
      BY <2>2, <3>2, <3>3 DEF Reader!Scan, Reader!ScanEnds, Reader!ScanTorn, Reader!Throw
  <2> QED
    BY <1>1, <2>1, <2>2 DEF OpenBag
<1>2. CASE OpenOutputs \/ ReadOn
  BY <1>2, ReaderMoves DEF OpenOutputs, ReadOn, MainInv, Mapped
<1>3. CASE Torn \/ OnGt \/ OnImu \/ OnLidar
  BY <1>3, OnMessage, ReaderMoves DEF MainInv, Mapped
<1>4. CASE ParseArgs \/ ReadParams \/ Load \/ TakeReady \/ Finish \/ UNCHANGED vars
  <2>1. UNCHANGED <<bag, topics, reader>>
    BY <1>4 DEF ParseArgs, ReadParams, Load, TakeReady, Finish, vars, readerVars
  <2> QED
    BY <2>1 DEF MainInv, Mapped
<1> QED
  BY <1>1, <1>2, <1>3, <1>4 DEF Next

\* The message under way: a place in the file after those delivered before.
LEMMA Delivering ==
    ASSUME BR!Inv, BR!Inv', BR!MessagesWhole', Reader!Deliver
    PROVE  /\ Reader!Current = bag.body[pos].messages[inner]
           /\ Len(delivered) \in Nat /\ Len(delivered') = Len(delivered) + 1
           /\ delivered'[Len(delivered) + 1] = <<pos, inner>>
           /\ \A k \in 1..Len(delivered) : /\ delivered'[k] = delivered[k]
                                           /\ BR!Before(delivered[k], <<pos, inner>>)
           /\ UNCHANGED <<bag, topics, filter>>
           /\ \A k \in 1..Len(delivered') : delivered'[k] \in BR!MessagesIn(bag, filter)
<1>1. /\ delivered' = Append(delivered, <<pos, inner>>) /\ reader = "chunk"
      /\ UNCHANGED <<bag, topics, filter>>
  BY ReaderMoves
<1>2. delivered \in Seq(Nat \X Nat) /\ pos \in Nat /\ inner \in Nat
  BY DEF BR!Inv, BR!Typed, BR!TypeOK
<1>3. /\ Len(delivered) \in Nat /\ Len(delivered') = Len(delivered) + 1
      /\ delivered'[Len(delivered) + 1] = <<pos, inner>>
      /\ \A k \in 1..Len(delivered) : delivered'[k] = delivered[k]
  BY <1>1, <1>2
<1>4. \A k \in 1..Len(delivered) : BR!Before(delivered'[k], delivered'[Len(delivered) + 1])
  BY <1>3 DEF BR!Inv, BR!Sorted
<1>5. \A k \in 1..Len(delivered') : delivered'[k] \in BR!MessagesIn(bag, filter)
  BY <1>1 DEF BR!MessagesWhole, BR!Delivered, BR!MessagesOn
<1>6. pos \in 1..Len(bag.body) /\ BR!WellFormed(bag)
  BY <1>1 DEF BR!Inv, BR!Typed, BR!Progress
<1>7. Reader!Record = bag.body[pos]
  <2>1. bag.body \in Seq(BR!Range(bag.body)) /\ bag.index \in Seq(BR!Range(bag.index))
    BY <1>6 DEF BR!WellFormed
  <2>2. ASSUME NEW S, NEW s \in Seq(S), NEW T, NEW t \in Seq(T), NEW k \in 1..Len(s)
        PROVE  (s \o t)[k] = s[k]
    OBVIOUS
  <2>3. (bag.body \o bag.index)[pos] = bag.body[pos]
    BY <1>6, <2>1, <2>2
  <2> QED
    BY <2>3 DEF Reader!Record
<1> QED
  BY <1>1, <1>3, <1>4, <1>5, <1>7 DEF Reader!Current

\* What a message of the bag brings.
At(m) == bag.body[m[1]].messages[m[2]]

LEMMA MessageFacts ==
    ASSUME Staged, NEW conns, NEW m \in BR!MessagesIn(bag, conns)
    PROVE  /\ m = <<m[1], m[2]>>
           /\ At(m).op = "message" /\ At(m).conn \in conns
           /\ Taken(At(m).data)
<1>1. BR!WellFormed(bag)
  BY RunFacts DEF Staged
<1>2. /\ m = <<m[1], m[2]>>
      /\ m[1] \in 1..Len(bag.body) /\ bag.body[m[1]].op = "chunk"
      /\ m[2] \in 1..Len(bag.body[m[1]].messages)
      /\ At(m).op = "message" /\ At(m).conn \in conns
  BY <1>1, BR!Places DEF At
<1>3. bag.body[m[1]] \in Range(bag.body)
  <2>1. bag.body \in Seq(BR!Range(bag.body))
    BY <1>1 DEF BR!WellFormed
  <2>2. DOMAIN bag.body = 1..Len(bag.body)
    BY <2>1
  <2> QED
    BY <1>2, <2>2 DEF Range
<1>4. At(m) \in Range(bag.body[m[1]].messages)
  <2>1. bag.body[m[1]] \in BR!Range(bag.body)
    BY <1>3 DEF Range, BR!Range
  <2>2. bag.body[m[1]].messages \in Seq(BR!Range(bag.body[m[1]].messages))
    BY <1>1, <1>2, <2>1 DEF BR!WellFormed
  <2>3. DOMAIN bag.body[m[1]].messages = 1..Len(bag.body[m[1]].messages)
    BY <2>2
  <2> QED
    BY <1>2, <2>3 DEF Range, At
<1>5. Measured(At(m))
  BY <1>2, <1>3, <1>4, RunFacts DEF Staged
<1> QED
  BY <1>2, <1>5 DEF Measured, Taken, Points, Place

\* The connections that bring IMU samples.
ImuConns == {c.conn : c \in {c \in Range(bag.index) :
                                 c.op = "connection" /\ c.topic = loader.imu}}

LEMMA ImuPlace ==
    ASSUME MainInv, BR!Inv, NEW conns, conns \subseteq DOMAIN topics,
           NEW m \in BR!MessagesIn(bag, conns), topics[At(m).conn] = loader.imu
    PROVE  m \in BR!MessagesIn(bag, ImuConns)
<1>1. BR!WellFormed(bag)
  BY RunFacts DEF MainInv, Staged
<1>2. /\ m = <<m[1], m[2]>>
      /\ m[1] \in 1..Len(bag.body) /\ bag.body[m[1]].op = "chunk"
      /\ m[2] \in 1..Len(bag.body[m[1]].messages)
      /\ At(m).op = "message" /\ At(m).conn \in conns
  BY <1>1, BR!Places DEF At
<1>3. At(m).conn \in ImuConns
  <2>1. PICK r \in Range(bag.index) : /\ r.op = "connection"
                                      /\ r.conn = At(m).conn
                                      /\ r.topic = topics[At(m).conn]
    BY <1>2 DEF MainInv, Mapped
  <2> QED
    BY <2>1 DEF ImuConns
<1>4. <<m[1], m[2]>> \in BR!MessagesIn(bag, ImuConns)
  BY <1>1, <1>2, <1>3, BR!Places DEF At
<1> QED
  BY <1>2, <1>4

LEMMA ImuLater ==
    ASSUME MainInv, loader.ok,
           NEW m \in BR!MessagesIn(bag, ImuConns)
    PROVE  /\ At(m).data.stamp > 0
           /\ \A n \in BR!MessagesIn(bag, ImuConns) :
                  BR!Before(m, n) => At(m).data.stamp < At(n).data.stamp
<1>1. ImuIncreases(run) /\ bag = run.bag /\ loader = MakeLoader(run.format, run.dir)
  BY RunFacts DEF MainInv, Staged, Loaded
<1>2. BR!MessagesIn(bag, ImuConns)
          = Reader!MessagesIn(run.bag, {c.conn : c \in {c \in Range(run.bag.index) :
                /\ c.op = "connection"
                /\ c.topic = MakeLoader(run.format, run.dir).imu}})
  BY <1>1 DEF BR!MessagesIn, Reader!MessagesIn, ImuConns
<1>3. \A a, b : Reader!Before(a, b) = BR!Before(a, b)
  BY DEF Reader!Before, BR!Before
<1> QED
  BY <1>1, <1>2, <1>3 DEF ImuIncreases, At

\* An IMU sample is later than the one before.
LEMMA SampleFacts ==
    ASSUME MainInv, BR!Inv, BR!Inv', BR!MessagesWhole', OnImu
    PROVE  /\ Reader!Current = At(<<pos, inner>>)
           /\ Reader!Current.data.stamp \in Nat
           /\ Pipeline!LastStamp \in Nat
           /\ Pipeline!LastStamp < Reader!Current.data.stamp
<1> DEFINE m == <<pos, inner>>
           n == Len(delivered)
<1>1. /\ Reader!Deliver /\ loader.ok
      /\ topics[Reader!Current.conn] = loader.imu
  BY OnMessage DEF OnImu, Message, Reading, MainInv, Loaded
<1>2. /\ Reader!Current = At(m) /\ n \in Nat
      /\ Len(delivered') = n + 1 /\ delivered'[n + 1] = m
      /\ \A k \in 1..n : delivered'[k] = delivered[k] /\ BR!Before(delivered[k], m)
      /\ \A k \in 1..Len(delivered') : delivered'[k] \in BR!MessagesIn(bag, filter)
  BY <1>1, Delivering DEF At
<1> HIDE DEF m
<1>3. m \in BR!MessagesIn(bag, filter) /\ filter \subseteq DOMAIN topics
  <2>1. filter \subseteq DOMAIN topics
    BY DEF BR!Inv, BR!Typed, BR!TypeOK
  <2>2. n + 1 \in 1..Len(delivered')
    BY <1>2
  <2>3. delivered'[n + 1] \in BR!MessagesIn(bag, filter)
    BY <1>2, <2>2
  <2> QED
    BY <1>2, <2>1, <2>3
<1>4. m \in BR!MessagesIn(bag, ImuConns)
  BY <1>1, <1>2, <1>3, ImuPlace
<1>5. At(m).data.stamp \in Nat
  BY <1>3, MessageFacts DEF MainInv, Taken
<1>6. CASE imu = <<>>
  BY <1>1, <1>2, <1>4, <1>5, <1>6, ImuLater DEF Pipeline!LastStamp, m
<1>7. CASE imu # <<>>
  <2>1. PICK k \in 1..n : /\ topics[At(delivered[k]).conn] = loader.imu
                          /\ At(delivered[k]).data.stamp = Pipeline!LastStamp
    BY <1>7 DEF MainInv, Stamped, DeliveredMessage, At
  <2>2. delivered[k] \in BR!MessagesIn(bag, filter)
    BY <1>2
  <2>3. delivered[k] \in BR!MessagesIn(bag, ImuConns)
    BY <1>3, <2>1, <2>2, ImuPlace
  <2>4. At(delivered[k]).data.stamp \in Nat
    BY <2>2, MessageFacts DEF MainInv, Taken
  <2>5. At(delivered[k]).data.stamp < At(m).data.stamp
    BY <1>1, <1>2, <1>4, <2>3, ImuLater
  <2> QED
    BY <1>2, <1>5, <2>1, <2>4, <2>5 DEF m
<1> QED
  BY <1>6, <1>7

\* The messages delivered before stay where they are.
LEMMA StillDelivered ==
    ASSUME MainInv, BR!Inv, BR!Inv', BR!MessagesWhole', [Next]_vars
    PROVE  \/ delivered = <<>> /\ delivered' = <<>>
           \/ /\ UNCHANGED <<bag, topics, loader>>
              /\ \A k \in 1..Len(delivered) :
                     k \in 1..Len(delivered') /\ delivered'[k] = delivered[k]
<1>1. CASE ParseArgs \/ ReadParams \/ Load \/ OpenBag \/ OpenOutputs
  <2>1. reader \in {"closed", "scanning", "open"}
    BY <1>1 DEF ParseArgs, ReadParams, Load, OpenBag, OpenOutputs, MainInv, Staged
  <2>2. delivered = <<>>
    BY <2>1 DEF BR!Inv, BR!Progress
  <2>3. UNCHANGED delivered
    BY <1>1, ReaderMoves DEF ParseArgs, ReadParams, Load, OpenBag, OpenOutputs, readerVars
  <2> QED
    BY <2>2, <2>3
<1>2. CASE Torn \/ OnGt \/ OnImu \/ OnLidar
  BY <1>2, OnMessage, Delivering
<1>3. CASE ReadOn \/ TakeReady \/ Finish \/ UNCHANGED vars
  <2>1. UNCHANGED <<bag, topics, delivered, loader>>
    BY <1>3, ReaderMoves DEF ReadOn, TakeReady, Finish, vars, readerVars, mainVars
  <2> QED
    BY <2>1
<1> QED
  BY <1>1, <1>2, <1>3 DEF Next

LEMMA StampedStep ==
    ASSUME MainInv, BR!Inv, BR!Inv', BR!MessagesWhole', [Next]_vars
    PROVE  Stamped'
<1>1. CASE OnImu
  <2> DEFINE stamp == Reader!Current.data.stamp
  <2>1. /\ Reader!Current = At(<<pos, inner>>)
        /\ stamp \in Nat /\ Pipeline!LastStamp \in Nat
    BY <1>1, SampleFacts
  <2>2. imu' = Append(imu, stamp)
    <3>1. imu' = Append(imu, Pipeline!LastStamp + (stamp - Pipeline!LastStamp))
      BY <1>1 DEF OnImu, Pipeline!OnImu
    <3>2. Pipeline!LastStamp + (stamp - Pipeline!LastStamp) = stamp
      BY <2>1
    <3> QED
      BY <3>1, <3>2
  <2>3. imu' \in Seq(Nat) /\ imu' # <<>> /\ Pipeline!LastStamp' = stamp
    <3>1. imu \in Seq(Nat)
      BY DEF MainInv, Stamped
    <3>2. imu' \in Seq(Nat) /\ imu' # <<>> /\ imu'[Len(imu')] = stamp
      BY <2>1, <2>2, <3>1
    <3> QED
      BY <3>2 DEF Pipeline!LastStamp, Pipeline!Last
  <2>4. /\ Len(delivered') = Len(delivered) + 1 /\ Len(delivered) \in Nat
        /\ delivered'[Len(delivered) + 1] = <<pos, inner>>
        /\ UNCHANGED <<bag, topics>>
    BY <1>1, OnMessage, Delivering
  <2>5. topics[Reader!Current.conn] = loader.imu /\ UNCHANGED loader
    BY <1>1, OnMessage DEF OnImu, Message
  <2>6. Len(delivered) + 1 \in 1..Len(delivered')
    BY <2>4
  <2> QED
    BY <2>1, <2>3, <2>4, <2>5, <2>6 DEF Stamped, DeliveredMessage, At
<1>2. CASE UNCHANGED imu
  <2>1. Pipeline!LastStamp' = Pipeline!LastStamp
    BY <1>2 DEF Pipeline!LastStamp, Pipeline!Last
  <2>2. imu \in Seq(Nat)
    BY DEF MainInv, Stamped
  <2>3. ASSUME imu # <<>>
        PROVE  \E k \in 1..Len(delivered') :
                   /\ topics'[DeliveredMessage(k)'.conn] = loader'.imu
                   /\ DeliveredMessage(k)'.data.stamp = Pipeline!LastStamp
    <3>1. PICK k \in 1..Len(delivered) :
              /\ topics[DeliveredMessage(k).conn] = loader.imu
              /\ DeliveredMessage(k).data.stamp = Pipeline!LastStamp
      BY <2>3 DEF MainInv, Stamped
    <3>2. delivered # <<>>
      BY <3>1
    <3>3. /\ UNCHANGED <<bag, topics, loader>>
          /\ k \in 1..Len(delivered') /\ delivered'[k] = delivered[k]
      BY <3>2, StillDelivered
    <3>4. DeliveredMessage(k)' = DeliveredMessage(k)
      BY <3>3 DEF DeliveredMessage
    <3> QED
      BY <3>1, <3>3, <3>4
  <2> QED
    BY <1>2, <2>1, <2>2, <2>3 DEF Stamped
<1>3. CASE TakeReady
  BY <1>2, <1>3 DEF TakeReady, Pipeline!Drain, Pipeline!DrainDone, Pipeline!Discard,
                    Pipeline!AwaitImu, Pipeline!Process, Pipeline!Throw
<1> QED
  BY <1>1, <1>2, <1>3 DEF Next, ParseArgs, ReadParams, Load, OpenBag, OpenOutputs, ReadOn, Torn,
                          OnGt, OnLidar, Finish, vars, pipelineVars, Pipeline!OnCloud

LEMMA MainHolds == Spec => []MainInv
<1>1. MainInv /\ BR!Inv /\ BR!Inv' /\ BR!MessagesWhole' /\ [Next]_vars => MainInv'
  BY StagedStep, LoadedStep, MappedStep, StampedStep DEF MainInv
<1>2. Init => MainInv
  BY InitMain
<1> QED
  BY <1>1, <1>2, ReaderHolds, PTL DEF Spec

-----------------------------------------------------------------------------
\* The pipeline gets samples that go forward and clouds whose first point is not
\* after the last.
Spans == {c \in [timed : BOOLEAN, stamp : Nat, lo : Nat, hi : Nat] : c.lo <= c.hi}

P == INSTANCE SlamPipelineProofs WITH ImuSteps <- Nat \ {0}, Clouds <- Spans

LEMMA PipelineAssumed == P!PipelineAssumption
BY ProgramAssumption DEF P!PipelineAssumption, Spans

LEMMA SamePipeline ==
    /\ Pipeline!LastStamp = P!LastStamp /\ Pipeline!NoTimes = P!NoTimes
    /\ Pipeline!ResultIds = P!ResultIds /\ Pipeline!TypeOK = P!TypeOK
    /\ Pipeline!Init => P!Init
    /\ \A step : Pipeline!OnImu(step) => P!OnImu(step)
    /\ \A c : Pipeline!OnCloud(c) => P!OnCloud(c)
BY DEF Pipeline!LastStamp, P!LastStamp, Pipeline!Last, P!Last, Pipeline!NoTimes, P!NoTimes,
       Pipeline!ResultIds, P!ResultIds, Pipeline!TypeOK, P!TypeOK,
       Pipeline!WaitingClouds, P!WaitingClouds, Pipeline!Processed, P!Processed,
       Pipeline!Init, P!Init, Pipeline!OnImu, P!OnImu, Pipeline!OnCloud, P!OnCloud,
       Pipeline!Shifted, P!Shifted

LEMMA SameDrain == Pipeline!Drain => P!Drain
<1>1. \A S : Pipeline!Min(S) = P!Min(S)
  BY DEF Pipeline!Min, P!Min
<1>2. \A s, t : /\ Pipeline!LowerBound(s, t) = P!LowerBound(s, t)
                /\ Pipeline!UpperBound(s, t) = P!UpperBound(s, t)
  BY <1>1 DEF Pipeline!LowerBound, P!LowerBound, Pipeline!UpperBound, P!UpperBound
<1>3. \A s, t0, t1 : Pipeline!Interior(s, t0, t1) = P!Interior(s, t0, t1)
  BY <1>2 DEF Pipeline!Interior, P!Interior, Pipeline!Samples, P!Samples,
              Pipeline!Sample, P!Sample
<1>4. \A s, t0, t1 : Pipeline!GetBetween(s, t0, t1) = P!GetBetween(s, t0, t1)
  BY <1>2, <1>3 DEF Pipeline!GetBetween, P!GetBetween, Pipeline!Sample, P!Sample,
                    Pipeline!Interpolate, P!Interpolate
<1>5. \A s, t0, t1 : Pipeline!Trajectory(s, t0, t1) = P!Trajectory(s, t0, t1)
  BY <1>4 DEF Pipeline!Trajectory, P!Trajectory
<1>6. \A s, t : Pipeline!InterpolatePose(s, t) = P!InterpolatePose(s, t)
  BY <1>2 DEF Pipeline!InterpolatePose, P!InterpolatePose
<1>7. \A c : /\ Pipeline!FilterWindow(c) = P!FilterWindow(c)
             /\ Pipeline!Reference(c) = P!Reference(c)
             /\ Pipeline!Useless(c) = P!Useless(c)
             /\ Pipeline!Ready(c) = P!Ready(c)
  BY <1>4, <1>5, <1>6
  DEF Pipeline!FilterWindow, P!FilterWindow, Pipeline!Reference, P!Reference,
      Pipeline!Useless, P!Useless, Pipeline!Overtaken, P!Overtaken,
      Pipeline!Ready, P!Ready, Pipeline!Covers, P!Covers
<1>8. \A s, t0, t1 : Pipeline!Covers(s, t0, t1) = P!Covers(s, t0, t1)
  BY DEF Pipeline!Covers, P!Covers
<1>9. Pipeline!Process => P!Process
  BY <1>7, <1>8 DEF Pipeline!Process, P!Process, Pipeline!Draining, P!Draining,
                    Pipeline!Last, P!Last
<1>10. Pipeline!Discard \/ Pipeline!DrainDone => P!Discard \/ P!DrainDone
  BY <1>7 DEF Pipeline!Discard, P!Discard, Pipeline!DrainDone, P!DrainDone,
              Pipeline!Draining, P!Draining
<1>11. Pipeline!AwaitImu \/ Pipeline!Throw => P!AwaitImu \/ P!Throw
  BY <1>7, <1>8 DEF Pipeline!AwaitImu, P!AwaitImu, Pipeline!Throw, P!Throw,
                    Pipeline!Draining, P!Draining
<1> QED
  BY <1>9, <1>10, <1>11 DEF Pipeline!Drain, P!Drain

\* A set of offsets has a least and a greatest one.
LEMMA MinMax ==
    ASSUME NEW n \in Nat, NEW T, T \subseteq 0..n, T # {}
    PROVE  /\ Min(T) \in T /\ \A x \in T : Min(T) <= x
           /\ Max(T) \in T /\ \A x \in T : x <= Max(T)
<1>1. \E m \in T : \A x \in T : m <= x
  <2>1. T \subseteq Nat
    OBVIOUS
  <2> QED
    BY <2>1, P!LeastNat, PipelineAssumed
<1>2. \E m \in T : \A x \in T : m >= x
  <2> DEFINE U == {u \in 0..n : n - u \in T}
  <2>1. U # {}
    <3>1. PICK x \in T : TRUE
      OBVIOUS
    <3>2. n - x \in 0..n /\ n - (n - x) = x
      BY <3>1
    <3> QED
      BY <3>1, <3>2
  <2>2. PICK u \in U : \A w \in U : u <= w
    <3>1. U \subseteq Nat
      OBVIOUS
    <3> HIDE DEF U
    <3> QED
      BY <2>1, <3>1, P!LeastNat, PipelineAssumed
  <2>3. ASSUME NEW x \in T
        PROVE  n - u >= x
    <3>1. n - x \in U
      <4>1. n - x \in 0..n /\ n - (n - x) = x
        OBVIOUS
      <4> QED
        BY <4>1
    <3>2. u <= n - x
      BY <2>2, <3>1
    <3> QED
      BY <2>2, <3>2
  <2> QED
    BY <2>2, <2>3
<1> QED
  BY <1>1, <1>2 DEF Min, Max

LEMMA ExtremesFit ==
    ASSUME NEW decoder, NEW sweep, Taken(sweep), NEW cloud, Decoded(decoder, sweep, cloud)
    PROVE  Extremes(cloud) \in Spans
<1> DEFINE offsets == {cloud.offsets[i] : i \in 1..Len(cloud.offsets)}
<1>1. /\ cloud.stamp \in Nat /\ OffsetLimit \in Nat \ {0}
      /\ \A i \in 1..Len(cloud.offsets) : cloud.offsets[i] \in 0..(OffsetLimit - 1)
  BY DecoderAssumption DEF Decoded, Normalized, Taken
<1>2. offsets \subseteq 0..(OffsetLimit - 1) /\ OffsetLimit - 1 \in Nat
  BY <1>1
<1>3. Extremes(cloud) =
          IF offsets = {} THEN [Pipeline!NoTimes EXCEPT !.stamp = cloud.stamp]
          ELSE [timed |-> TRUE, stamp |-> cloud.stamp, lo |-> Min(offsets), hi |-> Max(offsets)]
  BY DEF Extremes
<1> HIDE DEF offsets
<1>4. CASE offsets = {}
  <2>1. Extremes(cloud) = [timed |-> FALSE, stamp |-> cloud.stamp, lo |-> 0, hi |-> 0]
    BY <1>3, <1>4 DEF Pipeline!NoTimes
  <2> QED
    BY <1>1, <2>1 DEF Spans
<1>5. CASE offsets # {}
  <2>1. /\ Min(offsets) \in offsets /\ Max(offsets) \in offsets
        /\ Min(offsets) <= Max(offsets)
    BY <1>2, <1>5, MinMax
  <2>2. Min(offsets) \in Nat /\ Max(offsets) \in Nat
    <3>1. 0..(OffsetLimit - 1) \subseteq Nat
      BY <1>2
    <3> QED
      BY <1>2, <2>1, <3>1
  <2>3. Extremes(cloud) = [timed |-> TRUE, stamp |-> cloud.stamp,
                           lo |-> Min(offsets), hi |-> Max(offsets)]
    BY <1>3, <1>5
  <2> QED
    BY <1>1, <2>1, <2>2, <2>3 DEF Spans
<1> QED
  BY <1>4, <1>5

LEMMA CurrentTaken ==
    ASSUME MainInv, BR!Inv, BR!Inv', BR!MessagesWhole', Reader!Deliver
    PROVE  Taken(Reader!Current.data)
<1>1. /\ Reader!Current = At(<<pos, inner>>) /\ Len(delivered) + 1 \in 1..Len(delivered')
      /\ delivered'[Len(delivered) + 1] = <<pos, inner>>
      /\ \A k \in 1..Len(delivered') : delivered'[k] \in BR!MessagesIn(bag, filter)
  BY Delivering DEF At
<1>2. <<pos, inner>> \in BR!MessagesIn(bag, filter)
  BY <1>1
<1>3. Taken(At(<<pos, inner>>).data)
  BY <1>2, MessageFacts DEF MainInv
<1> QED
  BY <1>1, <1>3

\* The clouds of the bag, as the loader of its dataset decodes them.
LEMMA CloudFacts ==
    ASSUME MainInv, BR!Inv, BR!Inv', BR!MessagesWhole', OnLidar, ekf
    PROVE  \E sweep, cloud :
               /\ Taken(sweep) /\ Decoded(Decoder, sweep, cloud)
               /\ Pipeline!OnCloud(Extremes(cloud))
               /\ clouds' = Append(clouds, [sweep |-> sweep, cloud |-> cloud])
<1> DEFINE sweep == Reader!Current.data
<1>1. PICK cloud \in DecodeCloud(loader.decoder, OnWire(loader.decoder, sweep)) :
          /\ Pipeline!OnCloud(Extremes(cloud))
          /\ clouds' = Append(clouds, [sweep |-> sweep, cloud |-> cloud])
  BY DEF OnLidar
<1>2. Taken(sweep)
  BY OnMessage, CurrentTaken
<1>3. loader.decoder \in {"ouster", "hesai", "livox"}
  <2>1. loader = MakeLoader(run.format, run.dir) /\ run.format \in Formats
    BY RunFacts DEF OnLidar, Reading, MainInv, Loaded, Staged
  <2> QED
    BY <2>1 DEF MakeLoader, Formats
<1>5. loader.decoder = Decoder
  BY RunFacts DEF OnLidar, Reading, MainInv, Loaded, Decoder
<1>4. Decoded(Decoder, sweep, cloud)
  BY <1>1, <1>2, <1>3, <1>5, DecodersNormalize
<1> QED
  BY <1>1, <1>2, <1>4

LEMMA PipelineStep ==
    ASSUME MainInv, BR!Inv, BR!Inv', BR!MessagesWhole', [Next]_vars
    PROVE  [P!Next]_(P!vars)
<1>1. CASE OnImu
  <2>1. Pipeline!OnImu(Reader!Current.data.stamp - Pipeline!LastStamp)
    BY <1>1 DEF OnImu
  <2>2. Reader!Current.data.stamp - Pipeline!LastStamp \in Nat \ {0}
    BY <1>1, SampleFacts
  <2> QED
    BY <2>1, <2>2, SamePipeline DEF P!Next
<1>2. CASE OnLidar /\ ekf
  <2>1. PICK sweep, cloud : Taken(sweep) /\ Decoded(Decoder, sweep, cloud)
                            /\ Pipeline!OnCloud(Extremes(cloud))
    BY <1>2, CloudFacts
  <2>2. Extremes(cloud) \in Spans
    BY <2>1, ExtremesFit
  <2>3. P!OnCloud(Extremes(cloud))
    BY <2>1, SamePipeline
  <2> QED
    BY <2>2, <2>3 DEF P!Next
<1>3. CASE TakeReady
  BY <1>3, SameDrain DEF TakeReady, P!Next
<1>4. CASE UNCHANGED pipelineVars
  BY <1>4 DEF pipelineVars, P!vars
<1> QED
  BY <1>1, <1>2, <1>3, <1>4 DEF Next, ParseArgs, ReadParams, Load, OpenBag, OpenOutputs, ReadOn,
                                Torn, OnGt, OnLidar, Finish, vars

\* Every behaviour of the program is one of the pipeline on its own: what the
\* reader delivers and the loader decodes are IMU samples that go forward and
\* clouds with a first and a last point, whatever the bag (main.cpp:189-207).
THEOREM PipelineRefined == Spec => P!Spec
<1>1. Init => P!Init
  BY SamePipeline DEF Init
<1>2. MainInv /\ BR!Inv /\ BR!Inv' /\ BR!MessagesWhole' /\ [Next]_vars => [P!Next]_(P!vars)
  BY PipelineStep
<1> QED
  BY <1>1, <1>2, MainHolds, ReaderHolds, PTL DEF Spec, P!Spec

LEMMA PipelineHolds ==
    Spec => [](P!Inv /\ P!Cut /\ P!TypeOK /\ P!EveryCloudAccounted /\ P!HeadWaitsForImu)
<1>1. P!Spec => []P!Inv
  BY P!InvHolds, PipelineAssumed
<1>2. P!Spec => []P!Cut
  BY P!CutHolds, PipelineAssumed
<1>3. P!Spec => []P!TypeOK
  BY P!TypeCorrect, PipelineAssumed
<1>4. P!Spec => []P!EveryCloudAccounted
  BY P!CloudsAccounted, PipelineAssumed
<1>5. P!Spec => []P!HeadWaitsForImu
  BY P!OnlyImuHoldsBack, PipelineAssumed
<1> QED
  BY <1>1, <1>2, <1>3, <1>4, <1>5, PipelineRefined, PTL

-----------------------------------------------------------------------------
(* What was decoded, and what came of it. *)

Kept ==
    /\ clouds \in Seq(Range(clouds))
    /\ Len(clouds) = accepted
    /\ \A i \in 1..Len(clouds) :
           Taken(clouds[i].sweep) /\ Decoded(Decoder, clouds[i].sweep, clouds[i].cloud)

LEMMA Appended ==
    ASSUME NEW s, s \in Seq(Range(s)), NEW x
    PROVE  /\ Append(s, x) \in Seq(Range(Append(s, x)))
           /\ Len(s) \in Nat /\ Len(Append(s, x)) = Len(s) + 1
           /\ Append(s, x)[Len(s) + 1] = x
           /\ \A i \in 1..Len(s) : Append(s, x)[i] = s[i]
<1> DEFINE t == Append(s, x)
<1>1. s \in Seq(Range(s) \union {x})
  OBVIOUS
<1>2. /\ t \in Seq(Range(s) \union {x})
      /\ Len(s) \in Nat /\ Len(t) = Len(s) + 1
      /\ t[Len(s) + 1] = x
      /\ \A i \in 1..Len(s) : t[i] = s[i]
  BY <1>1
<1>3. t \in Seq(Range(t))
  <2>1. DOMAIN t = 1..Len(t) /\ Len(t) \in Nat
    BY <1>2
  <2>2. \A i \in 1..Len(t) : t[i] \in Range(t)
    BY <2>1 DEF Range
  <2>3. t \in [1..Len(t) -> Range(s) \union {x}]
    BY <1>2, LenProperties
  <2>4. t \in [1..Len(t) -> Range(t)]
    BY <2>2, <2>3
  <2>5. [1..Len(t) -> Range(t)] \in {[1..n -> Range(t)] : n \in Nat}
    BY <2>1
  <2>6. Seq(Range(t)) = UNION {[1..n -> Range(t)] : n \in Nat}
    BY SeqDef
  <2> QED
    BY <2>4, <2>5, <2>6
<1> QED
  BY <1>2, <1>3

LEMMA KeptStep ==
    ASSUME MainInv, Kept, BR!Inv, BR!Inv', BR!MessagesWhole', [Next]_vars
    PROVE  Kept'
<1>0. Decoder' = Decoder
  <2>1. run' = run
    BY DEF Next, ParseArgs, ReadParams, Load, OpenBag, OpenOutputs, ReadOn, Torn, OnGt, OnImu,
           OnLidar, TakeReady, Finish, vars, mainVars
  <2> QED
    BY <2>1 DEF Decoder
<1>1. CASE OnLidar /\ ekf
  <2>1. PICK sweep, cloud :
            /\ Taken(sweep) /\ Decoded(Decoder, sweep, cloud)
            /\ Pipeline!OnCloud(Extremes(cloud))
            /\ clouds' = Append(clouds, [sweep |-> sweep, cloud |-> cloud])
    BY <1>1, CloudFacts
  <2>2. /\ clouds' \in Seq(Range(clouds'))
        /\ Len(clouds) \in Nat /\ Len(clouds') = Len(clouds) + 1
        /\ clouds'[Len(clouds) + 1] = [sweep |-> sweep, cloud |-> cloud]
        /\ \A i \in 1..Len(clouds) : clouds'[i] = clouds[i]
    <3>1. clouds \in Seq(Range(clouds))
      BY DEF Kept
    <3> DEFINE entry == [sweep |-> sweep, cloud |-> cloud]
    <3> HIDE DEF entry
    <3>2. clouds' = Append(clouds, entry)
      BY <2>1 DEF entry
    <3>3. /\ clouds' \in Seq(Range(clouds'))
          /\ Len(clouds) \in Nat /\ Len(clouds') = Len(clouds) + 1
          /\ clouds'[Len(clouds) + 1] = entry
          /\ \A i \in 1..Len(clouds) : clouds'[i] = clouds[i]
      <4>1. /\ Append(clouds, entry) \in Seq(Range(Append(clouds, entry)))
            /\ Len(clouds) \in Nat /\ Len(Append(clouds, entry)) = Len(clouds) + 1
            /\ Append(clouds, entry)[Len(clouds) + 1] = entry
            /\ \A i \in 1..Len(clouds) : Append(clouds, entry)[i] = clouds[i]
        BY <3>1, Appended
      <4> QED
        BY <3>2, <4>1
    <3> QED
      BY <3>3 DEF entry
  <2>3. accepted' = accepted + 1
    BY <2>1 DEF Pipeline!OnCloud
  <2>4. ASSUME NEW i \in 1..Len(clouds')
        PROVE  /\ Taken(clouds'[i].sweep)
               /\ Decoded(Decoder, clouds'[i].sweep, clouds'[i].cloud)
    <3>1. CASE i = Len(clouds) + 1
      BY <2>1, <2>2, <3>1
    <3>2. CASE i # Len(clouds) + 1
      <4>1. i \in 1..Len(clouds)
        BY <2>2, <3>2
      <4> QED
        BY <2>2, <4>1 DEF Kept
    <3> QED
      BY <3>1, <3>2
  <2> QED
    BY <1>0, <2>2, <2>3, <2>4 DEF Kept
<1>2. CASE UNCHANGED <<clouds, accepted>>
  BY <1>0, <1>2 DEF Kept
<1>3. CASE OnImu
  BY <1>2, <1>3 DEF OnImu, Pipeline!OnImu
<1>4. CASE TakeReady
  BY <1>2, <1>4 DEF TakeReady, Pipeline!Drain, Pipeline!DrainDone, Pipeline!Discard,
                    Pipeline!AwaitImu, Pipeline!Process, Pipeline!Throw
<1> QED
  BY <1>1, <1>2, <1>3, <1>4 DEF Next, ParseArgs, ReadParams, Load, OpenBag, OpenOutputs, ReadOn,
                                Torn, OnGt, OnLidar, Finish, vars, pipelineVars

LEMMA KeptHolds == Spec => []Kept
<1>1. Init => Kept
  BY DEF Init, Pipeline!Init, Kept
<1>2. MainInv /\ Kept /\ BR!Inv /\ BR!Inv' /\ BR!MessagesWhole' /\ [Next]_vars => Kept'
  BY KeptStep
<1> QED
  BY <1>1, <1>2, MainHolds, ReaderHolds, PTL DEF Spec

\* In every run, the pipeline gets the time of each point since the stamp of its
\* sweep, as precisely as the format has it, and the points in their order
\* (ros_deserializer.cpp:226-357).
THEOREM TimesNormalized == Spec => []SweepsNormalized
<1>1. Kept => SweepsNormalized
  BY DEF Kept, SweepsNormalized, Decoded
<1> QED
  BY <1>1, KeptHolds, PTL

\* In every run, each sweep that was processed is downsampled to one centroid
\* for each cube its points occupy (voxel_grid.cpp:21-63).
THEOREM ScansPartitioned == Spec => []CentroidsPartition
<1>1. Kept /\ P!EveryCloudAccounted => CentroidsPartition
  <2> SUFFICES ASSUME Kept, P!EveryCloudAccounted, NEW id \in Pipeline!ResultIds
               PROVE  OneCentroidPerCube(clouds[id].cloud.points)
    BY DEF CentroidsPartition
  <2>1. id \in 1..Len(clouds)
    BY SamePipeline DEF P!EveryCloudAccounted, Kept
  <2> DEFINE sweep == clouds[id].sweep
             points == clouds[id].cloud.points
  <2>2. /\ sweep.points \in Seq(Points)
        /\ points = [i \in 1..Len(sweep.points) |-> sweep.points[i].pos]
    BY <2>1 DEF Kept, Taken, Decoded
  <2>3. points \in Seq({<<>>} \union Place)
    <3>1. \A i \in 1..Len(sweep.points) : sweep.points[i].pos \in {<<>>} \union Place
      <4>1. \A i \in 1..Len(sweep.points) : sweep.points[i] \in Points
        BY <2>2, ElementOfSeq
      <4> QED
        BY <4>1 DEF Points
    <3>2. Len(sweep.points) \in Nat
      BY <2>2, LenProperties
    <3> QED
      BY <2>2, <3>1, <3>2, IsASeq
  <2> QED
    BY <2>3, CentroidPerCube
<1> QED
  BY <1>1, KeptHolds, PipelineHolds, PTL

\* In every run that ends without an error, what is still queued waits behind a
\* sweep that ends after the last IMU sample (main.cpp:209-213).
THEOREM OnlyTailWaits == Spec => []OnlyTailUnreported
<1>1. Staged /\ Kept /\ P!TypeOK /\ P!EveryCloudAccounted /\ P!HeadWaitsForImu
          => OnlyTailUnreported
  <2> SUFFICES ASSUME Staged, Kept, P!TypeOK, P!EveryCloudAccounted, P!HeadWaitsForImu,
                      stage = "done", NEW id \in 1..Len(clouds),
                      id \notin Pipeline!ResultIds \union discarded
               PROVE  \E i \in 1..Len(pending) : /\ pending[i].id <= id
                                                 /\ pending[i].end > Pipeline!LastStamp
    BY DEF OnlyTailUnreported
  <2>1. PICK i \in 1..Len(pending) : pending[i].id = id
    BY SamePipeline DEF Kept, P!EveryCloudAccounted, P!PendingIds
  <2>2. /\ pending \in Seq(P!WaitingClouds) /\ Len(pending) \in Nat
        /\ pending # <<>> /\ 1 \in 1..Len(pending) /\ Head(pending) = pending[1]
    BY <2>1 DEF P!TypeOK
  <2>3. pending[1].end > Pipeline!LastStamp
    BY <2>2, SamePipeline DEF Staged, P!HeadWaitsForImu
  <2>4. pending[1].id <= id
    BY <2>1, <2>2 DEF P!EveryCloudAccounted, P!TypeOK
  <2> QED
    BY <2>2, <2>3, <2>4
<1> QED
  BY <1>1, MainHolds, KeptHolds, PipelineHolds, PTL DEF MainInv

\* In every run, the callback gets the messages of the dataset's topics once each
\* and in file order, and the program ends without an error only after all of
\* them (bag_reader.cpp:122-232, main.cpp:186-221).
THEOREM BagsReadWhole == Spec => []BagReadWhole
<1>1. Staged /\ BR!MessagesWhole => BagReadWhole
  <2> SUFFICES ASSUME Staged, Reader!MessagesWhole, stage = "done"
               PROVE  Reader!Delivered = Reader!MessagesOn(filter)
    BY SameReader DEF BagReadWhole
  <2> QED
    BY DEF Staged, Reader!MessagesWhole
<1> QED
  BY <1>1, MainHolds, ReaderHolds, PTL DEF MainInv

\* Every key of every parameter file is in effect in the run, is warned about, or
\* is one of the two that are neither (params.h:43-49).
THEOREM KeysInEffect == Spec => []SettingsInEffect
<1>1. Staged /\ Loaded => SettingsInEffect
  <2> SUFFICES ASSUME Staged, Loaded, loader.ok,
                      NEW s \in DOMAIN run.params.sections,
                      NEW k \in DOMAIN run.params.sections[s].keys,
                      run.params.sections[s].form # "list"
               PROVE  \/ <<s, k>> \in params.warnings /\ k \notin Schema[s]
                      \/ <<s, k>> \in params.set /\ (s = "extrinsic" => loader.extrinsic = "params")
                      \/ s = "extrinsic" /\ run.format = "NTU_VIRAL"
    BY DEF SettingsInEffect
  <2>1. params = LoadParams(run.params) /\ params.ok /\ loader = MakeLoader(run.format, run.dir)
    BY DEF Loaded
  <2>2. run.params.sections[s].form = "map"
    BY <2>1, RunFacts DEF Staged, LoadParams
  <2>3. <<s, k>> \in KeysOf(run.params, {"map"})
    BY <2>2 DEF KeysOf
  <2>4. CASE k \in Schema[s]
    <3>1. <<s, k>> \in params.set
      BY <2>1, <2>3, <2>4 DEF LoadParams, Recognized
    <3>2. loader.extrinsic = "params" \/ run.format = "NTU_VIRAL"
      BY <2>1, RunFacts DEF Staged, Formats, MakeLoader
    <3> QED
      BY <3>1, <3>2
  <2>5. CASE k \notin Schema[s]
    BY <2>1, <2>3, <2>5 DEF LoadParams, Unknown
  <2> QED
    BY <2>4, <2>5
<1> QED
  BY <1>1, MainHolds, PTL DEF MainInv

-----------------------------------------------------------------------------
(* The output files. *)

\* A place after all the others is the last of them and moves none.
LEMMA LastPlace ==
    ASSUME NEW n \in Nat, NEW K, K \subseteq 1..n
    PROVE  /\ Cardinality(K) \in Nat
           /\ Cardinality(K \union {n + 1}) = Cardinality(K) + 1
           /\ Nth(K \union {n + 1}, Cardinality(K) + 1) = n + 1
           /\ \A j \in 1..Cardinality(K) : Nth(K \union {n + 1}, j) = Nth(K, j)
<1> DEFINE L == K \union {n + 1}
           c == Cardinality(K)
           Upto(S, k) == {i \in S : i <= k}
<1>1. IsFiniteSet(K) /\ c \in Nat
  <2>1. IsFiniteSet(1..n) /\ K \in SUBSET (1..n)
    BY FS_Interval
  <2> QED
    BY <2>1, FS_Subset, FS_CardinalityType
<1>2. Cardinality(L) = c + 1
  <2>1. n + 1 \notin K
    OBVIOUS
  <2> QED
    BY <1>1, <2>1, FS_AddElement
<1>3. ASSUME NEW k \in K
      PROVE  Upto(L, k) = Upto(K, k) /\ Cardinality(Upto(L, k)) <= c
  <2>1. k \in Int /\ k <= n
    OBVIOUS
  <2>2. Upto(L, k) = Upto(K, k)
    BY <2>1
  <2>3. Upto(L, k) \in SUBSET K
    BY <2>2
  <2> QED
    BY <1>1, <2>2, <2>3, FS_Subset
<1>4. Upto(L, n + 1) = L
  <2>1. \A i \in L : i <= n + 1
    OBVIOUS
  <2> QED
    BY <2>1
<1> HIDE DEF c
<1>5. ASSUME NEW j \in 1..c
      PROVE  Nth(L, j) = Nth(K, j)
  <2>1. ASSUME NEW k
        PROVE  k \in L /\ Cardinality(Upto(L, k)) = j
                   <=> k \in K /\ Cardinality(Upto(K, k)) = j
    <3>1. CASE k \in K
      BY <1>3, <3>1
    <3>2. CASE k = n + 1
      <4>1. k \notin K
        BY <3>2
      <4>2. Cardinality(Upto(L, k)) = c + 1
        BY <1>2, <1>4, <3>2
      <4>3. c + 1 # j
        BY <1>1
      <4> QED
        BY <4>1, <4>2, <4>3
    <3>3. CASE k \notin L
      BY <3>3
    <3> QED
      BY <3>1, <3>2, <3>3
  <2> HIDE DEF L
  <2>2. \A k : (k \in L /\ Cardinality({i \in L : i <= k}) = j)
                   <=> (k \in K /\ Cardinality({i \in K : i <= k}) = j)
    BY <2>1
  <2> QED
    BY <2>2, Zenon DEF Nth
<1>6. Nth(L, c + 1) = n + 1
  <2>1. n + 1 \in L /\ Cardinality(Upto(L, n + 1)) = c + 1
    BY <1>2, <1>4
  <2>2. \A k \in K : Cardinality(Upto(L, k)) # c + 1
    <3>1. ASSUME NEW k \in K
          PROVE  Cardinality(Upto(L, k)) # c + 1
      <4>1. Upto(L, k) \in SUBSET K
        BY <1>3
      <4>2. Cardinality(Upto(L, k)) \in Nat
        BY <1>1, <4>1, FS_Subset, FS_CardinalityType
      <4> QED
        BY <1>1, <1>3, <4>2
    <3> QED
      BY <3>1
  <2>3. \A k \in L : Cardinality(Upto(L, k)) = c + 1 => k = n + 1
    BY <2>2
  <2> HIDE DEF L
  <2> QED
    BY <2>1, <2>3 DEF Nth
<1> QED
  BY <1>1, <1>2, <1>5, <1>6 DEF c

\* Of a set of places, the n-th is one of them.
LEMMA NthThere ==
    ASSUME NEW n \in Nat, NEW K, K \subseteq 1..n
    PROVE  \A j \in 1..Cardinality(K) : Nth(K, j) \in K
<1> DEFINE c == Cardinality(K)
           Upto(k) == {i \in K : i <= k}
           rank == [k \in K |-> Cardinality(Upto(k))]
<1>1. IsFiniteSet(K) /\ c \in Nat
  <2>1. IsFiniteSet(1..n) /\ K \in SUBSET (1..n)
    BY FS_Interval
  <2> QED
    BY <2>1, FS_Subset, FS_CardinalityType
<1>2. ASSUME NEW k
      PROVE  IsFiniteSet(Upto(k)) /\ Cardinality(Upto(k)) \in Nat /\ Cardinality(Upto(k)) <= c
  <2>1. Upto(k) \in SUBSET K
    OBVIOUS
  <2> QED
    BY <1>1, <2>1, FS_Subset, FS_CardinalityType
<1>3. ASSUME NEW k \in K, NEW l \in K, k < l
      PROVE  Cardinality(Upto(k)) < Cardinality(Upto(l))
  <2>1. k \in Int /\ l \in Int
    OBVIOUS
  <2>2. Upto(k) \in SUBSET Upto(l) /\ l \in Upto(l) /\ l \notin Upto(k)
    <3>1. \A i \in K : i \in Int
      OBVIOUS
    <3>2. \A i \in K : i <= k => i <= l
      BY <1>3, <2>1, <3>1
    <3>3. ~(l <= k) /\ l <= l
      BY <1>3, <2>1
    <3> QED
      BY <3>2, <3>3
  <2>3. Upto(k) # Upto(l)
    BY <2>2
  <2> HIDE DEF Upto
  <2>4. /\ Cardinality(Upto(k)) <= Cardinality(Upto(l))
        /\ Cardinality(Upto(k)) # Cardinality(Upto(l))
    BY <1>2, <2>2, <2>3, FS_Subset
  <2> QED
    BY <1>2, <2>4
<1>4. ASSUME NEW k \in K
      PROVE  Cardinality(Upto(k)) # 0
  <2>1. k \in Upto(k)
    OBVIOUS
  <2> QED
    BY <1>2, <2>1, FS_EmptySet
<1> HIDE DEF c, Upto
<1>5. rank \in Injection(K, 1..c)
  <2>1. rank \in [K -> 1..c]
    BY <1>1, <1>2, <1>4
  <2>2. ASSUME NEW k \in K, NEW l \in K, rank[k] = rank[l]
        PROVE  k = l
    <3>1. k \in Int /\ l \in Int
      OBVIOUS
    <3>2. Cardinality(Upto(k)) = Cardinality(Upto(l)) /\ Cardinality(Upto(k)) \in Nat
      BY <1>2, <2>2
    <3> QED
      BY <1>3, <3>1, <3>2
  <2> QED
    BY <2>1, <2>2 DEF Injection, IsInjective
<1>6. IsFiniteSet(1..c) /\ Cardinality(1..c) = c
  BY <1>1, FS_Interval
<1>7. rank \in Surjection(K, 1..c)
  BY <1>5, <1>6, FS_Injection DEF c
<1>8. ASSUME NEW j \in 1..c
      PROVE  Nth(K, j) \in K
  <2>1. PICK k \in K : rank[k] = j
    BY <1>7 DEF Surjection
  <2>2. Cardinality({i \in K : i <= k}) = j
    BY <2>1 DEF Upto
  <2> QED
    BY <2>2 DEF Nth
<1> QED
  BY <1>8 DEF c

\* The places and the stamps of the messages on a topic.
PlacesIn(b, table, places, topic) ==
    {k \in 1..Len(places) :
        table[b.body[places[k][1]].messages[places[k][2]].conn] = topic}

StampsIn(b, table, places, topic) ==
    [n \in 1..Cardinality(PlacesIn(b, table, places, topic)) |->
        LET m == places[Nth(PlacesIn(b, table, places, topic), n)]
        IN  b.body[m[1]].messages[m[2]].data.stamp]

LEMMA StampsOnIn ==
    \A topic : StampsOn(topic) = StampsIn(bag, topics, delivered, topic)
BY DEF StampsOn, On, DeliveredMessage, StampsIn, PlacesIn

LEMMA LenOf ==
    ASSUME NEW n \in Nat, NEW f, f = [i \in 1..n |-> f[i]]
    PROVE  Len(f) = n
<1> DEFINE S == {f[i] : i \in 1..n}
<1>1. DOMAIN f = 1..n /\ f \in [1..n -> S]
  OBVIOUS
<1> HIDE DEF S
<1>2. f \in Seq(S)
  BY <1>1
<1>3. Len(f) \in Nat /\ DOMAIN f = 1..Len(f)
  BY <1>2, LenProperties
<1> QED
  BY <1>1, <1>3

\* m comes after the places.
OneMore(places, more, m) ==
    /\ Len(places) \in Nat /\ Len(more) = Len(places) + 1
    /\ more[Len(places) + 1] = m
    /\ \A k \in 1..Len(places) : more[k] = places[k]

\* One more message: its stamp comes last, if it is on the topic.
LEMMA StampsGrow ==
    ASSUME NEW b, NEW table, NEW topic, NEW places, NEW more, NEW m,
           OneMore(places, more, m),
           NEW msg, msg = b.body[m[1]].messages[m[2]],
           NEW old, old = StampsIn(b, table, places, topic),
           NEW new, new = StampsIn(b, table, more, topic)
    PROVE  /\ Len(old) \in Nat
           /\ IF table[msg.conn] = topic
                THEN /\ Len(new) = Len(old) + 1
                     /\ new[Len(old) + 1] = msg.data.stamp
                     /\ \A i \in 1..Len(old) : new[i] = old[i]
                     /\ new = [i \in 1..Len(new) |-> new[i]]
                ELSE new = old
<1> DEFINE n == Len(places)
           K == PlacesIn(b, table, places, topic)
           L == PlacesIn(b, table, more, topic)
<1> USE DEF OneMore
<1>1. K \subseteq 1..n
  BY DEF PlacesIn
<1>2. L = IF table[msg.conn] = topic THEN K \union {n + 1} ELSE K
  <2>0. n \in Nat /\ Len(more) = n + 1
    OBVIOUS
  <2>1. ASSUME NEW k \in 1..n
        PROVE  k \in L <=> k \in K
    <3>1. k \in 1..(n + 1) /\ more[k] = places[k]
      BY <2>0
    <3> QED
      BY <2>0, <3>1 DEF PlacesIn
  <2>2. n + 1 \in L <=> table[msg.conn] = topic
    <3>1. n + 1 \in 1..(n + 1) /\ more[n + 1] = m
      BY <2>0
    <3> QED
      BY <2>0, <3>1 DEF PlacesIn
  <2>3. n + 1 \notin K /\ 1..(n + 1) = 1..n \union {n + 1}
    <3>1. n + 1 \notin 1..n /\ 1..(n + 1) = 1..n \union {n + 1}
      BY <2>0
    <3> QED
      BY <1>1, <3>1
  <2>4. L \subseteq 1..(n + 1)
    BY <2>0 DEF PlacesIn
  <2> HIDE DEF K, L
  <2>5. CASE table[msg.conn] = topic
    <3>1. \A k : k \in L <=> k \in K \union {n + 1}
      BY <1>1, <2>1, <2>2, <2>3, <2>4, <2>5
    <3> QED
      BY <2>5, <3>1
  <2>6. CASE table[msg.conn] # topic
    <3>1. \A k : k \in L <=> k \in K
      BY <1>1, <2>1, <2>2, <2>3, <2>4, <2>6
    <3> QED
      BY <2>6, <3>1
  <2> QED
    BY <2>5, <2>6
<1>3. /\ Cardinality(K) \in Nat
      /\ Cardinality(K \union {n + 1}) = Cardinality(K) + 1
      /\ Nth(K \union {n + 1}, Cardinality(K) + 1) = n + 1
      /\ \A j \in 1..Cardinality(K) : Nth(K \union {n + 1}, j) = Nth(K, j)
  <2>1. PICK x, Q : x = n /\ Q = K
    OBVIOUS
  <2>2. x \in Nat /\ Q \subseteq 1..x
    BY <1>1, <2>1
  <2>3. /\ Cardinality(Q) \in Nat
        /\ Cardinality(Q \union {x + 1}) = Cardinality(Q) + 1
        /\ Nth(Q \union {x + 1}, Cardinality(Q) + 1) = x + 1
        /\ \A j \in 1..Cardinality(Q) : Nth(Q \union {x + 1}, j) = Nth(Q, j)
    BY <2>2, LastPlace, Zenon
  <2> HIDE DEF K, n
  <2> QED
    BY <2>1, <2>3
<1>4. /\ old = [j \in 1..Cardinality(K) |-> old[j]]
      /\ new = [j \in 1..Cardinality(L) |-> new[j]]
      /\ Cardinality(L) \in Nat
      /\ Len(old) = Cardinality(K) /\ Len(new) = Cardinality(L)
  <2>1. old = [j \in 1..Cardinality(K) |-> old[j]] /\ new = [j \in 1..Cardinality(L) |-> new[j]]
    BY DEF StampsIn
  <2> HIDE DEF K, L
  <2>2. Cardinality(L) \in Nat
    <3>1. L = K \/ L = K \union {n + 1}
      BY <1>2
    <3>2. Cardinality(K \union {n + 1}) \in Nat
      BY <1>3
    <3> QED
      BY <1>3, <3>1, <3>2, Zenon
  <2> QED
    BY <1>3, <2>1, <2>2, LenOf
<1>5. ASSUME NEW j \in 1..Cardinality(K)
      PROVE  more[Nth(K, j)] = places[Nth(K, j)]
  BY <1>1, NthThere
<1>6. /\ \A j \in 1..Cardinality(K) :
             old[j] = b.body[places[Nth(K, j)][1]].messages[places[Nth(K, j)][2]].data.stamp
      /\ \A j \in 1..Cardinality(L) :
             new[j] = b.body[more[Nth(L, j)][1]].messages[more[Nth(L, j)][2]].data.stamp
  BY DEF StampsIn
<1> HIDE DEF K, L
<1>7. CASE table[msg.conn] = topic
  <2>1. /\ L = K \union {n + 1}
        /\ Cardinality(L) = Cardinality(K) + 1
        /\ Nth(L, Cardinality(K) + 1) = n + 1
        /\ \A j \in 1..Cardinality(K) : Nth(L, j) = Nth(K, j)
    <3>1. L = K \union {n + 1}
      BY <1>2, <1>7
    <3> QED
      BY <1>3, <3>1
  <2>2. new[Len(old) + 1] = msg.data.stamp
    <3>1. Cardinality(K) + 1 \in 1..Cardinality(L)
      BY <1>3, <2>1
    <3>2. more[Nth(L, Cardinality(K) + 1)] = m
      BY <2>1
    <3>3. new[Cardinality(K) + 1] = b.body[m[1]].messages[m[2]].data.stamp
      BY <1>6, <3>1, <3>2
    <3> QED
      BY <1>4, <3>3
  <2>3. ASSUME NEW j \in 1..Len(old)
        PROVE  new[j] = old[j]
    <3>1. j \in 1..Cardinality(K) /\ j \in 1..Cardinality(L)
      BY <1>3, <1>4, <2>1
    <3>2. more[Nth(L, j)] = places[Nth(K, j)]
      BY <1>5, <2>1, <3>1
    <3> QED
      BY <1>6, <3>1, <3>2
  <2>4. Len(new) = Len(old) + 1 /\ Len(old) \in Nat
    BY <1>3, <1>4, <2>1
  <2>5. new = [i \in 1..Len(new) |-> new[i]]
    BY <1>4
  <2> QED
    BY <1>7, <2>2, <2>3, <2>4, <2>5
<1>8. CASE table[msg.conn] # topic
  <2>1. L = K
    BY <1>2, <1>8
  <2>2. \A j \in 1..Cardinality(K) : new[j] = old[j]
    BY <1>5, <1>6, <2>1
  <2>3. new = old
    BY <1>4, <2>1, <2>2
  <2> QED
    BY <1>3, <1>4, <1>8, <2>3
<1> QED
  BY <1>7, <1>8

\* s is where t begins.
Starts(s, t) == Len(s) <= Len(t) /\ \A i \in 1..Len(s) : s[i] = t[i]

LEMMA StartsPrefix ==
    ASSUME NEW s, NEW t, Len(s) \in Nat, Len(t) \in Nat, Starts(s, t)
    PROVE  IsPrefix(s, t)
<1> DEFINE n == Len(s)
           S == {s[i] : i \in 1..n}
<1>1. \A i \in 1..n : s[i] \in S /\ t[i] \in S /\ s[i] = t[i]
  BY DEF Starts
<1> HIDE DEF S, n
<1>2. n \in Nat
  BY DEF n
<1>3. /\ SubSeq(s, 1, n) \in Seq(S) /\ SubSeq(t, 1, n) \in Seq(S)
      /\ Len(SubSeq(s, 1, n)) = n /\ Len(SubSeq(t, 1, n)) = n
      /\ \A i \in 1..n : SubSeq(s, 1, n)[i] = s[i] /\ SubSeq(t, 1, n)[i] = t[i]
  BY <1>1, <1>2, SubSeqProperties
<1>4. SubSeq(s, 1, n) = SubSeq(t, 1, n)
  BY <1>1, <1>3, SeqEqual
<1> QED
  BY <1>4 DEF IsPrefix, Starts, n

LEMMA StartsOn ==
    ASSUME NEW s, NEW t, NEW u, Len(s) \in Nat, Len(t) \in Nat, Len(u) \in Nat,
           Starts(s, t), Starts(t, u)
    PROVE  Starts(s, u)
BY DEF Starts

\* A failure leaves a part of each file.
LEMMA FailFacts ==
    ASSUME files \in [fresh : BOOLEAN, traj : Seq(Nat), estimate : Seq(Nat), gt : Seq(Nat)],
           Fail
    PROVE  /\ files' \in [fresh : BOOLEAN, traj : Seq(Nat), estimate : Seq(Nat), gt : Seq(Nat)]
           /\ files'.fresh = files.fresh /\ stage' = "failed"
           /\ Starts(files'.traj, files.traj)
           /\ Starts(files'.estimate, files.estimate)
           /\ Starts(files'.gt, files.gt)
<1>1. PICK a \in 0..Len(files.traj), e \in 0..Len(files.estimate), g \in 0..Len(files.gt) :
          files' = [files EXCEPT !.traj = SubSeq(@, 1, a),
                                 !.estimate = SubSeq(@, 1, e),
                                 !.gt = SubSeq(@, 1, g)]
  BY DEF Fail
<1>2. ASSUME NEW s \in Seq(Nat), NEW n \in 0..Len(s)
      PROVE  SubSeq(s, 1, n) \in Seq(Nat) /\ Starts(SubSeq(s, 1, n), s)
  <2>1. n \in Nat /\ \A i \in 1..n : s[i] \in Nat
    OBVIOUS
  <2>2. /\ SubSeq(s, 1, n) \in Seq(Nat) /\ Len(SubSeq(s, 1, n)) = n
        /\ \A i \in 1..n : SubSeq(s, 1, n)[i] = s[i]
    BY <2>1
  <2> QED
    BY <2>2 DEF Starts
<1>3. /\ files'.traj = SubSeq(files.traj, 1, a)
      /\ files'.estimate = SubSeq(files.estimate, 1, e)
      /\ files'.gt = SubSeq(files.gt, 1, g)
      /\ files'.fresh = files.fresh
      /\ files' = [fresh |-> files'.fresh, traj |-> files'.traj,
                   estimate |-> files'.estimate, gt |-> files'.gt]
  BY <1>1
<1>4. /\ files'.traj \in Seq(Nat) /\ Starts(files'.traj, files.traj)
      /\ files'.estimate \in Seq(Nat) /\ Starts(files'.estimate, files.estimate)
      /\ files'.gt \in Seq(Nat) /\ Starts(files'.gt, files.gt)
  BY <1>2, <1>3
<1> QED
  BY <1>3, <1>4 DEF Fail

EndTimes(r) == [i \in 1..Len(r) |-> r[i].t]

LEMMA TimesGrow ==
    ASSUME P!Inv, P!Inv', [Next]_vars
    PROVE  /\ EndTimes(results) \in Seq(Nat) /\ EndTimes(results') \in Seq(Nat)
           /\ Starts(EndTimes(results), EndTimes(results'))
<1>1. results \in Seq(P!Processed) /\ results' \in Seq(P!Processed)
  BY DEF P!Inv, P!Typed
<1>2. ASSUME NEW r \in Seq(P!Processed)
      PROVE  /\ EndTimes(r) \in Seq(Nat) /\ Len(EndTimes(r)) = Len(r) /\ Len(r) \in Nat
             /\ \A i \in 1..Len(r) : EndTimes(r)[i] = r[i].t
  <2>1. \A i \in 1..Len(r) : r[i].t \in Nat
    <3>1. \A i \in 1..Len(r) : r[i] \in P!Processed
      BY ElementOfSeq
    <3> QED
      BY <3>1 DEF P!Processed
  <2>2. Len(r) \in Nat
    BY LenProperties
  <2> QED
    BY <2>1, <2>2 DEF EndTimes
<1>3. /\ Len(results) <= Len(results')
      /\ \A i \in 1..Len(results) : results'[i] = results[i]
  <2>1. CASE UNCHANGED results
    BY <1>1, <1>2, <2>1
  <2>2. CASE \E r : results' = Append(results, r)
    BY <1>1, <2>2
  <2>3. UNCHANGED results \/ \E r : results' = Append(results, r)
    <3>1. CASE TakeReady
      BY <3>1 DEF TakeReady, Pipeline!Drain, Pipeline!DrainDone, Pipeline!Discard,
                  Pipeline!AwaitImu, Pipeline!Process, Pipeline!Throw
    <3>2. CASE ~TakeReady
      BY <3>2 DEF Next, ParseArgs, ReadParams, Load, OpenBag, OpenOutputs, ReadOn, Torn, OnGt,
                  OnImu, OnLidar, Finish, vars, pipelineVars, Pipeline!OnImu, Pipeline!OnCloud
    <3> QED
      BY <3>1, <3>2
  <2> QED
    BY <2>1, <2>2, <2>3
<1>4. /\ EndTimes(results) \in Seq(Nat) /\ EndTimes(results') \in Seq(Nat)
      /\ Len(EndTimes(results)) = Len(results) /\ Len(results) \in Nat
      /\ Len(EndTimes(results')) = Len(results') /\ Len(results') \in Nat
      /\ \A i \in 1..Len(results) : EndTimes(results)[i] = results[i].t
      /\ \A i \in 1..Len(results') : EndTimes(results')[i] = results'[i].t
  BY <1>1, <1>2
<1>5. \A i \in 1..Len(results) : i \in 1..Len(results')
  BY <1>3, <1>4
<1> QED
  BY <1>3, <1>4, <1>5 DEF Starts

\* What the files hold of the scans, and what was read before they were emptied.
Estimated(rows) == IF loader.gt = "" THEN <<>> ELSE rows

Rowed ==
    /\ files \in [fresh : BOOLEAN, traj : Seq(Nat), estimate : Seq(Nat), gt : Seq(Nat)]
    /\ files.fresh => /\ LoadParams(run.params).ok
                      /\ MakeLoader(run.format, run.dir).ok
                      /\ bag.version /\ bag.indexed
    /\ ~files.fresh => files.traj = <<>> /\ files.estimate = <<>> /\ files.gt = <<>>
    /\ stage \in {"args", "refused", "params", "loader", "bag", "outputs"} => ~files.fresh
    /\ stage \in {"reading", "done"} => files.fresh
    /\ Starts(files.traj, EndTimes(results))
    /\ stage # "failed" /\ control = "idle" => files.traj = EndTimes(results)
    /\ loader.ok => Starts(files.estimate, Estimated(EndTimes(results)))

LEMMA FailRowed ==
    ASSUME MainInv, Rowed, P!Inv, P!Inv', [Next]_vars, Fail, UNCHANGED <<run, bag>>,
           loader'.ok => loader' = loader
    PROVE  Rowed'
<1>1. /\ files' \in [fresh : BOOLEAN, traj : Seq(Nat), estimate : Seq(Nat), gt : Seq(Nat)]
      /\ files'.fresh = files.fresh /\ stage' = "failed"
      /\ Starts(files'.traj, files.traj)
      /\ Starts(files'.estimate, files.estimate)
      /\ Starts(files'.gt, files.gt)
  BY FailFacts DEF Rowed
<1>2. /\ EndTimes(results) \in Seq(Nat) /\ EndTimes(results') \in Seq(Nat)
      /\ Starts(EndTimes(results), EndTimes(results'))
  BY TimesGrow
<1>3. \A s \in Seq(Nat) : Len(s) \in Nat
  OBVIOUS
<1>4. Starts(files'.traj, EndTimes(results'))
  <2>1. Starts(files.traj, EndTimes(results)) /\ files.traj \in Seq(Nat)
    BY DEF Rowed
  <2>2. files'.traj \in Seq(Nat)
    BY <1>1
  <2>3. Starts(files'.traj, EndTimes(results))
    BY <1>1, <1>2, <1>3, <2>1, <2>2, StartsOn
  <2> QED
    BY <1>2, <1>3, <2>2, <2>3, StartsOn
<1>5. loader'.ok => Starts(files'.estimate, Estimated(EndTimes(results))')
  <2> SUFFICES ASSUME loader'.ok
               PROVE  Starts(files'.estimate, IF loader.gt = "" THEN <<>> ELSE EndTimes(results'))
    BY DEF Estimated
  <2>1. Starts(files.estimate, IF loader.gt = "" THEN <<>> ELSE EndTimes(results))
    BY DEF Rowed, Estimated
  <2>2. files.estimate \in Seq(Nat) /\ files'.estimate \in Seq(Nat)
    BY <1>1 DEF Rowed
  <2>3. CASE loader.gt = ""
    <3>1. Len(<<>>) \in Nat /\ Starts(files.estimate, <<>>)
      BY <2>1, <2>3
    <3>2. Starts(files'.estimate, <<>>)
      BY <1>1, <1>3, <2>2, <3>1, StartsOn
    <3> QED
      BY <2>3, <3>2
  <2>4. CASE loader.gt # ""
    <3>1. Starts(files.estimate, EndTimes(results))
      BY <2>1, <2>4
    <3>2. Starts(files'.estimate, EndTimes(results))
      BY <1>1, <1>2, <1>3, <2>2, <3>1, StartsOn
    <3>3. Starts(files'.estimate, EndTimes(results'))
      BY <1>2, <1>3, <2>2, <3>2, StartsOn
    <3> QED
      BY <2>4, <3>3
  <2> QED
    BY <2>3, <2>4
<1>6. ~files'.fresh => files'.traj = <<>> /\ files'.estimate = <<>> /\ files'.gt = <<>>
  <2>1. ASSUME NEW s \in Seq(Nat), Starts(s, <<>>)
        PROVE  s = <<>>
    BY <2>1 DEF Starts
  <2> QED
    BY <1>1, <2>1 DEF Rowed
<1> QED
  BY <1>1, <1>4, <1>5, <1>6 DEF Rowed

\* The rows written before stay where the results begin.
LEMMA RowsStay ==
    ASSUME Rowed, P!Inv, P!Inv', [Next]_vars, UNCHANGED <<files, loader>>
    PROVE  /\ Starts(files'.traj, EndTimes(results'))
           /\ loader'.ok => Starts(files'.estimate, Estimated(EndTimes(results))')
<1>1. /\ EndTimes(results) \in Seq(Nat) /\ EndTimes(results') \in Seq(Nat)
      /\ Starts(EndTimes(results), EndTimes(results'))
  BY TimesGrow
<1>2. \A s \in Seq(Nat) : Len(s) \in Nat
  OBVIOUS
<1>3. files.traj \in Seq(Nat) /\ files.estimate \in Seq(Nat)
  BY DEF Rowed
<1>4. Starts(files.traj, EndTimes(results'))
  BY <1>1, <1>2, <1>3, StartsOn DEF Rowed
<1>5. loader.ok => Starts(files.estimate, IF loader.gt = "" THEN <<>> ELSE EndTimes(results'))
  BY <1>1, <1>2, <1>3, StartsOn DEF Rowed, Estimated
<1> QED
  BY <1>4, <1>5 DEF Estimated

LEMMA QuietRowed ==
    ASSUME Rowed, P!Inv, P!Inv', [Next]_vars, UNCHANGED <<files, loader, run, bag>>,
           stage' \in {"args", "refused", "params", "loader", "bag", "outputs"} => ~files.fresh,
           stage' \in {"reading", "done"} => files.fresh,
           \/ control' # "idle"
           \/ UNCHANGED <<control, results>> /\ (stage' = stage \/ stage # "failed")
    PROVE  Rowed'
<1>1. /\ Starts(files'.traj, EndTimes(results'))
      /\ loader'.ok => Starts(files'.estimate, Estimated(EndTimes(results))')
  BY RowsStay
<1>2. stage' # "failed" /\ control' = "idle" => files'.traj = EndTimes(results')
  BY DEF Rowed
<1> QED
  BY <1>1, <1>2 DEF Rowed

LEMMA RowedStep ==
    ASSUME MainInv, Rowed, P!Inv, P!Inv', BR!Inv, BR!Inv', BR!MessagesWhole', [Next]_vars
    PROVE  Rowed'
<1>1. CASE ParseArgs
  BY <1>1, QuietRowed DEF ParseArgs, Rowed, readerVars, pipelineVars, mainVars
<1>2. CASE ReadParams
  BY <1>2, QuietRowed, FailRowed DEF ReadParams, Rowed, readerVars, pipelineVars
<1>3. CASE Load
  <2>1. UNCHANGED <<run, bag, control, results>> /\ stage = "loader"
    BY <1>3 DEF Load, readerVars, pipelineVars
  <2>2. CASE ~loader'.ok
    BY <1>3, <2>1, <2>2, FailRowed DEF Load
  <2>3. CASE loader'.ok
    <3>1. stage' = "bag" /\ UNCHANGED files
      BY <1>3, <2>3 DEF Load
    <3>2. ~files.fresh /\ files.estimate = <<>>
      BY <2>1 DEF Rowed
    <3>3. \A s \in {<<>>, EndTimes(results)} : Starts(<<>>, s)
      <4>1. EndTimes(results) \in Seq(Nat)
        BY TimesGrow
      <4> QED
        BY <4>1 DEF Starts
    <3>4. Starts(files'.estimate, Estimated(EndTimes(results))')
      BY <2>1, <3>1, <3>2, <3>3 DEF Estimated
    <3> QED
      BY <2>1, <3>1, <3>2, <3>4 DEF Rowed
  <2> QED
    BY <2>2, <2>3
<1>4. CASE OpenBag
  <2>1. UNCHANGED <<run, bag, loader, control, results>> /\ stage = "bag"
    BY <1>4, ReaderMoves DEF OpenBag, mainVars, pipelineVars
  <2> QED
    BY <1>4, <2>1, QuietRowed, FailRowed DEF OpenBag, Rowed
<1>5. CASE OpenOutputs
  <2>1. UNCHANGED <<run, bag, loader, control, results>> /\ stage = "outputs"
    BY <1>5, ReaderMoves DEF OpenOutputs, mainVars, pipelineVars
  <2>2. /\ LoadParams(run.params).ok /\ MakeLoader(run.format, run.dir).ok
        /\ bag.version /\ bag.indexed
    BY <2>1 DEF MainInv, Staged, Loaded, Mapped
  <2>3. /\ files' = [files EXCEPT !.fresh = TRUE] /\ stage' = "reading"
        /\ files \in [fresh : BOOLEAN, traj : Seq(Nat), estimate : Seq(Nat), gt : Seq(Nat)]
    BY <1>5 DEF OpenOutputs, Rowed
  <2>4. /\ files' \in [fresh : BOOLEAN, traj : Seq(Nat), estimate : Seq(Nat), gt : Seq(Nat)]
        /\ files'.fresh = TRUE /\ files'.traj = files.traj /\ files'.estimate = files.estimate
    BY <2>3
  <2>5. loader'.ok => Starts(files'.estimate, Estimated(EndTimes(results))')
    BY <2>1, <2>4 DEF Rowed, Estimated
  <2> QED
    BY <2>1, <2>2, <2>3, <2>4, <2>5 DEF Rowed
<1>6. CASE ReadOn
  <2>1. UNCHANGED <<run, bag, loader, control, results>> /\ stage = "reading"
    BY <1>6, ReaderMoves DEF ReadOn, Reading, mainVars, pipelineVars
  <2>2. files.fresh
    BY <2>1 DEF Rowed
  <2> QED
    BY <1>6, <2>1, <2>2, QuietRowed, FailRowed DEF ReadOn
<1>7. CASE Torn
  <2>1. UNCHANGED <<run, bag, loader>>
    BY <1>7, OnMessage, ReaderMoves
  <2> QED
    BY <1>7, <2>1, FailRowed DEF Torn
<1>8. CASE OnGt
  <2>1. UNCHANGED <<run, bag, loader, control, results>> /\ stage = "reading" /\ stage' = stage
    BY <1>8, OnMessage, ReaderMoves DEF OnGt, pipelineVars
  <2>2. Reader!Current.data.stamp \in Nat
    BY <1>8, OnMessage, CurrentTaken DEF Taken
  <2>3. /\ files' = [files EXCEPT !.gt = Append(@, Reader!Current.data.stamp)]
        /\ files \in [fresh : BOOLEAN, traj : Seq(Nat), estimate : Seq(Nat), gt : Seq(Nat)]
    BY <1>8 DEF OnGt, Rowed
  <2>4. /\ files' \in [fresh : BOOLEAN, traj : Seq(Nat), estimate : Seq(Nat), gt : Seq(Nat)]
        /\ files'.fresh = files.fresh
        /\ files'.traj = files.traj /\ files'.estimate = files.estimate
    <3> DEFINE stamp == Reader!Current.data.stamp
               gt == Append(files.gt, stamp)
    <3>1. gt \in Seq(Nat)
      <4> HIDE DEF stamp
      <4> QED
        BY <2>2, <2>3 DEF stamp
    <3> HIDE DEF gt
    <3>2. files' = [files EXCEPT !.gt = gt]
      BY <2>3 DEF gt
    <3> QED
      BY <2>3, <3>1, <3>2
  <2>5. files.fresh
    BY <2>1 DEF Rowed
  <2>6. loader'.ok => Starts(files'.estimate, Estimated(EndTimes(results))')
    BY <2>1, <2>4 DEF Rowed, Estimated
  <2> QED
    BY <2>1, <2>4, <2>5, <2>6 DEF Rowed
<1>9. CASE OnImu \/ OnLidar
  <2>1. /\ UNCHANGED <<run, bag, loader, files>> /\ stage = "reading" /\ stage' = stage
        /\ control' = "draining" \/ UNCHANGED <<control, results>>
    BY <1>9, OnMessage, ReaderMoves DEF OnImu, OnLidar, Pipeline!OnImu, Pipeline!OnCloud,
                                        pipelineVars
  <2>2. files.fresh
    BY <2>1 DEF Rowed
  <2> QED
    BY <2>1, <2>2, QuietRowed
<1>10. CASE TakeReady
  <2>1. UNCHANGED <<run, bag, loader>> /\ stage = "reading"
    BY <1>10 DEF TakeReady, readerVars, mainVars
  <2>2. CASE control' = "dead"
    BY <1>10, <2>1, <2>2, FailRowed DEF TakeReady
  <2>3. CASE control' = "idle"
    <3>1. /\ stage' = stage
          /\ files' = [files EXCEPT !.traj = Rows, !.estimate = Estimated(Rows)]
      BY <1>10, <2>3 DEF TakeReady, Estimated
    <3>2. Rows = EndTimes(results')
      BY DEF Rows, EndTimes
    <3>3. EndTimes(results') \in Seq(Nat)
      BY TimesGrow
    <3>4. /\ files' \in [fresh : BOOLEAN, traj : Seq(Nat), estimate : Seq(Nat), gt : Seq(Nat)]
          /\ files'.fresh = files.fresh
          /\ files'.traj = EndTimes(results') /\ files'.estimate = Estimated(EndTimes(results'))
      <4>1. Estimated(EndTimes(results')) \in Seq(Nat)
        <5>1. ASSUME NEW x \in Seq(Nat)
              PROVE  (IF loader.gt = "" THEN <<>> ELSE x) \in Seq(Nat)
          <6>1. <<>> \in Seq(Nat)
            OBVIOUS
          <6> QED
            BY <6>1
        <5> QED
          BY <3>3, <5>1 DEF Estimated
      <4>2. files \in [fresh : BOOLEAN, traj : Seq(Nat), estimate : Seq(Nat), gt : Seq(Nat)]
        BY DEF Rowed
      <4> QED
        BY <3>1, <3>2, <3>3, <4>1, <4>2
    <3>5. \A s \in Seq(Nat) : Starts(s, s)
      BY DEF Starts
    <3>6. Starts(files'.traj, EndTimes(results'))
      BY <3>3, <3>4, <3>5
    <3>7. Starts(files'.estimate, Estimated(EndTimes(results))')
      <4>1. Estimated(EndTimes(results))' = Estimated(EndTimes(results'))
        BY <2>1 DEF Estimated
      <4>2. files'.estimate \in Seq(Nat)
        BY <3>4
      <4> QED
        BY <3>4, <3>5, <4>1, <4>2
    <3>8. files'.fresh
      BY <2>1, <3>4 DEF Rowed
    <3> QED
      BY <2>1, <3>1, <3>4, <3>6, <3>7, <3>8 DEF Rowed
  <2>4. CASE control' \notin {"dead", "idle"}
    <3>1. files.fresh
      BY <2>1 DEF Rowed
    <3> QED
      BY <1>10, <2>1, <2>4, <3>1, QuietRowed DEF TakeReady
  <2> QED
    BY <2>2, <2>3, <2>4
<1>11. CASE Finish
  BY <1>11, QuietRowed DEF Finish, Reading, readerVars, pipelineVars, mainVars, Rowed
<1>12. CASE UNCHANGED vars
  BY <1>12, QuietRowed DEF vars, readerVars, pipelineVars, mainVars, Rowed
<1> QED
  BY <1>1, <1>2, <1>3, <1>4, <1>5, <1>6, <1>7, <1>8, <1>9, <1>10, <1>11, <1>12 DEF Next

\* What the ground-truth file holds.
Marked ==
    LET stamps == StampsIn(bag, topics, delivered, loader.gt)
    IN  loader.ok => /\ Starts(files.gt, stamps)
                     /\ stage # "failed" => files.gt = stamps

LEMMA StampsLen ==
    ASSUME NEW b, NEW table, NEW topic, NEW places, Len(places) \in Nat
    PROVE  Len(StampsIn(b, table, places, topic)) \in Nat
<1> DEFINE K == PlacesIn(b, table, places, topic)
           s == StampsIn(b, table, places, topic)
<1>1. Cardinality(K) \in Nat
  <2>1. K \subseteq 1..Len(places)
    BY DEF PlacesIn
  <2> HIDE DEF K
  <2> QED
    BY <2>1, LastPlace
<1>2. s = [j \in 1..Cardinality(K) |-> s[j]]
  BY DEF StampsIn
<1> HIDE DEF K, s
<1>3. Len(s) \in Nat
  BY <1>1, <1>2, LenOf
<1> QED
  BY <1>3 DEF s

LEMMA NoStamps ==
    ASSUME NEW b, NEW table, NEW topic
    PROVE  StampsIn(b, table, <<>>, topic) = <<>>
<1>1. PlacesIn(b, table, <<>>, topic) = {}
  BY DEF PlacesIn
<1>2. Cardinality({}) = 0 /\ 1..0 = {}
  BY FS_EmptySet
<1> DEFINE s == StampsIn(b, table, <<>>, topic)
<1>3. s = [j \in 1..0 |-> s[j]]
  BY <1>1, <1>2 DEF StampsIn
<1> HIDE DEF s
<1>4. s \in Seq({s[j] : j \in 1..0}) /\ Len(s) = 0
  <2>1. s \in [1..0 -> {s[j] : j \in 1..0}]
    BY <1>3
  <2> QED
    BY <1>3, <2>1, LenOf
<1>5. s = <<>>
  BY <1>4, EmptySeq
<1> QED
  BY <1>5 DEF s

\* What a message adds to the stamps on the topic of the ground truth.
LEMMA StampAdded ==
    ASSUME MainInv, BR!Inv, BR!Inv', BR!MessagesWhole', Reader!Deliver,
           NEW old, old = StampsIn(bag, topics, delivered, loader.gt),
           NEW new, new = StampsIn(bag, topics, delivered', loader.gt)
    PROVE  /\ Len(old) \in Nat
           /\ IF topics[Reader!Current.conn] = loader.gt
                THEN /\ Len(new) = Len(old) + 1
                     /\ new[Len(old) + 1] = Reader!Current.data.stamp
                     /\ \A i \in 1..Len(old) : new[i] = old[i]
                     /\ new = [i \in 1..Len(new) |-> new[i]]
                ELSE new = old
<1> DEFINE m == <<pos, inner>>
           msg == bag.body[m[1]].messages[m[2]]
<1>1. /\ Reader!Current = msg
      /\ Len(delivered) \in Nat /\ Len(delivered') = Len(delivered) + 1
      /\ delivered'[Len(delivered) + 1] = m
      /\ \A k \in 1..Len(delivered) : delivered'[k] = delivered[k]
  BY Delivering
<1> HIDE DEF m
<1>2. msg = bag.body[m[1]].messages[m[2]]
  OBVIOUS
<1> HIDE DEF msg
<1>3. PICK more : more = delivered'
  OBVIOUS
<1>4. /\ Len(more) = Len(delivered) + 1 /\ more[Len(delivered) + 1] = m
      /\ \A k \in 1..Len(delivered) : more[k] = delivered[k]
      /\ new = StampsIn(bag, topics, more, loader.gt)
  BY <1>1, <1>3
<1>5. PICK gt : gt = loader.gt
  OBVIOUS
<1>6. PICK places : places = delivered
  OBVIOUS
<1>7. /\ OneMore(places, more, m)
      /\ old = StampsIn(bag, topics, places, gt)
      /\ new = StampsIn(bag, topics, more, gt)
  BY <1>1, <1>4, <1>5, <1>6 DEF OneMore
<1>8. /\ Len(old) \in Nat
      /\ IF topics[msg.conn] = gt
           THEN /\ Len(new) = Len(old) + 1
                /\ new[Len(old) + 1] = msg.data.stamp
                /\ \A i \in 1..Len(old) : new[i] = old[i]
                /\ new = [i \in 1..Len(new) |-> new[i]]
           ELSE new = old
  BY <1>2, <1>7, StampsGrow
<1> QED
  BY <1>1, <1>5, <1>8

LEMMA MarkedStep ==
    ASSUME MainInv, Rowed, Marked, BR!Inv, BR!Inv', BR!MessagesWhole', [Next]_vars
    PROVE  Marked'
<1> DEFINE old == StampsIn(bag, topics, delivered, loader.gt)
           new == StampsIn(bag', topics', delivered', loader'.gt)
<1> SUFFICES ASSUME loader'.ok
             PROVE  Starts(files'.gt, new) /\ (stage' # "failed" => files'.gt = new)
  BY DEF Marked
<1>1. /\ files \in [fresh : BOOLEAN, traj : Seq(Nat), estimate : Seq(Nat), gt : Seq(Nat)]
      /\ loader.ok => Starts(files.gt, old) /\ (stage # "failed" => files.gt = old)
  BY DEF Rowed, Marked
<1>2. \A s \in Seq(Nat) : Starts(s, s) /\ Len(s) \in Nat
  BY DEF Starts
<1>3. Len(delivered) \in Nat /\ Len(delivered') \in Nat
  BY DEF BR!Inv, BR!Typed, BR!TypeOK
<1>4. Len(old) \in Nat /\ Len(new) \in Nat
  BY <1>3, StampsLen
<1>5. CASE ParseArgs \/ ReadParams \/ Load \/ OpenBag \/ OpenOutputs
  <2>1. reader \in {"closed", "scanning", "open"}
        /\ stage \in {"args", "params", "loader", "bag", "outputs"}
    BY <1>5 DEF ParseArgs, ReadParams, Load, OpenBag, OpenOutputs, MainInv, Staged
  <2>2. delivered' = <<>>
    <3>1. delivered = <<>>
      BY <2>1 DEF BR!Inv, BR!Progress
    <3> QED
      BY <1>5, <3>1, ReaderMoves DEF ParseArgs, ReadParams, Load, OpenBag, OpenOutputs, readerVars
  <2>3. new = <<>>
    BY <2>2, NoStamps
  <2>4. files.gt = <<>>
    BY <2>1 DEF Rowed
  <2>5. files'.gt = <<>>
    <3>1. CASE Fail
      <4>1. files'.gt \in Seq(Nat) /\ Starts(files'.gt, <<>>)
        BY <1>1, <2>4, <3>1, FailFacts
      <4> QED
        BY <4>1 DEF Starts
    <3>2. CASE UNCHANGED files \/ files' = [files EXCEPT !.fresh = TRUE]
      BY <1>1, <2>4, <3>2
    <3> QED
      BY <1>5, <3>1, <3>2 DEF ParseArgs, ReadParams, Load, OpenBag, OpenOutputs
  <2>6. Starts(<<>>, <<>>)
    BY DEF Starts
  <2> HIDE DEF new
  <2> QED
    BY <2>3, <2>5, <2>6
<1> HIDE DEF old, new
<1>6. ASSUME Fail, stage # "failed", loader.ok, Starts(old, new)
      PROVE  Starts(files'.gt, new) /\ (stage' # "failed" => files'.gt = new)
  <2>1. stage' = "failed" /\ files'.gt \in Seq(Nat) /\ Starts(files'.gt, files.gt)
    BY <1>1, <1>6, FailFacts
  <2> QED
    BY <1>1, <1>2, <1>4, <1>6, <2>1, StartsOn
<1>7. CASE ReadOn \/ TakeReady \/ Finish \/ UNCHANGED vars
  <2>1. UNCHANGED <<bag, topics, delivered, loader>>
    BY <1>7, ReaderMoves DEF ReadOn, TakeReady, Finish, vars, readerVars, mainVars
  <2>2. new = old /\ loader.ok
    BY <2>1 DEF old, new
  <2>3. CASE Fail /\ stage # "failed"
    BY <1>4, <1>6, <2>2, <2>3 DEF Starts
  <2>4. CASE files'.gt = files.gt /\ (stage # "failed" \/ stage' = stage)
    BY <1>1, <2>2, <2>4
  <2>5. \/ files'.gt = files.gt /\ (stage # "failed" \/ stage' = stage)
        \/ Fail /\ stage # "failed"
    BY <1>1, <1>7 DEF ReadOn, TakeReady, Finish, Reading, vars
  <2> QED
    BY <2>3, <2>4, <2>5
<1>8. CASE Torn \/ OnGt \/ OnImu \/ OnLidar
  <2>1. /\ Reader!Deliver /\ stage = "reading" /\ UNCHANGED <<bag, topics, loader>>
        /\ loader.ok
    BY <1>8, OnMessage, ReaderMoves
  <2>2. new = StampsIn(bag, topics, delivered', loader.gt)
    BY <2>1 DEF new
  <2>3. IF topics[Reader!Current.conn] = loader.gt
          THEN /\ Len(new) = Len(old) + 1
               /\ new[Len(old) + 1] = Reader!Current.data.stamp
               /\ \A i \in 1..Len(old) : new[i] = old[i]
               /\ new = [i \in 1..Len(new) |-> new[i]]
          ELSE new = old
    BY <2>1, <2>2, StampAdded DEF old
  <2>4. files.gt = old /\ old \in Seq(Nat)
    BY <1>1, <2>1
  <2>5. CASE Torn
    <3>1. Starts(old, new)
      BY <1>4, <2>3 DEF Starts
    <3> QED
      BY <1>6, <2>1, <2>5, <3>1 DEF Torn
  <2>6. CASE OnGt
    <3> DEFINE stamp == Reader!Current.data.stamp
    <3>1. stamp \in Nat
      BY <2>1, CurrentTaken DEF Taken
    <3>2. topics[Reader!Current.conn] = loader.gt
      BY <2>6 DEF OnGt, Message
    <3>3. files'.gt = Append(old, stamp)
      BY <1>1, <2>4, <2>6 DEF OnGt
    <3> HIDE DEF stamp
    <3>4. /\ Append(old, stamp) \in Seq(Nat) /\ Len(Append(old, stamp)) = Len(old) + 1
          /\ Append(old, stamp)[Len(old) + 1] = stamp
          /\ \A i \in 1..Len(old) : Append(old, stamp)[i] = old[i]
      BY <2>4, <3>1
    <3>5. /\ Len(new) = Len(old) + 1 /\ new[Len(old) + 1] = stamp
          /\ \A i \in 1..Len(old) : new[i] = old[i]
          /\ new = [i \in 1..Len(new) |-> new[i]]
      BY <2>3, <3>2 DEF stamp
    <3>6. ASSUME NEW i \in 1..Len(new)
          PROVE  new[i] = Append(old, stamp)[i]
      <4>1. i \in 1..Len(old) \/ i = Len(old) + 1
        BY <1>4, <3>5
      <4> QED
        BY <3>4, <3>5, <4>1
    <3>7. new \in Seq(Nat)
      <4>1. \A i \in 1..Len(new) : new[i] \in Nat
        <5>1. \A i \in 1..Len(Append(old, stamp)) : Append(old, stamp)[i] \in Nat
          BY <3>4, ElementOfSeq
        <5> QED
          BY <3>4, <3>5, <3>6, <5>1
      <4> QED
        BY <1>4, <3>5, <4>1
    <3>8. new = Append(old, stamp)
      BY <3>4, <3>5, <3>6, <3>7, SeqEqual
    <3> QED
      BY <1>2, <3>3, <3>4, <3>8
  <2>7. CASE OnImu \/ OnLidar
    <3>1. topics[Reader!Current.conn] # loader.gt /\ UNCHANGED files
      BY <2>7 DEF OnImu, OnLidar, Message
    <3> QED
      BY <1>2, <2>3, <2>4, <3>1
  <2> QED
    BY <1>8, <2>5, <2>6, <2>7
<1> QED
  BY <1>5, <1>7, <1>8 DEF Next

LEMMA FilesHold == Spec => [](Rowed /\ Marked)
<1>1. Init => Rowed /\ Marked
  <2> SUFFICES ASSUME Init
               PROVE  Rowed /\ Marked
    OBVIOUS
  <2>1. /\ stage = "args" /\ results = <<>> /\ ~loader.ok
        /\ files = [fresh |-> FALSE, traj |-> <<>>, estimate |-> <<>>, gt |-> <<>>]
    BY DEF Init, Pipeline!Init
  <2>2. EndTimes(<<>>) = <<>> /\ Starts(<<>>, <<>>)
    BY DEF EndTimes, Starts
  <2>3. files \in [fresh : BOOLEAN, traj : Seq(Nat), estimate : Seq(Nat), gt : Seq(Nat)]
    BY <2>1
  <2> QED
    BY <2>1, <2>2, <2>3 DEF Rowed, Marked
<1>2. /\ MainInv /\ Rowed /\ Marked /\ BR!Inv /\ BR!Inv' /\ BR!MessagesWhole'
      /\ P!Inv /\ P!Inv' /\ [Next]_vars
      => (Rowed /\ Marked)'
  BY RowedStep, MarkedStep
<1> QED
  BY <1>1, <1>2, MainHolds, ReaderHolds, PipelineHolds, PTL DEF Spec

\* In every run, the files of an earlier one are emptied only once parameters,
\* calibration and bag have been read, and then hold what main.cpp writes into
\* them, or after a failure a prefix of it (main.cpp:136-210).
THEOREM FilesFollow == Spec => []FilesFollowResults
<1>1. Rowed /\ Marked /\ P!Inv /\ BR!Inv => FilesFollowResults
  <2> SUFFICES ASSUME Rowed, Marked, P!Inv, BR!Inv
               PROVE  FilesFollowResults
    OBVIOUS
  <2> DEFINE times == EndTimes(results)
             stamps == StampsIn(bag, topics, delivered, loader.gt)
  <2>1. times = [i \in 1..Len(results) |-> results[i].t] /\ stamps = StampsOn(loader.gt)
    BY StampsOnIn DEF EndTimes
  <2>2. Len(times) \in Nat /\ Len(stamps) \in Nat
    <3>1. results \in Seq(P!Processed) /\ Len(delivered) \in Nat
      BY DEF P!Inv, P!Typed, BR!Inv, BR!Typed, BR!TypeOK
    <3>2. Len(results) \in Nat
      BY <3>1, LenProperties
    <3>3. Len(EndTimes(results)) = Len(results)
      BY <3>2 DEF EndTimes
    <3> QED
      BY <3>1, <3>2, <3>3, StampsLen
  <2>3. /\ Len(files.traj) \in Nat /\ Len(files.estimate) \in Nat /\ Len(files.gt) \in Nat
    <3>1. files.traj \in Seq(Nat) /\ files.estimate \in Seq(Nat) /\ files.gt \in Seq(Nat)
      BY DEF Rowed
    <3> QED
      BY <3>1, LenProperties
  <2>4. /\ Starts(files.traj, times)
        /\ stage # "failed" /\ control = "idle" => files.traj = times
        /\ loader.ok => /\ Starts(files.estimate, IF loader.gt = "" THEN <<>> ELSE times)
                        /\ Starts(files.gt, stamps)
                        /\ stage # "failed" => files.gt = stamps
    BY DEF Rowed, Marked, Estimated
  <2>5. /\ files.fresh => /\ LoadParams(run.params).ok
                          /\ MakeLoader(run.format, run.dir).ok
                          /\ bag.version /\ bag.indexed
        /\ ~files.fresh => files.traj = <<>> /\ files.estimate = <<>> /\ files.gt = <<>>
    BY DEF Rowed
  <2> HIDE DEF times, stamps
  <2>6. IsPrefix(files.traj, times)
    BY <2>2, <2>3, <2>4, StartsPrefix
  <2>7. loader.ok => IsPrefix(files.estimate, IF loader.gt = "" THEN <<>> ELSE times)
    <3>1. Len(<<>>) \in Nat
      OBVIOUS
    <3> QED
      BY <2>2, <2>3, <2>4, <3>1, StartsPrefix
  <2>8. loader.ok => IsPrefix(files.gt, stamps)
    BY <2>2, <2>3, <2>4, StartsPrefix
  <2> QED
    BY <2>1, <2>4, <2>5, <2>6, <2>7, <2>8 DEF FilesFollowResults
<1> QED
  BY <1>1, FilesHold, PipelineHolds, ReaderHolds, PTL

\* The state of the program has its types.
THEOREM TypeCorrect == Spec => []TypeOK
<1>1. MainInv /\ Kept /\ Rowed /\ BR!Inv /\ P!TypeOK => TypeOK
  <2>1. BR!Inv => Reader!TypeOK
    BY SameReader DEF BR!Inv, BR!Typed
  <2>2. P!TypeOK => Pipeline!TypeOK
    BY SamePipeline
  <2> QED
    BY <2>1, <2>2 DEF TypeOK, MainInv, Staged, Loaded, Kept, Rowed
<1> QED
  BY <1>1, MainHolds, KeptHolds, FilesHold, PipelineHolds, ReaderHolds, PTL
=============================================================================
