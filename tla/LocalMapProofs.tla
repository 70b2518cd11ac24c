--------------------------- MODULE LocalMapProofs ---------------------------
(***************************************************************************)
(* The map stays inside its cube, the cube around everything in range, and *)
(* the points of different scans a leaf apart, for any world, parameters,  *)
(* scans and estimates that satisfy LocalMapAssumption.                    *)
(***************************************************************************)
EXTENDS LocalMap, TLAPS

USE LocalMapAssumption

\* With cropping on, only an empty map has no cube; with it off, none has.
SeatedByFirstScan ==
    IF CropEnabled THEN seated \/ live = {} ELSE ~seated

Inv == TypeOK /\ SeatedByFirstScan /\ MapInsideCube /\ CubeCoversRange /\ ScansSpaced

-----------------------------------------------------------------------------
\* The two corners of a cube of half side d around p.
LEMMA ShiftType ==
    ASSUME NEW p \in Coordinates, NEW d \in Nat
    PROVE  /\ Shift(p, -d) \in Coordinates
           /\ Shift(p, d) \in Coordinates
           /\ \A a \in Axes : /\ Shift(p, -d)[a] = p[a] - d
                             /\ Shift(p, d)[a] = p[a] + d
BY DEF Shift, Coordinates

LEMMA Dist2Symmetric ==
    ASSUME NEW p \in Coordinates, NEW q \in Coordinates
    PROVE  Dist2(p, q) = Dist2(q, p)
<1>1. \A a \in Axes : (p[a] - q[a]) * (p[a] - q[a]) = (q[a] - p[a]) * (q[a] - p[a])
  <2> SUFFICES ASSUME NEW a \in Axes
               PROVE  (p[a] - q[a]) * (p[a] - q[a]) = (q[a] - p[a]) * (q[a] - p[a])
    OBVIOUS
  <2>1. p[a] \in Int /\ q[a] \in Int
    BY DEF Coordinates
  <2> QED
    BY <2>1
<1> QED
  BY <1>1 DEF Dist2

\* A scan registered at pos lies within the range of pos.
LEMMA WorldInRange ==
    ASSUME NEW pos \in Positions, NEW shape \in Shapes, NEW o \in shape
    PROVE  /\ Plus(pos, o) \in Coordinates
           /\ \A a \in Axes : /\ pos[a] - SensorRange <= Plus(pos, o)[a]
                              /\ Plus(pos, o)[a] <= pos[a] + SensorRange
<1>1. pos \in Coordinates /\ o \in [Axes -> -SensorRange .. SensorRange]
  OBVIOUS
<1> QED
  BY <1>1 DEF Plus, Coordinates

\* What insert() leaves: the points of before and some of the scan, which keep
\* the spacing.
LEMMA InsertedPoints ==
    ASSUME TypeOK, ScansSpaced, NEW world \in SUBSET Coordinates
    PROVE  /\ Inserted(world) \subseteq [pt : Coordinates, scan : 1..(scans + 1)]
           /\ \A x \in Inserted(world) : x \in live \/ x.pt \in world
           /\ live \subseteq Inserted(world)
           /\ VoxelOnInsert =>
                  \A x, y \in Inserted(world) :
                      x.scan # y.scan => Dist2(x.pt, y.pt) >= Leaf2
<1> DEFINE fresh == {[pt |-> p, scan |-> scans + 1] : p \in Kept(world)}
<1>1. Kept(world) \subseteq world
  BY DEF Kept
<1>2. Inserted(world) = live \union fresh
  BY DEF Inserted
<1>3. live \subseteq [pt : Coordinates, scan : 1..scans] /\ scans \in Nat
  BY DEF TypeOK
<1>4. \A x \in fresh : x.pt \in Kept(world) /\ x.scan = scans + 1
  OBVIOUS
<1>5. fresh \subseteq [pt : Coordinates, scan : 1..(scans + 1)]
  BY <1>1, <1>3
<1>6. ASSUME VoxelOnInsert, NEW x \in fresh, NEW y \in live
      PROVE  Dist2(x.pt, y.pt) >= Leaf2 /\ Dist2(y.pt, x.pt) >= Leaf2
  <2>1. Fresh(x.pt)
    BY <1>4, <1>6 DEF Kept
  <2>2. x.pt \in Coordinates /\ y.pt \in Coordinates
    BY <1>1, <1>3, <1>4
  <2> QED
    BY <2>1, <2>2, Dist2Symmetric DEF Fresh
<1>7. ASSUME VoxelOnInsert, NEW x \in Inserted(world), NEW y \in Inserted(world),
             x.scan # y.scan
      PROVE  Dist2(x.pt, y.pt) >= Leaf2
  <2>1. CASE x \in live /\ y \in live
    BY <2>1, <1>7 DEF ScansSpaced
  <2>2. CASE x \in fresh /\ y \in live
    BY <2>2, <1>6, <1>7
  <2>3. CASE x \in live /\ y \in fresh
    BY <2>3, <1>6, <1>7
  <2>4. CASE x \in fresh /\ y \in fresh
    BY <2>4, <1>4, <1>7
  <2> QED
    BY <1>2, <2>1, <2>2, <2>3, <2>4
<1> QED
  BY <1>1, <1>2, <1>3, <1>4, <1>5, <1>7

-----------------------------------------------------------------------------
LEMMA InitInv == Init => Inv
<1> SUFFICES ASSUME Init PROVE Inv
  OBVIOUS
<1>1. Origin \in Coordinates
  BY DEF Origin, Coordinates
<1> QED
  BY <1>1 DEF Init, Inv, TypeOK, SeatedByFirstScan, MapInsideCube, CubeCoversRange,
              ScansSpaced

LEMMA NextInv == Inv /\ [Next]_vars => Inv'
<1> SUFFICES ASSUME Inv, [Next]_vars
             PROVE  Inv'
  OBVIOUS
<1>1. ASSUME NEW pos \in Positions, NEW shape \in Shapes, ProcessScan(pos, shape)
      PROVE  Inv'
  <2> DEFINE world == {Plus(pos, o) : o \in shape}
             points == Inserted(world)
  <2>1. world \in SUBSET Coordinates
        /\ \A p \in world : \A a \in Axes :
               pos[a] - SensorRange <= p[a] /\ p[a] <= pos[a] + SensorRange
    BY WorldInRange
  <2>2. /\ points \subseteq [pt : Coordinates, scan : 1..(scans + 1)]
        /\ \A x \in points : x \in live \/ x.pt \in world
        /\ VoxelOnInsert =>
               \A x, y \in points : x.scan # y.scan => Dist2(x.pt, y.pt) >= Leaf2
    BY <2>1, InsertedPoints DEF Inv
  <2>3. Register(pos, points)
    BY <1>1 DEF ProcessScan
  <2>4. /\ pos \in Coordinates
        /\ Shift(pos, -KeepHalfExtent) \in Coordinates
        /\ Shift(pos, KeepHalfExtent) \in Coordinates
        /\ \A a \in Axes : /\ Shift(pos, -KeepHalfExtent)[a] = pos[a] - KeepHalfExtent
                           /\ Shift(pos, KeepHalfExtent)[a] = pos[a] + KeepHalfExtent
                           /\ Shift(pos, -SensorRange)[a] = pos[a] - SensorRange
                           /\ Shift(pos, SensorRange)[a] = pos[a] + SensorRange
                           /\ pos[a] \in Int
    <3>1. pos \in Coordinates
      OBVIOUS
    <3>2. \A a \in Axes : pos[a] \in Int
      BY <3>1 DEF Coordinates
    <3> QED
      BY <3>1, <3>2, ShiftType
  <2> HIDE DEF points, world
  <2>5. live' \subseteq points /\ scans' = scans + 1 /\ sensor' = pos /\ scans \in Nat
    BY <2>3 DEF Register, Cropped, Inv, TypeOK
  <2>6. TypeOK'
    <3>1. boxMin' \in Coordinates /\ boxMax' \in Coordinates /\ seated' \in BOOLEAN
      BY <2>3, <2>4 DEF Register, Seat, Inv, TypeOK
    <3> QED
      BY <2>2, <2>4, <2>5, <3>1 DEF TypeOK
  <2>7. ScansSpaced'
    BY <2>2, <2>5 DEF ScansSpaced
  <2>8. /\ SeatedByFirstScan' /\ MapInsideCube' /\ CubeCoversRange'
    <3>1. CASE CropEnabled /\ ~seated /\ Seat(pos) /\ seated' = TRUE /\ live' = points
      <4>1. live = {}
        BY <3>1 DEF Inv, SeatedByFirstScan
      <4>2. \A x \in points : x.pt \in world
        BY <2>2, <4>1
      <4>3. \A x \in points : Within(x.pt, boxMin', boxMax')
        <5> SUFFICES ASSUME NEW x \in points, NEW a \in Axes
                     PROVE  boxMin'[a] <= x.pt[a] /\ x.pt[a] <= boxMax'[a]
          BY DEF Within
        <5>1. x.pt \in world /\ x.pt[a] \in Int
          BY <4>2, <2>1 DEF Coordinates
        <5> QED
          BY <5>1, <2>1, <2>4, <3>1 DEF Seat
      <4> QED
        BY <2>4, <2>5, <3>1, <4>3
        DEF SeatedByFirstScan, MapInsideCube, CubeCoversRange, Within, Seat
    <3>2. CASE /\ CropEnabled => seated /\ ~NeedsSlide(pos, boxMin, boxMax)
               /\ live' = points
               /\ UNCHANGED <<seated, boxMin, boxMax>>
      <4>1. CASE ~CropEnabled
        BY <3>2, <4>1 DEF Inv, SeatedByFirstScan, MapInsideCube, CubeCoversRange
      <4>2. CASE CropEnabled
        <5>1. seated /\ ~NeedsSlide(pos, boxMin, boxMax)
          BY <3>2, <4>2
        <5>2. \A a \in Axes : /\ boxMin[a] \in Int /\ boxMax[a] \in Int
                              /\ pos[a] - boxMin[a] >= SlideMargin
                              /\ boxMax[a] - pos[a] >= SlideMargin
          BY <5>1, <2>4 DEF NeedsSlide, Inv, TypeOK, Coordinates
        <5>3. \A x \in points : Within(x.pt, boxMin, boxMax)
          <6> SUFFICES ASSUME NEW x \in points
                       PROVE  Within(x.pt, boxMin, boxMax)
            OBVIOUS
          <6>1. CASE x \in live
            BY <6>1, <5>1 DEF Inv, MapInsideCube
          <6>2. CASE x.pt \in world
            <7> SUFFICES ASSUME NEW a \in Axes
                         PROVE  boxMin[a] <= x.pt[a] /\ x.pt[a] <= boxMax[a]
              BY DEF Within
            <7>1. x.pt[a] \in Int
              BY <6>2, <2>1 DEF Coordinates
            <7> QED
              BY <7>1, <6>2, <5>2, <2>1, <2>4
          <6> QED
            BY <2>2, <6>1, <6>2
        <5> QED
          BY <3>2, <4>2, <5>1, <5>2, <5>3, <2>4, <2>5
          DEF SeatedByFirstScan, MapInsideCube, CubeCoversRange, Within
      <4> QED
        BY <4>1, <4>2
    <3>3. CASE /\ CropEnabled /\ seated /\ Seat(pos)
               /\ live' = Cropped(points, boxMin', boxMax')
               /\ UNCHANGED seated
      <4>1. \A x \in live' : Within(x.pt, boxMin', boxMax')
        <5> SUFFICES ASSUME NEW x \in live', NEW a \in Axes
                     PROVE  boxMin'[a] <= x.pt[a] /\ x.pt[a] <= boxMax'[a]
          BY DEF Within
        <5>1. x.pt[a] \in Int
          BY <2>2, <2>5 DEF Coordinates
        <5>2. ~(x.pt[a] < boxMin'[a]) /\ ~(x.pt[a] > boxMax'[a])
          BY <3>3 DEF Cropped
        <5>3. boxMin'[a] \in Int /\ boxMax'[a] \in Int
          BY <2>6 DEF TypeOK, Coordinates
        <5> QED
          BY <5>1, <5>2, <5>3
      <4> QED
        BY <2>4, <2>5, <3>3, <4>1
        DEF SeatedByFirstScan, MapInsideCube, CubeCoversRange, Within, Seat
    <3> QED
      BY <2>3, <3>1, <3>2, <3>3 DEF Register
  <2> QED
    BY <2>6, <2>7, <2>8 DEF Inv
<1>2. CASE UNCHANGED vars
  BY <1>2 DEF Inv, TypeOK, SeatedByFirstScan, MapInsideCube, CubeCoversRange,
                   ScansSpaced, vars
<1> QED
  BY <1>1, <1>2 DEF Next

LEMMA InvHolds == Spec => []Inv
BY InitInv, NextInv, PTL DEF Spec

\* The state stays well typed.
THEOREM TypeCorrect == Spec => []TypeOK
<1>1. Inv => TypeOK
  BY DEF Inv
<1> QED
  BY InvHolds, <1>1, PTL

\* The map never outgrows the cube (local_map.cpp:55-72).
THEOREM MapBounded == Spec => []MapInsideCube
<1>1. Inv => MapInsideCube
  BY DEF Inv
<1> QED
  BY InvHolds, <1>1, PTL

\* The cube contains all that the sensor can observe (local_map.h:17-20).
THEOREM RangeCovered == Spec => []CubeCoversRange
<1>1. Inv => CubeCoversRange
  BY DEF Inv
<1> QED
  BY InvHolds, <1>1, PTL

\* Points of different scans are a leaf apart (local_map.cpp:39-52).
THEOREM Spaced == Spec => []ScansSpaced
<1>1. Inv => ScansSpaced
  BY DEF Inv
<1> QED
  BY InvHolds, <1>1, PTL

\* No step takes a point away that is in range of the new position
\* (local_map.cpp:55-72).
THEOREM ObservedStay == Spec => ObservedPointsStay
<1>1. ASSUME Inv, [Next]_vars
      PROVE  [\A x \in live :
                  Within(x.pt, Shift(sensor', -SensorRange), Shift(sensor', SensorRange)) =>
                      x \in live']_vars
  <2> SUFFICES ASSUME NEW pos \in Positions, NEW shape \in Shapes,
                      ProcessScan(pos, shape), NEW x \in live,
                      Within(x.pt, Shift(sensor', -SensorRange), Shift(sensor', SensorRange))
               PROVE  x \in live'
    BY <1>1 DEF Next
  <2> DEFINE points == Inserted({Plus(pos, o) : o \in shape})
  <2>1. x \in points
    BY DEF Inserted
  <2>2. Register(pos, points)
    BY DEF ProcessScan
  <2>3. pos \in Coordinates /\ x.pt \in Coordinates
    BY <1>1 DEF Inv, TypeOK
  <2> HIDE DEF points
  <2>4. CASE live' = points
    BY <2>1, <2>4
  <2>5. CASE Seat(pos) /\ live' = Cropped(points, boxMin', boxMax')
    <3>1. \A a \in Axes : ~(x.pt[a] < boxMin'[a]) /\ ~(x.pt[a] > boxMax'[a])
      <4> SUFFICES ASSUME NEW a \in Axes
                   PROVE  ~(x.pt[a] < boxMin'[a]) /\ ~(x.pt[a] > boxMax'[a])
        OBVIOUS
      <4>1. sensor' = pos
        BY <2>2 DEF Register
      <4>0. /\ Shift(pos, -SensorRange)[a] = pos[a] - SensorRange
            /\ Shift(pos, SensorRange)[a] = pos[a] + SensorRange
        BY <2>3, ShiftType
      <4>2. /\ pos[a] - SensorRange <= x.pt[a]
            /\ x.pt[a] <= pos[a] + SensorRange
        BY <4>0, <4>1 DEF Within
      <4>3. /\ boxMin'[a] = pos[a] - KeepHalfExtent
            /\ boxMax'[a] = pos[a] + KeepHalfExtent
        BY <2>3, <2>5, ShiftType DEF Seat
      <4> QED
        BY <4>2, <4>3, <2>3 DEF Coordinates
    <3> QED
      BY <2>1, <2>5, <3>1 DEF Cropped
  <2> QED
    BY <2>2, <2>4, <2>5 DEF Register
<1> QED
  BY InvHolds, <1>1, PTL DEF Spec, ObservedPointsStay
=============================================================================
