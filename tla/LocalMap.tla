------------------------------ MODULE LocalMap ------------------------------
(***************************************************************************)
(* The growth policy of the map, src/core/map/local_map.cpp: points that   *)
(* repeat what the map holds are not inserted, and a cube that slides with *)
(* the sensor bounds the map.  A step is what process_scan() of            *)
(* src/core/estimator/iterated_ekf.cpp does to the map: insert() with the  *)
(* scan registered at the new pose, then recenter() at that pose.          *)
(*                                                                         *)
(* Coordinates are integers.  The k-d tree is the set of its live points   *)
(* (IkdTree models it), each with the number of the scan that brought it,  *)
(* which the code does not keep.  The estimate is nondeterministic.        *)
(***************************************************************************)
EXTENDS Integers, Functions

CONSTANTS
    Axes,           \* the axes of the world
    SensorRange,    \* sensor_range, along any axis
    SlideMargin,    \* slide_margin()
    KeepHalfExtent, \* keep_half_extent()
    Leaf2,          \* voxel_leaf squared
    CropEnabled,    \* crop.enabled
    VoxelOnInsert,  \* voxel_on_insert
    Positions,      \* the positions the estimate may take
    Shapes,         \* the downsampled scans, as sets of offsets from the sensor
    MaxScans        \* bound: the number of scans

Coordinates == [Axes -> Int]

\* The header asks for margins beyond the range and a cube beyond the margins.
ASSUME LocalMapAssumption ==
    /\ SensorRange \in Nat /\ SlideMargin \in Nat /\ KeepHalfExtent \in Nat
    /\ SensorRange <= SlideMargin /\ SlideMargin <= KeepHalfExtent
    /\ Leaf2 \in Nat
    /\ CropEnabled \in BOOLEAN /\ VoxelOnInsert \in BOOLEAN
    /\ Positions \subseteq Coordinates
    /\ \A shape \in Shapes : shape \subseteq [Axes -> -SensorRange .. SensorRange]
    /\ MaxScans \in Nat

VARIABLES
    live,    \* tree_: the live points and the scans they came with
    sensor,  \* the last estimated position
    seated,  \* box_initialized_
    boxMin,  \* box_min_
    boxMax,  \* box_max_
    scans    \* the number of scans processed

vars == <<live, sensor, seated, boxMin, boxMax, scans>>

Plus(p, q) == [a \in Axes |-> p[a] + q[a]]

ShiftOneAxis(p, d) ==  \* mutant
    [a \in {CHOOSE x \in Axes : TRUE} |-> p[a] + d]

Shift(p, d) == [a \in Axes |-> p[a] + d]

Dist2(p, q) == FoldFunction(+, 0, [a \in Axes |-> (p[a] - q[a]) * (p[a] - q[a])])

Within(p, lo, hi) == \A a \in Axes : lo[a] <= p[a] /\ p[a] <= hi[a]

-----------------------------------------------------------------------------
Origin == [a \in Axes |-> 0]

Init ==
    /\ live = {}
    /\ sensor = Origin
    /\ seated = FALSE
    /\ boxMin = Origin
    /\ boxMax = Origin
    /\ scans = 0

\* The nearest map point, as knn() finds it, is no nearer than the leaf.
Fresh(p) == \A x \in live : Dist2(p, x.pt) >= Leaf2

\* What insert() puts into the tree.
KeptAll(world) == world  \* mutant

Kept(world) ==
    IF live = {} \/ ~VoxelOnInsert THEN world ELSE {p \in world : Fresh(p)}

Inserted(world) == live \union {[pt |-> p, scan |-> scans + 1] : p \in Kept(world)}

\* box_needs_slide()
NeedsSlideOneFace(center, lo, hi) ==  \* mutant
    \E a \in Axes : center[a] - lo[a] < SlideMargin

NeedsSlide(center, lo, hi) ==
    \E a \in Axes : center[a] - lo[a] < SlideMargin \/ hi[a] - center[a] < SlideMargin

\* crop_to_box(): box-delete the slabs below and above the box on each axis.
CroppedInward(points, lo, hi) ==  \* mutant
    {x \in points :
        \A a \in Axes : ~(x.pt[a] < lo[a] + SlideMargin) /\ ~(x.pt[a] > hi[a] - SlideMargin)}

Cropped(points, lo, hi) ==
    {x \in points : \A a \in Axes : ~(x.pt[a] < lo[a]) /\ ~(x.pt[a] > hi[a])}

\* recenter(): the first call seats the cube, a later one slides it when the
\* sensor nears a face.
SeatLow(pos) ==  \* mutant
    /\ boxMin' = pos
    /\ boxMax' = Shift(pos, 2 * KeepHalfExtent)

Seat(pos) ==
    /\ boxMin' = Shift(pos, -KeepHalfExtent)
    /\ boxMax' = Shift(pos, KeepHalfExtent)

\* process_scan() on a scan of this shape, which registers it at pos.
Register(pos, points) ==
    /\ scans < MaxScans
    /\ scans' = scans + 1
    /\ sensor' = pos
    /\ \/ /\ CropEnabled /\ ~seated
          /\ Seat(pos)
          /\ seated' = TRUE
          /\ live' = points
       \/ /\ CropEnabled => seated /\ ~NeedsSlide(pos, boxMin, boxMax)
          /\ live' = points
          /\ UNCHANGED <<seated, boxMin, boxMax>>
       \/ /\ CropEnabled /\ seated /\ NeedsSlide(pos, boxMin, boxMax)
          /\ Seat(pos)
          /\ live' = Cropped(points, boxMin', boxMax')
          /\ UNCHANGED seated

ProcessScan(pos, shape) == Register(pos, Inserted({Plus(pos, o) : o \in shape}))

Next == \E pos \in Positions, shape \in Shapes : ProcessScan(pos, shape)

Spec == Init /\ [][Next]_vars
-----------------------------------------------------------------------------
TypeOK ==
    /\ live \subseteq [pt : Coordinates, scan : 1..scans]
    /\ sensor \in Coordinates
    /\ seated \in BOOLEAN
    /\ boxMin \in Coordinates
    /\ boxMax \in Coordinates
    /\ scans \in Nat

\* The map never outgrows the cube, although the first recentering and those
\* that leave the cube in place crop nothing: "nothing outside it yet"
\* (local_map.cpp:60-68).
MapInsideCube ==
    seated => \A x \in live : Within(x.pt, boxMin, boxMax)

\* Wherever the estimate jumps, the cube contains all that the sensor can
\* observe from where it is (local_map.h:17-20).
CubeCoversRange ==
    seated => Within(Shift(sensor, -SensorRange), boxMin, boxMax)
              /\ Within(Shift(sensor, SensorRange), boxMin, boxMax)

\* A step never takes a point away that is in range of the new position
\* (local_map.h:17-21).
ObservedPointsStay ==
    [][\A x \in live :
           Within(x.pt, Shift(sensor', -SensorRange), Shift(sensor', SensorRange)) =>
               x \in live']_vars

\* "re-observing a surface does not pile up near-duplicates": points that came
\* with different scans are at least a leaf apart, also after crops have
\* opened and rescans have filled the map again (local_map.h:56-58).
ScansSpaced ==
    VoxelOnInsert =>
        \A x, y \in live : x.scan # y.scan => Dist2(x.pt, y.pt) >= Leaf2

\* "map resolution (m): min spacing between map points" (local_map.h:48).
MinSpacing ==
    VoxelOnInsert =>
        \A x, y \in live : x # y => Dist2(x.pt, y.pt) >= Leaf2
=============================================================================
