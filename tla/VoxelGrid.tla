----------------------------- MODULE VoxelGrid ------------------------------
(***************************************************************************)
(* voxel_downsample() of src/core/preprocess/voxel_grid.cpp: points of a   *)
(* cloud that fall into the same cube of a grid become one centroid.  A    *)
(* coordinate is an integer number of units, Leaf of them to a cube; a     *)
(* centroid is the number and the sum of its points; <<>> is a point with  *)
(* a coordinate that is not finite.  The program packs three indices of 21 *)
(* bits into one key; the model gives an index KeySpan values.             *)
(***************************************************************************)
EXTENDS Integers, Sequences, FiniteSetsExt

CONSTANTS
    Leaf,     \* leaf_size, in units of the coordinates
    KeySpan   \* 2^21, kMask + 1

ASSUME GridAssumption ==
    /\ Leaf \in Nat \ {0}
    /\ KeySpan \in Nat \ {0}
    /\ KeySpan % 2 = 0

Bias == KeySpan \div 2

TruncatedIndex(v) == IF v >= 0 THEN v \div Leaf ELSE -((-v) \div Leaf)  \* mutant

\* Rounded down, so that the cubes on the two sides of zero are different ones.
Index(v) == v \div Leaf

\* voxel_key(): each index biased, cut to its bits and shifted to its place.
VoxelKey(p) ==
    LET bits(a) == (Index(p[a]) + Bias) % KeySpan
    IN  bits(1) + KeySpan * (bits(2) + KeySpan * bits(3))

Finite(points) == {i \in 1..Len(points) : points[i] # <<>>}

Centroid(points, members) ==
    [count |-> Cardinality(members),
     sum |-> [a \in 1..3 |-> MapThenSumSet(LAMBDA i : points[i][a], members)]]

\* One centroid per key; the points that are not finite are left out.
Downsample(points) ==
    LET members(key) == {i \in Finite(points) : VoxelKey(points[i]) = key}
    IN  {Centroid(points, members(key)) : key \in {VoxelKey(points[i]) : i \in Finite(points)}}

\* The grid by its meaning: the cube of a point is where its low corner is.
InCube(p, corner) == \A a \in 1..3 : corner[a] <= p[a] /\ p[a] < corner[a] + Leaf

InRange(p) == \A a \in 1..3 : -Bias * Leaf <= p[a] /\ p[a] < Bias * Leaf

\* What downsampling is for the filter: every finite point counts in exactly
\* one centroid, and, of a scan within the range of the key, the centroids are
\* those of the occupied cubes.
OneCentroidPerCube(points) ==
    LET scan == Downsample(points)
        corners == {c \in [1..3 -> {Leaf * k : k \in -Bias..(Bias - 1)}] :
                        \E i \in Finite(points) : InCube(points[i], c)}
        inside(c) == {i \in Finite(points) : InCube(points[i], c)}
    IN  (\A i \in Finite(points) : InRange(points[i])) =>
            scan = {Centroid(points, inside(c)) : c \in corners}
=============================================================================
