------------------------------ MODULE PointMap ------------------------------
(***************************************************************************)
(* What the map promises its users (the public comments of IkdTree in      *)
(* src/core/map/ikd_tree.h): a multiset of live points that a build        *)
(* replaces, an insert extends by one copy of a point, and a box-delete    *)
(* empties inside a region.  Rebuilds, lazy deletion and the background    *)
(* worker are invisible here.  IkdRebuild and IkdTree implement it.        *)
(***************************************************************************)
EXTENDS PointBags

CONSTANTS
    Regions,  \* the sets of points a delete box may cover
    Loads     \* the multisets a build may be given

VARIABLE content

Init == content = NoPoints

Insert(p) == content' = AddOne(content, p)

RemoveBox(R) == content' = Outside(content, R)

Build(b) == content' = b

Next ==
    \/ \E p \in Points : Insert(p)
    \/ \E R \in Regions : RemoveBox(R)
    \/ \E b \in Loads : Build(b)

Spec == Init /\ [][Next]_content
=============================================================================
