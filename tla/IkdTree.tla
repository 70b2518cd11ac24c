------------------------------- MODULE IkdTree ------------------------------
(***************************************************************************)
(* The incremental k-d tree of src/core/map/ikd_tree.cpp: nodes with their *)
(* cached size, bounding box and lazy-deletion labels; insertion,          *)
(* box-delete and k-NN search; partial rebuilds, synchronous or on a       *)
(* worker thread with log-and-replay.                                      *)
(*                                                                         *)
(* A node is a record, an empty unique_ptr is Nil, and a slot              *)
(* (unique_ptr&) is the path of "l"/"r" steps from root_ to it.  Geometry  *)
(* is integer.  nth_element leaves the order of equal keys unspecified, so *)
(* build_range returns the set of trees it may build, and every operation  *)
(* that may rebuild returns a set of outcomes.  The recursive functions    *)
(* are over the trees no higher than MaxNodes, the bound on their size.    *)
(*                                                                         *)
(* set_suppress_auto_finalize() is left out: an insert that is kept from   *)
(* finalizing behaves as one that finds the worker still building.         *)
(***************************************************************************)
EXTENDS PointBags, FiniteSetsExt, Functions

Seqs == INSTANCE SequencesExt

CONSTANTS
    Dim,                  \* the number of coordinates of a point
    Boxes,                \* the <<low corner, high corner>> given to remove_box()
    Batches,              \* the sequences of points given to build() and insert()
    Queries,              \* the positions given to knn()
    MinRebuildSize,       \* kMinRebuildSize
    ParallelRebuildSize,  \* kParallelRebuildSize
    MaxNodes,             \* bound: physical nodes a batch may bring the tree to
    BuildInFlight         \* whether build() may be called during a rebuild

Axes == 1..Dim
Corners == [Axes -> Int]

ASSUME GeometryAssumption ==
    /\ Dim \in Nat \ {0}
    /\ Points \subseteq Corners
    /\ IsFiniteSet(Points)
    /\ Boxes \subseteq Corners \X Corners
    /\ Batches \subseteq Seq(Points)
    /\ Queries \subseteq Corners

ASSUME ThresholdAssumption ==
    /\ MinRebuildSize \in Nat
    /\ ParallelRebuildSize \in Nat
    /\ MinRebuildSize < ParallelRebuildSize
    /\ MaxNodes \in Nat
    /\ BuildInFlight \in BOOLEAN

VARIABLES
    root,      \* root_
    worker,    \* rebuild_future_: "idle" (none), "building" or "ready"
    slot,      \* frozen_slot_
    snapshot,  \* the live points the worker was given
    rebuilt,   \* what the future holds once it is ready
    above,     \* frozen_ancestors_
    log,       \* pending_inserts_
    batch      \* what insert() has still to insert

vars == <<root, worker, slot, snapshot, rebuilt, above, log, batch>>

NoSlot == <<"none">>     \* frozen_slot_ == nullptr
FreedSlot == <<"freed">> \* frozen_slot_ points into a node that was freed

-----------------------------------------------------------------------------
(* Nodes *)

Nil == [size |-> 0]

NodesOver(subtrees) ==
    [pt : Points, axis : Axes, l : subtrees, r : subtrees, lo : Corners, hi : Corners,
     size : Nat \ {0}, invalid : Nat, deleted : BOOLEAN, treeDeleted : BOOLEAN,
     pushdown : BOOLEAN, underRebuild : BOOLEAN]

TreesUpTo[h \in 0..MaxNodes] ==
    IF h = 0 THEN {Nil} ELSE {Nil} \union NodesOver(TreesUpTo[h - 1])

Trees == TreesUpTo[MaxNodes]

IsNil(n) == n.size = 0

Leaf(p) ==
    [pt |-> p, axis |-> 1, l |-> Nil, r |-> Nil, lo |-> p, hi |-> p, size |-> 1,
     invalid |-> 0, deleted |-> FALSE, treeDeleted |-> FALSE, pushdown |-> FALSE,
     underRebuild |-> FALSE]

Children(n) == {c \in {n.l, n.r} : ~IsNil(c)}

Low(P) == [a \in Axes |-> Min({p[a] : p \in P})]
High(P) == [a \in Axes |-> Max({p[a] : p \in P})]

InvalidNum(n) == IF IsNil(n) THEN 0 ELSE n.invalid

PullUpLeftBox(n) ==  \* mutant
    [n EXCEPT
        !.size = 1 + n.l.size + n.r.size,
        !.lo = Low({n.pt} \union {c.lo : c \in Children(n)}),
        !.hi = High({n.pt} \union {c.hi : c \in Children(n) \ {n.r}}),
        !.invalid = (IF n.deleted THEN 1 ELSE 0) + InvalidNum(n.l) + InvalidNum(n.r),
        !.treeDeleted = n.deleted /\ \A c \in Children(n) : c.treeDeleted]

PullUp(n) ==
    [n EXCEPT
        !.size = 1 + n.l.size + n.r.size,
        !.lo = Low({n.pt} \union {c.lo : c \in Children(n)}),
        !.hi = High({n.pt} \union {c.hi : c \in Children(n)}),
        !.invalid = (IF n.deleted THEN 1 ELSE 0) + InvalidNum(n.l) + InvalidNum(n.r),
        !.treeDeleted = n.deleted /\ \A c \in Children(n) : c.treeDeleted]

\* The lazy label of a whole deleted subtree.
Deleted(n) ==
    IF IsNil(n) THEN n
    ELSE [n EXCEPT !.deleted = TRUE, !.treeDeleted = TRUE, !.invalid = n.size,
                   !.pushdown = TRUE]

PushDownSkipped(n) == n  \* mutant

PushDown(n) ==
    IF n.pushdown
    THEN [n EXCEPT !.l = Deleted(@), !.r = Deleted(@), !.pushdown = FALSE]
    ELSE n

\* Rational forms of kAlphaBalance = 0.7 and kAlphaDelete = 0.5.
NeedsRebuild(n) ==
    /\ n.size > MinRebuildSize
    /\ \/ 10 * Max({n.l.size, n.r.size}) > 7 * (n.size - 1)
       \/ 2 * n.invalid > n.size

Flatten[n \in Trees] ==
    IF IsNil(n) THEN NoPoints
    ELSE IF n.treeDeleted THEN NoPoints
    ELSE LET below == Add(Flatten[n.l], Flatten[n.r])
         IN  IF n.deleted THEN below ELSE AddOne(below, n.pt)

-----------------------------------------------------------------------------
(* Balanced construction *)

Total(b) == Cardinality(UNION {{p} \X (1..b[p]) : p \in Points})

\* The first axis along which the points spread the most.
SplitAxis(P) ==
    LET spread == [a \in Axes |-> High(P)[a] - Low(P)[a]]
    IN  Min({a \in Axes : \A o \in Axes : spread[o] <= spread[a]})

\* What may stand before the middle element m after nth_element: every point
\* with a smaller key and enough of those with an equal one.
FirstHalves(b, axis, m) ==
    LET half == Total(b) \div 2
        ties == {p \in Points : p[axis] = m[axis]}
        left(t) == [p \in Points |-> IF p \in ties THEN t[p]
                                     ELSE IF p[axis] < m[axis] THEN b[p] ELSE 0]
    IN  {h \in {left(t) : t \in [ties -> 0..half]} :
            /\ Total(h) = half
            /\ \A p \in ties : h[p] <= b[p] - (IF p = m THEN 1 ELSE 0)}

Join(m, axis, left, right) ==
    PullUp([Leaf(m) EXCEPT !.axis = axis, !.l = left, !.r = right])

\* build_range() of up to k points.
BuildUpTo[k \in 0..MaxNodes] ==
    [b \in Multisets |->
        LET present == {p \in Points : b[p] > 0}
            axis == SplitAxis(present)
        IN  IF k = 0 \/ present = {} THEN {Nil}
            ELSE UNION {UNION {
                    {Join(m, axis, left, right) :
                        left \in BuildUpTo[k - 1][h],
                        right \in BuildUpTo[k - 1][Minus(Minus(b, h), AddOne(NoPoints, m))]} :
                    h \in FirstHalves(b, axis, m)} : m \in present}]

BuildRange(b) == BuildUpTo[MaxNodes][b]

-----------------------------------------------------------------------------
(* Mutation.  A slot is a path of sides.  An operation on a subtree takes    *)
(* the rebuild state of the tree and leaves a new subtree and state.         *)

Routes == Seq({"l", "r"})

RebuildStates ==
    [slot : Routes \union {NoSlot, FreedSlot}, snapshot : Multisets, above : Seq(Routes),
     log : Seq(Points), capturing : BOOLEAN, replaying : BOOLEAN]

Thawed(replaying) ==
    [slot |-> NoSlot, snapshot |-> NoPoints, above |-> <<>>, log |-> <<>>,
     capturing |-> FALSE, replaying |-> replaying]

Current ==
    [slot |-> slot, snapshot |-> snapshot, above |-> above, log |-> log,
     capturing |-> FALSE, replaying |-> FALSE]

Leaving(n, c) == [tree |-> n, state |-> c]

StartAsyncRebuild(n, c, path) ==
    Leaving([n EXCEPT !.underRebuild = TRUE],
            [c EXCEPT !.slot = path, !.snapshot = Flatten[n], !.capturing = TRUE,
                      !.above = <<>>, !.log = <<>>])

Rebuild(n, c) == {Leaving(m, c) : m \in BuildRange(Flatten[n])}

Captured(c, path) == IF c.capturing THEN [c EXCEPT !.above = Append(@, path)] ELSE c

UnwindUncaptured(n, c, path) ==  \* mutant
    IF c.slot = NoSlot /\ NeedsRebuild(n)
    THEN IF ~c.replaying /\ n.size >= ParallelRebuildSize
         THEN {StartAsyncRebuild(n, c, path)}
         ELSE Rebuild(n, c)
    ELSE {Leaving(n, c)}

UnwindInFlight(n, c, path) ==  \* mutant
    IF NeedsRebuild(n)
    THEN IF c.slot = NoSlot /\ ~c.replaying /\ n.size >= ParallelRebuildSize
         THEN {StartAsyncRebuild(n, c, path)}
         ELSE Rebuild(n, c)
    ELSE {Leaving(n, Captured(c, path))}

UnwindRootOnly(n, c, path) ==  \* mutant
    IF path = <<>> /\ NeedsRebuild(n) THEN Rebuild(n, c) ELSE {Leaving(n, c)}

\* The end of a mutation of the subtree at path: maybe_rebuild() and, above a
\* rebuild this operation has started, the recording of the ancestor.
Unwind(n, c, path) ==
    IF c.slot = NoSlot /\ NeedsRebuild(n)
    THEN IF ~c.replaying /\ n.size >= ParallelRebuildSize
         THEN {StartAsyncRebuild(n, c, path)}
         ELSE Rebuild(n, c)
    ELSE {Leaving(n, Captured(c, path))}

\* pending_inserts_ once an insertion of p has come to node n.
Logged(c, n, p) == IF n.underRebuild THEN [c EXCEPT !.log = Append(@, p)] ELSE c

InsertAt[n \in Trees] ==
    [c \in RebuildStates |-> [path \in Routes |-> [p \in Points |->
        IF IsNil(n) THEN {Leaving(PullUp(Leaf(p)), c)}
        ELSE LET m == PushDown(n)
             IN  IF p[m.axis] < m.pt[m.axis]
                 THEN UNION {Unwind(PullUp([m EXCEPT !.l = d.tree]), d.state, path) :
                         d \in InsertAt[m.l][Logged(c, n, p)][Append(path, "l")][p]}
                 ELSE UNION {Unwind(PullUp([m EXCEPT !.r = d.tree]), d.state, path) :
                         d \in InsertAt[m.r][Logged(c, n, p)][Append(path, "r")][p]}]]]

Within(p, box) == \A a \in Axes : box[1][a] <= p[a] /\ p[a] <= box[2][a]

Disjoint(n, box) ==
    \E a \in Axes : n.hi[a] < box[1][a] \/ n.lo[a] > box[2][a]

\* A node with its own point deleted if it is in the box, over new subtrees.
Cleared(m, box, left, right) ==
    [m EXCEPT !.deleted = IF Within(m.pt, box) THEN TRUE ELSE @, !.l = left, !.r = right]

RemoveBoxAt[n \in Trees] ==
    [c \in RebuildStates |-> [path \in Routes |-> [box \in Corners \X Corners |->
        IF IsNil(n) THEN {Leaving(n, c)}
        ELSE IF n.treeDeleted \/ Disjoint(n, box) THEN {Leaving(n, c)}
        ELSE IF Within(n.lo, box) /\ Within(n.hi, box) THEN {Leaving(Deleted(n), c)}
        ELSE LET m == PushDown(n)
             IN  UNION {UNION {
                    Unwind(PullUp(Cleared(m, box, d.tree, e.tree)), e.state, path) :
                    e \in RemoveBoxAt[m.r][d.state][Append(path, "r")][box]} :
                    d \in RemoveBoxAt[m.l][c][Append(path, "l")][box]}]]]

-----------------------------------------------------------------------------
(* Landing a rebuild *)

\* Every node of a tree, by its path.
Nodes[n \in Trees] ==
    IF IsNil(n) THEN <<>>
    ELSE LET paths == {<<>>} \union {<<"l">> \o q : q \in DOMAIN Nodes[n.l]}
                             \union {<<"r">> \o q : q \in DOMAIN Nodes[n.r]}
         IN  [q \in paths |-> IF q = <<>> THEN n
                            ELSE IF Head(q) = "l" THEN Nodes[n.l][Tail(q)]
                            ELSE Nodes[n.r][Tail(q)]]

Paths(n) == DOMAIN Nodes[n]
At(n, path) == Nodes[n][path]

Put[n \in Trees] ==
    [path \in Routes |-> [m \in Trees |->
        IF path = <<>> THEN m
        ELSE IF Head(path) = "l" THEN [n EXCEPT !.l = Put[n.l][Tail(path)][m]]
        ELSE [n EXCEPT !.r = Put[n.r][Tail(path)][m]]]]

ReplayedNothing == {rebuilt}  \* mutant

\* The replacement, once k points of the log are replayed onto it by
\* synchronous inserts.
ReplayedUpTo[k \in 0..Len(log)] ==
    IF k = 0 THEN {rebuilt}
    ELSE UNION {{d.tree : d \in InsertAt[t][Thawed(TRUE)][<<>>][log[k]]} :
                   t \in ReplayedUpTo[k - 1]}

Replayed == ReplayedUpTo[Len(log)]

\* The tree once the first k recorded ancestors are refreshed.
RefreshedUpTo[k \in 0..Len(above)] ==
    [t \in Trees |->
        IF k = 0 THEN t
        ELSE LET u == RefreshedUpTo[k - 1][t]
             IN  Put[u][above[k]][PullUp(At(u, above[k]))]]

\* The tree after the swap and the refresh of the recorded ancestors.  A slot
\* inside a freed node is undefined behaviour: the outcome kept is the one
\* where the process survives and the write is lost.
Landed ==
    IF slot = FreedSlot THEN {root}
    ELSE {RefreshedUpTo[Len(above)][Put[root][slot][n]] : n \in Replayed}

\* An operation that began in phase `was` leaves tree n and rebuild state c.
Finish(n, c, was) ==
    /\ root' = n
    /\ slot' = c.slot
    /\ snapshot' = c.snapshot
    /\ above' = c.above
    /\ log' = c.log
    /\ rebuilt' = IF was = "ready" THEN rebuilt ELSE Nil
    /\ worker' = IF c.slot # NoSlot /\ was = "idle" THEN "building" ELSE was

FinalizeRebuild == \E t \in Landed : Finish(t, Thawed(FALSE), "idle")

-----------------------------------------------------------------------------
(* Operations *)

Init ==
    /\ root = Nil
    /\ worker = "idle"
    /\ slot = NoSlot
    /\ snapshot = NoPoints
    /\ rebuilt = Nil
    /\ above = <<>>
    /\ log = <<>>
    /\ batch = <<>>

Size == root.size - InvalidNum(root)

\* The worker builds from its snapshot alone.
WorkerDone ==
    /\ worker = "building"
    /\ worker' = "ready"
    /\ rebuilt' \in BuildRange(snapshot)
    /\ UNCHANGED <<root, slot, snapshot, above, log, batch>>

InsertBegin(points) ==
    /\ batch = <<>>
    /\ root.size + Len(points) <= MaxNodes
    /\ batch' = points
    /\ IF worker = "ready"
       THEN FinalizeRebuild
       ELSE UNCHANGED <<root, worker, slot, snapshot, rebuilt, above, log>>

InsertStep ==
    /\ batch # <<>>
    /\ \E d \in InsertAt[root][Current][<<>>][Head(batch)] : Finish(d.tree, d.state, worker)
    /\ batch' = Tail(batch)

\* remove_box() blocks on a rebuild in flight.
RemoveBox(box) ==
    /\ batch = <<>>
    /\ worker # "building"
    /\ \E t \in IF worker = "ready" THEN Landed ELSE {root} :
       \E d \in RemoveBoxAt[t][Thawed(FALSE)][<<>>][box] : Finish(d.tree, d.state, "idle")
    /\ UNCHANGED batch

FinishPendingRebuild ==
    /\ batch = <<>>
    /\ worker = "ready"
    /\ FinalizeRebuild
    /\ UNCHANGED batch

\* build() replaces root_ and leaves the rebuild state alone.  Its one caller,
\* LocalMap::insert, calls it when size() is 0.
Build(points) ==
    /\ batch = <<>>
    /\ Size = 0
    /\ Len(points) <= MaxNodes
    /\ worker = "idle" \/ BuildInFlight
    /\ root' \in BuildRange(Count(points))
    /\ slot' = IF slot \in {NoSlot, <<>>} THEN slot ELSE FreedSlot
    /\ UNCHANGED <<worker, snapshot, rebuilt, above, log, batch>>

Next ==
    \/ WorkerDone
    \/ \E points \in Batches : InsertBegin(points)
    \/ InsertStep
    \/ \E box \in Boxes : RemoveBox(box)
    \/ FinishPendingRebuild
    \/ \E points \in Batches : Build(points)

Spec == Init /\ [][Next]_vars
-----------------------------------------------------------------------------
(* k-NN search.  The heap is the multiset of the candidates; its front is a  *)
(* farthest one, and which of several the heap operations leave open.        *)

\* The squared length of a vector.
Norm2(v) ==
    LET sum[a \in 0..Dim] == IF a = 0 THEN 0 ELSE sum[a - 1] + v[a] * v[a]
    IN  sum[Dim]

Dist2(p, q) == Norm2([a \in Axes |-> p[a] - q[a]])

BoxDist2(q, lo, hi) == Norm2([a \in Axes |-> Max({lo[a] - q[a], q[a] - hi[a], 0})])

Fronts(heap, q) ==
    {w \in Points : /\ heap[w] > 0
                    /\ \A x \in Points : heap[x] > 0 => Dist2(x, q) <= Dist2(w, q)}

\* Take p as a candidate among the k best.
Offer(heap, p, q, k) ==
    IF Total(heap) < k THEN {AddOne(heap, p)}
    ELSE {IF Dist2(p, q) < Dist2(w, q)
          THEN AddOne(Minus(heap, AddOne(NoPoints, w)), p)
          ELSE heap : w \in Fronts(heap, q)}

\* Whether a box could still hold a closer neighbor than the k-th best.
Promising(box, heap, q, k) ==
    \/ Total(heap) < k
    \/ \E w \in Fronts(heap, q) : BoxDist2(q, box.lo, box.hi) < Dist2(w, q)

Search[n \in Trees] ==
    [q \in Corners |-> [k \in Nat \ {0} |-> [heap \in Multisets |->
        IF IsNil(n) THEN {heap}
        ELSE IF n.treeDeleted THEN {heap}
        ELSE LET own == IF n.deleted THEN {heap} ELSE Offer(heap, n.pt, q, k)
                 descend(near, far, box) ==
                    UNION {UNION {
                        IF ~IsNil(box) /\ Promising(box, first, q, k)
                        THEN far[q][k][first] ELSE {first} :
                        first \in near[q][k][h]} : h \in own}
             IN  IF q[n.axis] < n.pt[n.axis]
                 THEN descend(Search[n.l], Search[n.r], n.r)
                 ELSE descend(Search[n.r], Search[n.l], n.l)]]]

Knn(q, k) == IF k = 0 THEN {NoPoints} ELSE Search[root][q][k][NoPoints]

-----------------------------------------------------------------------------
(* Properties *)

\* What check() asserts at a node.
Checked(n) ==
    /\ n.size = 1 + n.l.size + n.r.size
    /\ n.lo = Low({n.pt} \union {c.lo : c \in Children(n)})
    /\ n.hi = High({n.pt} \union {c.hi : c \in Children(n)})
    /\ ~IsNil(n.l) => n.l.hi[n.axis] <= n.pt[n.axis]
    /\ ~IsNil(n.r) => n.pt[n.axis] <= n.r.lo[n.axis]
    /\ IF n.pushdown
       THEN n.deleted /\ n.invalid = n.size /\ n.treeDeleted
       ELSE /\ n.invalid = (IF n.deleted THEN 1 ELSE 0)
                           + InvalidNum(n.l) + InvalidNum(n.r)
            /\ n.treeDeleted = (n.deleted /\ \A c \in Children(n) : c.treeDeleted)

Check(n) == LET nodes == Nodes[n] IN \A path \in DOMAIN nodes : Checked(nodes[path])

\* After every operation the cached sizes, boxes, split order and deletion
\* labels are those of a recomputation from the leaves, also below a pending
\* pushdown and right after a swap, and size() is the number of points that
\* flatten() collects (ikd_tree.cpp:398-465, 379-383).
Validate ==
    /\ Check(root)
    /\ Size = Total(Flatten[root])

\* What an exhaustive search finds among the live points.
Nearest(found, live, q, k) ==
    /\ Total(found) = Min({k, Total(live)})
    /\ \A p \in Points : found[p] <= live[p]
    /\ \A x, p \in Points :
           found[x] > 0 /\ found[p] < live[p] => Dist2(x, q) <= Dist2(p, q)

Answered(q, k) ==
    Knn(q, k) # {} /\ \A found \in Knn(q, k) : Nearest(found, Flatten[root], q, k)

\* Pruning by lazily deleted labels and by boxes that still span deleted
\* points never loses a neighbour: knn() returns live points at the distances
\* an exhaustive search finds, sized to min(k, size()) (ikd_tree.h:41-42).
KnnIsNearest == \A q \in Queries, k \in 0..3 : Answered(q, k)

\* While a rebuild is in flight its snapshot and log give exactly the live
\* points of the frozen subtree, which mutations have changed in place
\* (ikd_tree.cpp:171-183).
ReplayRestoresFrozen ==
    worker # "idle" => Flatten[At(root, slot)] = Add(snapshot, Count(log))

\* While a rebuild is in flight frozen_slot_ holds the one node flagged
\* underRebuild, and the nodes recorded for the refresh after the swap exist,
\* come children first, and include every ancestor of the slot: a missing one
\* would keep the size and box of the old subtree (ikd_tree.cpp:184-187).
AncestorsCaptured ==
    worker # "idle" =>
        LET paths == Paths(root)
        IN  /\ {path \in paths : At(root, path).underRebuild} = {slot}
            /\ Range(above) \subseteq paths
            /\ \A path \in paths :
                   (path # slot /\ Seqs!IsPrefix(path, slot)) => path \in Range(above)
            /\ \A i, j \in DOMAIN above :
                   Seqs!IsStrictPrefix(above[i], above[j]) => j < i

\* From the start of a rebuild to its swap no step restructures the tree: a
\* slot of the old tree holds the same point, so that the pointers kept in
\* frozen_slot_ and frozen_ancestors_ stay valid (ikd_tree.cpp:128-131).
NothingMovesInFlight ==
    [][/\ worker # "idle"
       /\ worker' = worker \/ worker' = "ready"
       => \A path \in Paths(root) :
              path \in Paths(root') /\ At(root', path).pt = At(root, path).pt]_vars

Balanced[n \in Trees] ==
    \/ IsNil(n)
    \/ n.treeDeleted
    \/ ~NeedsRebuild(n) /\ Balanced[n.l] /\ Balanced[n.r]

\* When no subtree is large enough for the worker, the mutations keep every
\* node that still holds a live point within the balance and garbage criteria,
\* also the ones whose subtree shrank in a rebuild further down
\* (ikd_tree.cpp:31-37, 253-254).
BalancedWithoutWorker == ParallelRebuildSize > MaxNodes => Balanced[root]

\* The background-rebuild protocol, with the frozen subtree cut out of the tree.
FrozenLive == IF worker = "idle" THEN NoPoints ELSE Flatten[At(root, slot)]

Protocol ==
    INSTANCE IkdRebuild WITH
        rest <- Minus(Flatten[root], FrozenLive),
        frozen <- FrozenLive,
        log <- Count(log),
        Regions <- {{p \in Points : Within(p, box)} : box \in Boxes},
        MaxCopies <- MaxNodes

\* Every step of the tree is a step of the protocol: wherever a subtree is
\* frozen, mutated in place and swapped, queries see what IkdRebuild says they
\* see, and so the abstract map (ikd_tree.h:68-70).
ImplementsProtocol == Protocol!Spec

-----------------------------------------------------------------------------
(* What the comments say and the code does not keep *)

\* "pushdown nodes are never nested" (ikd_tree.cpp:444).
PushdownNeverNested ==
    \A path \in Paths(root) :
        LET n == At(root, path)
        IN  n.pushdown => \A c \in Children(n) : ~c.pushdown

\* finish_pending_rebuild: "Correctness never depends on this (the live subtree
\* is always current)" (ikd_tree.h:69): landing a rebuild changes no live
\* point.
LandingIsInvisible ==
    [][FinishPendingRebuild => Flatten[root'] = Flatten[root]]_vars
=============================================================================
