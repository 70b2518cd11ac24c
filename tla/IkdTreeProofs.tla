---------------------------- MODULE IkdTreeProofs ---------------------------
(***************************************************************************)
(* The invariant of the k-d tree and what follows from it, for every set   *)
(* of points, dimension, threshold and bound.                              *)
(*                                                                         *)
(* With BuildInFlight, build() may free the frozen slot, and the invariant *)
(* fails: see LandingIsInvisible in IkdTree.  The theorems are about       *)
(* sequences of calls in which no build() comes during a rebuild.          *)
(***************************************************************************)
EXTENDS IkdTreeLemmas

-----------------------------------------------------------------------------
(* The invariant *)

\* While a rebuild is in flight the tree can take up its replacement: the slot
\* and the recorded nodes are below no pending pushdown, the slot alone is
\* flagged, and snapshot and log are its live points.
InFlight ==
    /\ slot \in Open(root) /\ Flags(root) = {slot}
    /\ Recording(root, above) /\ Covering(slot, above)
    /\ snapshot \in Multisets /\ log \in Seq(Points)
    /\ Flatten[At(root, slot)] = Add(snapshot, Count(log))
    /\ worker = "ready" => rebuilt \in Built(snapshot)

\* Without one nothing is left over of the last.
AtRest ==
    /\ Flags(root) = {}
    /\ slot = NoSlot /\ snapshot = NoPoints /\ above = <<>> /\ log = <<>>

Sizes ==
    /\ root \in Sound
    /\ batch \in Seq(Points)
    /\ root.size + Len(batch) <= MaxNodes

\* Rebuilds that are all synchronous leave every node in balance.
Steady ==
    ParallelRebuildSize > MaxNodes =>
        worker = "idle" /\ (MinRebuildSize >= 2 => Balanced[root])

Inv ==
    /\ Sizes
    /\ Steady
    /\ worker \in {"idle", "building", "ready"}
    /\ worker = "idle" => AtRest
    /\ worker # "idle" => InFlight

-----------------------------------------------------------------------------
(* What a step is of *)

LEMMA RoutesOfPaths ==
    ASSUME NEW n \in Sound, NEW q \in Open(n)
    PROVE  q \in Paths(n) /\ q \in Routes /\ q # NoSlot /\ q # FreedSlot
<1>1. n \in Trees
  BY DEF Sound
<1>2. q \in Paths(n)
  BY DEF Open
<1> HIDE DEF Paths
<1> QED
  BY <1>1, <1>2, PathsType, RouteSteps

LEMMA ThawedIdle ==
    /\ Thawed(FALSE) \in RebuildStates /\ Idle(Thawed(FALSE))
    /\ <<>> \in Routes
<1>1. NoPoints \in Multisets
  BY DEF NoPoints, Multisets
<1> QED
  BY <1>1 DEF Thawed, RebuildStates, Idle, Routes

\* At rest the state that an insertion starts from is the one of a tree that
\* has never been rebuilt; in flight it is one with a slot.
LEMMA CurrentState ==
    ASSUME Inv
    PROVE  /\ worker = "idle" => Current = Thawed(FALSE)
           /\ worker # "idle" => Current \in RebuildStates /\ Busy(Current)
<1>1. ASSUME worker = "idle"
      PROVE  Current = Thawed(FALSE)
  BY <1>1 DEF Inv, AtRest, Current, Thawed
<1>2. ASSUME worker # "idle"
      PROVE  Current \in RebuildStates /\ Busy(Current)
  <2>1. slot \in Routes /\ slot # NoSlot
    BY <1>2, RoutesOfPaths DEF Inv, Sizes, InFlight
  <2>2. above \in Seq(Routes) /\ snapshot \in Multisets /\ log \in Seq(Points)
    BY <1>2 DEF Inv, InFlight, Recording
  <2> QED
    BY <2>1, <2>2 DEF Current, RebuildStates, Busy
<1> QED
  BY <1>1, <1>2

\* A rebuild that is done may be swapped in: the tree keeps its live points and
\* its boxes, and nothing is frozen in it.
LEMMA LandedStands ==
    ASSUME Inv, worker = "ready", NEW t \in Landed
    PROVE  Stands(t, root)
<1>1. root \in Sound /\ InFlight
  BY DEF Inv, Sizes
<1>2. slot \in Paths(root) /\ slot # FreedSlot
  BY <1>1, RoutesOfPaths DEF InFlight
<1>3. PICK m \in Replayed : t = RefreshedUpTo[Len(above)][Put[root][slot][m]]
  BY <1>2 DEF Landed
<1>4. PICK n : n = At(root, slot)
  OBVIOUS
<1>5. n \in Sound
  BY <1>1, <1>2, <1>4, AtSound
<1>6. Stands(m, n)
  BY <1>1, <1>4, <1>5, ReplayStands DEF InFlight
<1> QED
  BY <1>1, <1>3, <1>4, <1>6, SwapStands DEF InFlight

\* The size of a subtree bounds the points it was frozen with.
LEMMA SnapshotSize ==
    ASSUME Inv, worker # "idle"
    PROVE  snapshot \in Multisets /\ Total(snapshot) <= MaxNodes
<1>1. root \in Sound /\ InFlight
  BY DEF Inv, Sizes
<1>2. PICK n : n = At(root, slot)
  OBVIOUS
<1>3. n \in Sound
  BY <1>1, <1>2, RoutesOfPaths, AtSound DEF InFlight
<1>4. snapshot \in Multisets /\ log \in Seq(Points) /\ Flatten[n] = Add(snapshot, Count(log))
  BY <1>1, <1>2 DEF InFlight
<1>5. Total(Flatten[n]) = Total(snapshot) + Len(log)
  BY <1>4, CountSteps, TotalAdd
<1>6. n \in Trees /\ n.size <= MaxNodes
  BY <1>3 DEF Sound
<1>7. n.size \in Nat /\ InvalidNum(n) \in Nat /\ Total(snapshot) \in Nat /\ Len(log) \in Nat
  BY <1>4, <1>6, SizeType, CopiesAre, LenProperties
<1>8. n.size - InvalidNum(n) = Total(Flatten[n])
  BY <1>3, SoundSize
<1> QED
  BY <1>4, <1>5, <1>6, <1>7, <1>8, ThresholdAssumption

-----------------------------------------------------------------------------
(* How a mutation ends *)

\* What a mutation that starts a rebuild leaves behind.
LEMMA StartedState ==
    ASSUME NEW t \in Sound, NEW e, Started(t, <<>>, Thawed(FALSE), e)
    PROVE  /\ e.slot \in Open(t) /\ Flags(t) = {e.slot}
           /\ Recording(t, e.above) /\ Covering(e.slot, e.above)
           /\ e.snapshot = Flatten[At(t, e.slot)] /\ e.snapshot \in Multisets
           /\ e.log = <<>>
           /\ ParallelRebuildSize <= MaxNodes
<1>1. PICK c, u : c = Thawed(FALSE) /\ u = <<>>
  OBVIOUS
<1>2. c \in RebuildStates /\ u \in Routes /\ c.above = u
  BY <1>1, ThawedIdle DEF Thawed
<1>3. Started(t, u, c, e)
  BY <1>1
<1>4. PICK s \in Open(t) : \E rel :
          /\ Flags(t) = {s} /\ Recording(t, rel) /\ Covering(s, rel)
          /\ Records(e, Freezing(c, u \o s, Flatten[At(t, s)]), u, rel)
  BY <1>3 DEF Started
<1>5. PICK rel :
          /\ Flags(t) = {s} /\ Recording(t, rel) /\ Covering(s, rel)
          /\ Records(e, Freezing(c, u \o s, Flatten[At(t, s)]), u, rel)
  BY <1>4
<1>6. PICK f : f = Freezing(c, u \o s, Flatten[At(t, s)])
  OBVIOUS
<1>7. f \in RebuildStates /\ s \in Routes
  BY <1>2, <1>6, StartedSlot
<1>8. u \o s = s
  BY <1>1, <1>7, RouteSteps
<1>9. rel \in Seq(Routes)
  BY <1>5 DEF Recording
<1>10. Alike(e, f) /\ e.above = Then(f.above, Under(u, rel))
  BY <1>2, <1>5, <1>6, <1>7, <1>9, RecordsIs
<1>11. f.slot = s /\ f.snapshot = Flatten[At(t, s)] /\ f.log = <<>> /\ f.above = <<>>
  BY <1>6, <1>8 DEF Freezing
<1>12. Under(u, rel) = rel
  <2>1. /\ Under(u, rel) \in Seq(Routes) /\ Len(Under(u, rel)) = Len(rel)
        /\ \A i \in 1..Len(rel) : Under(u, rel)[i] = u \o rel[i] /\ rel[i] \in Routes
    BY <1>2, <1>9, UnderIs
  <2>2. \A q \in Routes : u \o q = q
    BY <1>1, RouteSteps
  <2>3. PICK w : w = Under(u, rel)
    OBVIOUS
  <2>4. w \in Seq(Routes) /\ Len(rel) = Len(w) /\ \A i \in 1..Len(rel) : rel[i] = w[i]
    BY <2>1, <2>2, <2>3
  <2>5. rel = w
    BY <1>9, <2>4, SeqEqual
  <2> QED
    BY <2>3, <2>5
<1>13. e.above = rel
  <2>1. PICK o : o = <<>>
    OBVIOUS
  <2>2. e.above = Then(o, rel)
    BY <1>10, <1>11, <1>12, <2>1
  <2>3. Then(o, rel) = rel
    BY <1>9, <2>1, ConcatEmptySeq DEF Then
  <2> QED
    BY <2>2, <2>3
<1>14. e.slot = s /\ e.snapshot = Flatten[At(t, s)] /\ e.log = <<>>
  BY <1>10, <1>11 DEF Alike
<1>15. At(t, s) \in Trees
  BY OpenIs DEF Sound
<1>16. e.snapshot \in Multisets
  BY <1>14, <1>15, FlattenType
<1>17. ParallelRebuildSize <= MaxNodes
  BY <1>3 DEF Started
<1> QED
  BY <1>5, <1>13, <1>14, <1>16, <1>17

\* A mutation that began with nothing in flight ends at rest or in flight.
LEMMA FinishIdle ==
    ASSUME NEW t \in Sound, NEW b \in Seq(Points), t.size + Len(b) <= MaxNodes, batch' = b,
           NEW e, NEW even \in BOOLEAN, AfterIdle(even, t, <<>>, Thawed(FALSE), e),
           ParallelRebuildSize > MaxNodes /\ MinRebuildSize >= 2 => even,
           Finish(t, e, "idle")
    PROVE  Inv'
<1>1. /\ root' = t
      /\ slot' = e.slot /\ snapshot' = e.snapshot /\ above' = e.above /\ log' = e.log
      /\ worker' = IF e.slot # NoSlot THEN "building" ELSE "idle"
  BY DEF Finish
<1>2. Sizes'
  BY <1>1 DEF Sizes
<1>3. CASE Started(t, <<>>, Thawed(FALSE), e)
  <2>1. /\ e.slot \in Open(t) /\ Flags(t) = {e.slot}
        /\ Recording(t, e.above) /\ Covering(e.slot, e.above)
        /\ e.snapshot = Flatten[At(t, e.slot)] /\ e.snapshot \in Multisets
        /\ e.log = <<>>
        /\ ParallelRebuildSize <= MaxNodes
    BY <1>3, StartedState
  <2>2. worker' = "building"
    BY <1>1, <2>1, RoutesOfPaths
  <2>3. PICK z : z = <<>>
    OBVIOUS
  <2>4. z \in Seq(Points) /\ Count(z) = NoPoints
    <3>1. z \in Seq(Points) /\ Len(z) = 0
      BY <2>3
    <3> QED
      BY <3>1, TallySteps
  <2>5. e.snapshot = Add(e.snapshot, Count(z))
    BY <2>1, <2>4, BagLaws
  <2>6. InFlight'
    BY <1>1, <2>1, <2>2, <2>3, <2>4, <2>5 DEF InFlight
  <2>7. Steady'
    BY <2>1, ThresholdAssumption DEF Steady
  <2> QED
    BY <1>2, <2>2, <2>6, <2>7 DEF Inv
<1>4. CASE e = Thawed(FALSE) /\ Flags(t) = {} /\ (even => Balanced[t])
  <2>1. /\ e.slot = NoSlot /\ e.snapshot = NoPoints /\ e.above = <<>> /\ e.log = <<>>
    BY <1>4 DEF Thawed
  <2>2. worker' = "idle" /\ AtRest'
    BY <1>1, <1>4, <2>1 DEF AtRest
  <2>3. Steady'
    BY <1>1, <1>4, <2>2 DEF Steady
  <2> QED
    BY <1>2, <2>2, <2>3 DEF Inv
<1> QED
  BY <1>3, <1>4 DEF AfterIdle

-----------------------------------------------------------------------------
(* The invariant is kept, one action after the other *)

LEMMA KeepsFinalize ==
    ASSUME Inv, worker = "ready", FinalizeRebuild,
           NEW b \in Seq(Points), batch' = b, root.size + Len(b) <= MaxNodes
    PROVE  Inv'
<1>1. PICK t \in Landed : Finish(t, Thawed(FALSE), "idle")
  BY DEF FinalizeRebuild
<1>2. Stands(t, root)
  BY <1>1, LandedStands
<1>3. t \in Sound /\ t.size <= root.size /\ Flags(t) = {}
  BY <1>2 DEF Stands, Fits
<1>4. t.size + Len(b) <= MaxNodes
  <2>1. t \in Trees /\ root \in Trees
    BY <1>3 DEF Inv, Sizes, Sound
  <2>2. t.size \in Nat /\ root.size \in Nat /\ Len(b) \in Nat
    BY <2>1, SizeType, LenProperties
  <2> QED
    BY <1>3, <2>2, ThresholdAssumption
<1>5. AfterIdle(FALSE, t, <<>>, Thawed(FALSE), Thawed(FALSE))
  BY <1>3 DEF AfterIdle
<1>6. ~(ParallelRebuildSize > MaxNodes)
  BY DEF Inv, Steady
<1> QED
  BY <1>1, <1>3, <1>4, <1>5, <1>6, FinishIdle

LEMMA KeepsInsertBegin ==
    ASSUME Inv, NEW points \in Batches, InsertBegin(points)
    PROVE  Inv'
<1>1. points \in Seq(Points) /\ batch' = points /\ root.size + Len(points) <= MaxNodes
  BY GeometryAssumption DEF InsertBegin
<1>2. CASE worker = "ready"
  BY <1>1, <1>2, KeepsFinalize DEF InsertBegin
<1>3. CASE worker # "ready"
  <2>1. UNCHANGED <<root, worker, slot, snapshot, rebuilt, above, log>>
    BY <1>3 DEF InsertBegin
  <2>2. Sizes'
    BY <1>1, <2>1 DEF Sizes, Inv
  <2>3. Steady' /\ (AtRest => AtRest') /\ (InFlight => InFlight')
    BY <2>1 DEF Inv, Steady, AtRest, InFlight
  <2> QED
    BY <2>1, <2>2, <2>3 DEF Inv
<1> QED
  BY <1>2, <1>3

\* An insertion in flight restructures nothing: it grows the tree by a leaf,
\* and logs the point exactly if it went into the frozen subtree.
LEMMA GrowsInFlight ==
    ASSUME Inv, worker # "idle", NEW p \in Points, root.size < MaxNodes,
           NEW d \in InsertAt[root][Current][<<>>][p]
    PROVE  /\ Grown(root, d.tree)
           /\ d.state.slot = slot /\ d.state.above = above /\ d.state.snapshot = snapshot
           /\ d.state.log \in Seq(Points)
           /\ \/ /\ d.state.log = log
                 /\ Flatten[At(d.tree, slot)] = Flatten[At(root, slot)]
              \/ /\ d.state.log = Append(log, p)
                 /\ Flatten[At(d.tree, slot)] = AddOne(Flatten[At(root, slot)], p)
<1>1. PICK c, u : c = Current /\ u = <<>>
  OBVIOUS
<1>2. c \in RebuildStates /\ Busy(c) /\ u \in Routes
  BY <1>1, CurrentState, ThawedIdle
<1>3. root \in Sound /\ slot \in Open(root) /\ Flags(root) = {slot} /\ log \in Seq(Points)
  BY DEF Inv, Sizes, InFlight
<1>4. InsertedInFlight(d, root, c, p)
  BY <1>1, <1>2, <1>3, InsertInFlight
<1>5. Grown(root, d.tree) /\ Logs(d, root, c, p, slot)
  BY <1>3, <1>4 DEF InsertedInFlight
<1>6. c.slot = slot /\ c.above = above /\ c.snapshot = snapshot /\ c.log = log
  BY <1>1 DEF Current
<1>7. CASE /\ d.state = c
           /\ Flatten[At(d.tree, slot)] = Flatten[At(root, slot)]
  BY <1>3, <1>5, <1>6, <1>7
<1>8. CASE /\ d.state = [c EXCEPT !.log = Append(c.log, p)]
           /\ Flatten[At(d.tree, slot)] = AddOne(Flatten[At(root, slot)], p)
  <2>1. PICK l : l = Append(log, p)
    OBVIOUS
  <2>2. l \in Seq(Points)
    BY <1>3, <2>1, AppendProperties
  <2>3. d.state = [c EXCEPT !.log = l]
    BY <1>6, <1>8, <2>1
  <2>4. d.state.log = l /\ d.state.slot = slot /\ d.state.above = above
        /\ d.state.snapshot = snapshot
    BY <1>2, <1>6, <2>3 DEF RebuildStates
  <2> QED
    BY <1>5, <1>8, <2>1, <2>2, <2>4
<1> QED
  BY <1>5, <1>7, <1>8 DEF Logs

LEMMA KeepsInsertStep ==
    ASSUME Inv, InsertStep
    PROVE  Inv'
<1>1. PICK p, b : p = Head(batch) /\ b = Tail(batch)
  OBVIOUS
<1>2. batch \in Seq(Points) /\ batch # <<>> /\ root \in Sound
  BY DEF InsertStep, Inv, Sizes
<1>3. p \in Points /\ b \in Seq(Points) /\ Len(b) = Len(batch) - 1 /\ Len(batch) \in Nat
      /\ Len(b) \in Nat
  BY <1>1, <1>2, HeadTailProperties, LenProperties
<1>4. PICK d \in InsertAt[root][Current][<<>>][p] : Finish(d.tree, d.state, worker)
  BY <1>1 DEF InsertStep
<1>5. root \in Trees /\ root.size \in Nat
  BY <1>2, SizeType DEF Sound
<1>6. root.size < MaxNodes
  <2>1. root.size + Len(batch) <= MaxNodes
    BY DEF Inv, Sizes
  <2> QED
    BY <1>3, <1>5, <2>1, ThresholdAssumption
<1>7. PICK c, u : c = Current /\ u = <<>>
  OBVIOUS
<1>8. c \in RebuildStates /\ u \in Routes
  BY <1>7, CurrentState, ThawedIdle DEF Inv
<1>9. Gained(d.tree, root, p)
  BY <1>2, <1>3, <1>4, <1>6, <1>7, <1>8, InsertGains
<1>10. d.tree \in Sound /\ d.tree.size + Len(b) <= MaxNodes
  <2>1. d.tree \in Sound /\ d.tree.size <= root.size + 1
    BY <1>9 DEF Gained, Widened
  <2>2. d.tree \in Trees
    BY <2>1 DEF Sound
  <2>3. d.tree.size \in Nat
    BY <2>2, SizeType
  <2>4. root.size + Len(batch) <= MaxNodes
    BY DEF Inv, Sizes
  <2> QED
    BY <1>3, <1>5, <2>1, <2>3, <2>4, ThresholdAssumption
<1>11. batch' = b
  BY <1>1 DEF InsertStep
<1>12. CASE worker = "idle"
  <2>1. Current = Thawed(FALSE) /\ Flags(root) = {} /\ Idle(c)
    BY <1>7, <1>12, CurrentState, ThawedIdle DEF Inv, AtRest
  <2>2. PICK even \in BOOLEAN : even <=> ParallelRebuildSize > MaxNodes /\ MinRebuildSize >= 2
    <3>1. (ParallelRebuildSize > MaxNodes /\ MinRebuildSize >= 2) \in BOOLEAN
      OBVIOUS
    <3> QED
      BY <3>1
  <2>3. even => MinRebuildSize >= 2 /\ Balanced[root]
    BY <2>2 DEF Inv, Steady
  <2>4. AfterIdle(even, d.tree, u, c, d.state)
    BY <1>2, <1>3, <1>4, <1>6, <1>7, <1>8, <2>1, <2>3, InsertIdle
  <2> QED
    BY <1>3, <1>4, <1>7, <1>10, <1>11, <1>12, <2>1, <2>2, <2>4, FinishIdle
<1>13. CASE worker # "idle"
  <2>1. /\ Grown(root, d.tree)
        /\ d.state.slot = slot /\ d.state.above = above /\ d.state.snapshot = snapshot
        /\ d.state.log \in Seq(Points)
        /\ \/ /\ d.state.log = log
              /\ Flatten[At(d.tree, slot)] = Flatten[At(root, slot)]
           \/ /\ d.state.log = Append(log, p)
              /\ Flatten[At(d.tree, slot)] = AddOne(Flatten[At(root, slot)], p)
    BY <1>3, <1>4, <1>6, <1>13, GrowsInFlight
  <2>2. /\ root' = d.tree /\ worker' = worker
        /\ slot' = slot /\ snapshot' = snapshot /\ above' = above /\ log' = d.state.log
        /\ worker = "ready" => rebuilt' = rebuilt
    BY <1>4, <1>13, <2>1 DEF Finish
  <2>3. InFlight
    BY <1>13 DEF Inv
  <2>4. slot' \in Open(root') /\ Flags(root') = {slot'}
    BY <2>1, <2>2, <2>3 DEF Grown, InFlight
  <2>5. Recording(root', above')
    <3>1. Open(root) \subseteq Open(root')
      BY <2>1, <2>2 DEF Grown
    <3> QED
      BY <2>2, <2>3, <3>1 DEF InFlight, Recording
  <2>6. Flatten[At(root', slot')] = Add(snapshot', Count(log'))
    <3>1. Flatten[At(root, slot)] = Add(snapshot, Count(log))
          /\ snapshot \in Multisets /\ log \in Seq(Points)
      BY <2>3 DEF InFlight
    <3>2. Count(log) \in Multisets /\ Count(Append(log, p)) = AddOne(Count(log), p)
      BY <1>3, <3>1, CountSteps
    <3>3. Add(snapshot, AddOne(Count(log), p)) = AddOne(Add(snapshot, Count(log)), p)
      BY <1>3, <3>1, <3>2, BagLaws
    <3> QED
      BY <2>1, <2>2, <3>1, <3>2, <3>3
  <2>7. InFlight'
    BY <2>1, <2>2, <2>3, <2>4, <2>5, <2>6 DEF InFlight
  <2>8. Sizes'
    BY <1>3, <1>10, <1>11, <2>2 DEF Sizes
  <2>9. Steady'
    BY <1>13 DEF Inv, Steady
  <2> QED
    BY <1>13, <2>2, <2>7, <2>8, <2>9 DEF Inv
<1> QED
  BY <1>12, <1>13

LEMMA KeepsRemoveBox ==
    ASSUME Inv, NEW box \in Boxes, RemoveBox(box)
    PROVE  Inv'
<1>1. batch = <<>> /\ batch' = batch /\ worker \in {"idle", "ready"}
  BY DEF RemoveBox, Inv
<1>2. PICK t \in IF worker = "ready" THEN Landed ELSE {root} :
          \E d \in RemoveBoxAt[t][Thawed(FALSE)][<<>>][box] : Finish(d.tree, d.state, "idle")
  BY DEF RemoveBox
<1>3. PICK d \in RemoveBoxAt[t][Thawed(FALSE)][<<>>][box] : Finish(d.tree, d.state, "idle")
  BY <1>2
<1>4. PICK c, u : c = Thawed(FALSE) /\ u = <<>>
  OBVIOUS
<1>5. c \in RebuildStates /\ u \in Routes /\ Idle(c)
  BY <1>4, ThawedIdle
<1>6. PICK even \in BOOLEAN :
          even <=> worker = "idle" /\ ParallelRebuildSize > MaxNodes /\ MinRebuildSize >= 2
  <2>1. (worker = "idle" /\ ParallelRebuildSize > MaxNodes /\ MinRebuildSize >= 2) \in BOOLEAN
    OBVIOUS
  <2> QED
    BY <2>1
<1>7. /\ t \in Sound /\ t.size <= root.size /\ Flags(t) = {}
      /\ even => MinRebuildSize >= 2 /\ Balanced[t]
  <2>1. CASE worker = "ready"
    <3>1. Stands(t, root)
      BY <1>2, <2>1, LandedStands
    <3> QED
      BY <1>6, <2>1, <3>1 DEF Stands, Fits
  <2>2. CASE worker = "idle"
    <3>1. t = root /\ AtRest /\ root \in Sound
      BY <1>2, <2>2 DEF Inv, Sizes
    <3>2. root.size <= root.size
      <4>1. root \in Trees
        BY <3>1 DEF Sound
      <4> QED
        BY <4>1, SizeType
    <3> QED
      BY <1>6, <2>2, <3>1, <3>2 DEF AtRest, Inv, Steady
  <2> QED
    BY <1>1, <2>1, <2>2
<1>8. box \in Corners \X Corners
  BY GeometryAssumption
<1>9. d.tree \in Sound /\ d.tree.size <= t.size
  <2>1. Removed(d, t, box)
    BY <1>3, <1>4, <1>5, <1>7, <1>8, RemoveClears
  <2> QED
    BY <2>1 DEF Removed, Fits
<1>10. AfterIdle(even, d.tree, u, c, d.state)
  BY <1>3, <1>4, <1>5, <1>7, <1>8, RemoveIdle
<1>11. batch \in Seq(Points) /\ d.tree.size + Len(batch) <= MaxNodes
  <2>1. d.tree \in Trees /\ t \in Trees /\ root \in Trees
    BY <1>7, <1>9 DEF Inv, Sizes, Sound
  <2>2. d.tree.size \in Nat /\ t.size \in Nat /\ root.size \in Nat
    BY <2>1, SizeType
  <2>3. batch \in Seq(Points) /\ root.size + Len(batch) <= MaxNodes
    BY DEF Inv, Sizes
  <2>4. Len(batch) \in Nat
    BY <2>3, LenProperties
  <2> QED
    BY <1>7, <1>9, <2>2, <2>3, <2>4, ThresholdAssumption
<1>12. ParallelRebuildSize > MaxNodes /\ MinRebuildSize >= 2 => even
  BY <1>6 DEF Inv, Steady
<1> QED
  BY <1>1, <1>3, <1>4, <1>9, <1>10, <1>11, <1>12, FinishIdle

LEMMA KeepsFinish ==
    ASSUME Inv, FinishPendingRebuild
    PROVE  Inv'
<1>1. /\ worker = "ready" /\ FinalizeRebuild /\ batch' = batch
      /\ batch \in Seq(Points) /\ root.size + Len(batch) <= MaxNodes
  BY DEF FinishPendingRebuild, Inv, Sizes
<1> QED
  BY <1>1, KeepsFinalize

LEMMA KeepsBuild ==
    ASSUME Inv, ~BuildInFlight, NEW points \in Batches, Build(points)
    PROVE  Inv'
<1>1. /\ worker = "idle" /\ worker' = "idle" /\ batch' = <<>>
      /\ Len(points) <= MaxNodes /\ root' \in BuildRange(Count(points))
      /\ AtRest /\ slot' = NoSlot /\ snapshot' = NoPoints /\ above' = <<>> /\ log' = <<>>
  BY DEF Build, Inv, AtRest
<1>2. points \in Seq(Points)
  BY GeometryAssumption
<1>3. PICK b : b = Count(points)
  OBVIOUS
<1>4. b \in Multisets /\ Total(b) = Len(points)
  BY <1>2, <1>3, CountSteps
<1>5. root' \in Built(b)
  BY <1>1, <1>3, <1>4, BuildsAreBuilt
<1>6. /\ root' \in Sound /\ root'.size = Total(b) /\ Flags(root') = {}
      /\ MinRebuildSize >= 2 => Balanced[root']
  BY <1>5 DEF Built
<1>7. Sizes'
  <2>1. PICK z : z = <<>>
    OBVIOUS
  <2>2. z \in Seq(Points) /\ Len(z) = 0
    BY <2>1
  <2>3. Total(b) \in Nat
    BY <1>4, CopiesAre
  <2>4. root'.size + Len(z) <= MaxNodes
    BY <1>1, <1>4, <1>6, <2>2, <2>3
  <2> QED
    BY <1>1, <1>6, <2>1, <2>2, <2>4 DEF Sizes
<1>8. Steady' /\ AtRest'
  BY <1>1, <1>6 DEF Steady, AtRest
<1> QED
  BY <1>1, <1>7, <1>8 DEF Inv

LEMMA KeepsWorkerDone ==
    ASSUME Inv, WorkerDone
    PROVE  Inv'
<1>1. /\ worker = "building" /\ worker' = "ready" /\ rebuilt' \in BuildRange(snapshot)
      /\ UNCHANGED <<root, slot, snapshot, above, log, batch>>
  BY DEF WorkerDone
<1>2. rebuilt' \in Built(snapshot)
  BY <1>1, SnapshotSize, BuildsAreBuilt
<1>3. InFlight'
  BY <1>1, <1>2 DEF Inv, InFlight
<1>4. Sizes'
  BY <1>1 DEF Inv, Sizes
<1>5. Steady'
  BY <1>1 DEF Inv, Steady
<1> QED
  BY <1>1, <1>3, <1>4, <1>5 DEF Inv

LEMMA KeepsStutter ==
    ASSUME Inv, UNCHANGED vars
    PROVE  Inv'
BY DEF Inv, Sizes, Steady, AtRest, InFlight, vars

LEMMA InitInv == Init => Inv
<1> SUFFICES ASSUME Init
             PROVE  Inv
  OBVIOUS
<1>1. root = Nil /\ root \in Sound /\ root.size = 0
  BY SoundNil DEF Init, Nil
<1>2. PICK z : z = <<>>
  OBVIOUS
<1>3. z \in Seq(Points) /\ Len(z) = 0
  BY <1>2
<1>4. Sizes
  BY <1>1, <1>2, <1>3, ThresholdAssumption DEF Sizes, Init
<1>5. AtRest
  BY <1>1, FlagsNil DEF AtRest, Init
<1>6. Balanced[root]
  BY <1>1, BalancedNode, NilTree
<1> QED
  BY <1>4, <1>5, <1>6 DEF Inv, Init, Steady

LEMMA NextInv ==
    ASSUME Inv, ~BuildInFlight, [Next]_vars
    PROVE  Inv'
BY KeepsInsertBegin, KeepsInsertStep, KeepsRemoveBox, KeepsFinish, KeepsBuild,
   KeepsWorkerDone, KeepsStutter DEF Next

\* The inductive invariant: a tree that recomputes, with at most one frozen slot
\* that is ready to take up its replacement.
THEOREM InvCorrect == ~BuildInFlight => (Spec => []Inv)
<1> SUFFICES ASSUME ~BuildInFlight
             PROVE  Spec => []Inv
  OBVIOUS
<1>1. Init => Inv
  BY InitInv
<1>2. Inv /\ [Next]_vars => Inv'
  BY NextInv
<1> QED
  BY <1>1, <1>2, PTL DEF Spec

-----------------------------------------------------------------------------
(* What the invariant says *)

\* Validate: after every operation the cached sizes, boxes, split order and
\* labels are those of a recomputation, and size() is what flatten() collects
\* (ikd_tree.cpp:398-465, 379-383).
THEOREM ValidateCorrect == ~BuildInFlight => (Spec => []Validate)
<1> SUFFICES ASSUME ~BuildInFlight
             PROVE  Spec => []Validate
  OBVIOUS
<1>1. Inv => Validate
  BY SoundSize DEF Inv, Sizes, Validate, Sound, Size
<1>2. Spec => []Inv
  BY InvCorrect
<1> QED
  BY <1>1, <1>2, PTL

\* ReplayRestoresFrozen: snapshot and log are the live points of the frozen
\* subtree, however it is mutated in place (ikd_tree.cpp:171-183).
THEOREM ReplayCorrect == ~BuildInFlight => (Spec => []ReplayRestoresFrozen)
<1> SUFFICES ASSUME ~BuildInFlight
             PROVE  Spec => []ReplayRestoresFrozen
  OBVIOUS
<1>1. Inv => ReplayRestoresFrozen
  BY DEF Inv, InFlight, ReplayRestoresFrozen
<1>2. Spec => []Inv
  BY InvCorrect
<1> QED
  BY <1>1, <1>2, PTL

\* A prefix leads on by the steps that are left.
LEMMA PrefixLeads ==
    ASSUME NEW u \in Routes, NEW v \in Routes, Seqs!IsPrefix(u, v)
    PROVE  Leads(u, v)
<1>1. Len(u) \in Nat /\ Len(v) \in Nat /\ Len(u) <= Len(v)
  BY LenProperties DEF Seqs!IsPrefix, Routes
<1>2. PICK w : w = SubSeq(v, Len(u) + 1, Len(v))
  OBVIOUS
<1>3. \A i \in 1..Len(v) : v[i] \in {"l", "r"}
  BY ElementOfSeq DEF Routes
<1>4. /\ w \in Routes /\ Len(w) = Len(v) - Len(u)
      /\ \A i \in 1..(Len(v) - Len(u)) : w[i] = v[Len(u) + i]
  <2>1. \A i \in (Len(u) + 1)..Len(v) : v[i] \in {"l", "r"}
    BY <1>1, <1>3
  <2>2. /\ SubSeq(v, Len(u) + 1, Len(v)) \in Seq({"l", "r"})
        /\ Len(SubSeq(v, Len(u) + 1, Len(v))) =
               IF Len(u) + 1 <= Len(v) THEN Len(v) - (Len(u) + 1) + 1 ELSE 0
        /\ \A i \in 1..(Len(v) - (Len(u) + 1) + 1) :
               SubSeq(v, Len(u) + 1, Len(v))[i] = v[Len(u) + 1 + i - 1]
    BY <1>1, <2>1, SubSeqProperties
  <2> QED
    BY <1>1, <1>2, <2>2 DEF Routes
<1>5. \A i \in 1..Len(u) : u[i] = v[i]
  <2>1. \A i \in 1..Len(u) : v[i] \in {"l", "r"}
    BY <1>1, <1>3
  <2>2. \A i \in 1..Len(u) : u[i] \in {"l", "r"}
    BY ElementOfSeq DEF Routes
  <2>3. \A i \in 1..Len(u) : SubSeq(u, 1, Len(u))[i] = u[i] /\ SubSeq(v, 1, Len(u))[i] = v[i]
    <3>1. \A i \in 1..(Len(u) - 1 + 1) : SubSeq(u, 1, Len(u))[i] = u[1 + i - 1]
      BY <1>1, <2>2, SubSeqProperties
    <3>2. \A i \in 1..(Len(u) - 1 + 1) : SubSeq(v, 1, Len(u))[i] = v[1 + i - 1]
      BY <1>1, <2>1, SubSeqProperties
    <3> QED
      BY <1>1, <3>1, <3>2
  <2>4. SubSeq(u, 1, Len(u)) = SubSeq(v, 1, Len(u))
    BY DEF Seqs!IsPrefix
  <2> QED
    BY <2>3, <2>4
<1>6. v = u \o w
  <2>1. PICK x : x = u \o w
    OBVIOUS
  <2>2. /\ x \in Seq({"l", "r"}) /\ Len(x) = Len(u) + Len(w)
        /\ \A i \in 1..(Len(u) + Len(w)) : x[i] = IF i <= Len(u) THEN u[i] ELSE w[i - Len(u)]
    BY <1>4, <2>1, ConcatProperties DEF Routes
  <2>3. \A i \in 1..Len(v) : v[i] = x[i]
    BY <1>1, <1>4, <1>5, <2>2
  <2>4. Len(v) = Len(x)
    BY <1>1, <1>4, <2>2
  <2>5. v = x
    BY <2>2, <2>3, <2>4, SeqEqual DEF Routes
  <2> QED
    BY <2>1, <2>5
<1> QED
  BY <1>4, <1>6 DEF Leads

\* AncestorsCaptured: the slot is the one flagged node, and the nodes recorded
\* for the refresh exist, come children first and miss no ancestor of it
\* (ikd_tree.cpp:184-187).
THEOREM AncestorsCorrect == ~BuildInFlight => (Spec => []AncestorsCaptured)
<1> SUFFICES ASSUME ~BuildInFlight
             PROVE  Spec => []AncestorsCaptured
  OBVIOUS
<1>1. Inv => AncestorsCaptured
  <2> SUFFICES ASSUME Inv, worker # "idle"
               PROVE  AncestorsCaptured
    BY DEF AncestorsCaptured
  <2>1. root \in Sound /\ root \in Trees /\ slot \in Open(root) /\ Flags(root) = {slot}
        /\ Recording(root, above) /\ Covering(slot, above)
    BY DEF Inv, Sizes, InFlight, Sound
  <2>2. PICK P : P = Paths(root)
    OBVIOUS
  <2>3. P \subseteq Routes /\ slot \in Routes
    <3> HIDE DEF Paths
    <3> QED
      BY <2>1, <2>2, PathsType, RoutesOfPaths
  <2>4. above \in Seq(Routes) /\ Len(above) \in Nat /\ DOMAIN above = 1..Len(above)
        /\ \A i \in 1..Len(above) : above[i] \in Routes /\ above[i] \in P
    <3> HIDE DEF Paths
    <3>1. above \in Seq(Routes)
      BY <2>1 DEF Recording
    <3>2. \A i \in 1..Len(above) : above[i] \in Open(root)
      BY <2>1 DEF Recording
    <3> QED
      BY <2>1, <2>2, <3>1, <3>2, RoutesOfPaths, LenProperties
  <2>5. {path \in P : At(root, path).underRebuild} = {slot}
    BY <2>1, <2>2 DEF Flags
  <2>6. Range(above) \subseteq P
    BY <2>4 DEF Range
  <2>7. ASSUME NEW path \in P, path # slot, Seqs!IsPrefix(path, slot)
        PROVE  path \in Range(above)
    <3>1. Leads(path, slot)
      BY <2>3, <2>7, PrefixLeads
    <3>2. PICK i \in 1..Len(above) : above[i] = path
      BY <2>1, <2>3, <2>7, <3>1 DEF Covering
    <3> QED
      BY <2>4, <3>2 DEF Range
  <2>8. ASSUME NEW i \in DOMAIN above, NEW j \in DOMAIN above,
               Seqs!IsStrictPrefix(above[i], above[j])
        PROVE  j < i
    <3>1. Seqs!IsPrefix(above[i], above[j]) /\ above[i] # above[j]
      BY <2>8 DEF Seqs!IsStrictPrefix
    <3>2. Leads(above[i], above[j])
      BY <2>4, <3>1, PrefixLeads
    <3>3. j <= i
      BY <2>1, <2>4, <3>2 DEF Recording
    <3> QED
      BY <2>4, <3>1, <3>3
  <2> QED
    BY <2>2, <2>5, <2>6, <2>7, <2>8 DEF AncestorsCaptured
<1>2. Spec => []Inv
  BY InvCorrect
<1> QED
  BY <1>1, <1>2, PTL

\* BalancedWithoutWorker: with no subtree large enough for the worker every
\* node with a live point keeps the criteria of a rebuild (ikd_tree.cpp:31-37).
\* Below kMinRebuildSize = 2 a build of two points could itself be one that
\* needs a rebuild; the code has 10.
THEOREM BalancedCorrect ==
    ~BuildInFlight /\ MinRebuildSize >= 2 => (Spec => []BalancedWithoutWorker)
<1> SUFFICES ASSUME ~BuildInFlight, MinRebuildSize >= 2
             PROVE  Spec => []BalancedWithoutWorker
  OBVIOUS
<1>1. Inv => BalancedWithoutWorker
  BY DEF Inv, Steady, BalancedWithoutWorker
<1>2. Spec => []Inv
  BY InvCorrect
<1> QED
  BY <1>1, <1>2, PTL

\* NothingMovesInFlight: from the start of a rebuild to its swap every slot of
\* the old tree holds the point it held (ikd_tree.cpp:128-131).
THEOREM SlotsCorrect == ~BuildInFlight => (Spec => NothingMovesInFlight)
<1> SUFFICES ASSUME ~BuildInFlight
             PROVE  Spec => NothingMovesInFlight
  OBVIOUS
<1> DEFINE Stays == \A path \in Paths(root) :
                        path \in Paths(root') /\ At(root', path).pt = At(root, path).pt
           Moves == worker # "idle" /\ (worker' = worker \/ worker' = "ready") => Stays
<1>1. Inv /\ [Next]_vars => [Moves]_vars
  <2> SUFFICES ASSUME Inv, Next, worker # "idle", worker' = worker \/ worker' = "ready"
               PROVE  Stays
    OBVIOUS
  <2>1. worker \in {"idle", "building", "ready"}
    BY DEF Inv
  <2>2. ASSUME worker = "ready", FinalizeRebuild
        PROVE  FALSE
    <3>1. worker' = "idle"
      BY <2>2 DEF FinalizeRebuild, Finish, Thawed
    <3> QED
      BY <2>2, <3>1
  <2>3. CASE WorkerDone
    BY <2>3 DEF WorkerDone
  <2>4. ASSUME NEW points \in Batches, InsertBegin(points)
        PROVE  Stays
    BY <2>2, <2>4 DEF InsertBegin
  <2>5. CASE InsertStep
    <3>1. PICK d \in InsertAt[root][Current][<<>>][Head(batch)] :
              Finish(d.tree, d.state, worker)
      BY <2>5 DEF InsertStep
    <3>2. batch \in Seq(Points) /\ batch # <<>> /\ root \in Sound
          /\ root.size + Len(batch) <= MaxNodes
      BY <2>5 DEF InsertStep, Inv, Sizes
    <3>3. Head(batch) \in Points /\ root.size < MaxNodes
      <4>1. Head(batch) \in Points /\ Len(Tail(batch)) = Len(batch) - 1
            /\ Len(Tail(batch)) \in Nat /\ Len(batch) \in Nat
        BY <3>2, HeadTailProperties, LenProperties
      <4>2. root \in Trees
        BY <3>2 DEF Sound
      <4>3. root.size \in Nat
        BY <4>2, SizeType
      <4> QED
        BY <3>2, <4>1, <4>3, ThresholdAssumption
    <3>4. Grown(root, d.tree)
      BY <3>1, <3>3, GrowsInFlight
    <3>5. root' = d.tree
      BY <3>1 DEF Finish
    <3> QED
      BY <3>4, <3>5 DEF Grown
  <2>6. ASSUME NEW box \in Boxes, RemoveBox(box)
        PROVE  Stays
    <3>1. worker = "ready"
      BY <2>1, <2>6 DEF RemoveBox
    <3>2. worker' \in {"idle", "building"}
      BY <2>6 DEF RemoveBox, Finish
    <3> QED
      BY <3>1, <3>2
  <2>7. CASE FinishPendingRebuild
    BY <2>2, <2>7 DEF FinishPendingRebuild
  <2>8. ASSUME NEW points \in Batches, Build(points)
        PROVE  Stays
    BY <2>8 DEF Build
  <2> QED
    BY <2>3, <2>4, <2>5, <2>6, <2>7, <2>8 DEF Next
<1>2. Spec => []Inv
  BY InvCorrect
<1> QED
  BY <1>1, <1>2, PTL DEF Spec, NothingMovesInFlight

-----------------------------------------------------------------------------
(* What an operation does to the live points *)

LEMMA StepAdds ==
    ASSUME Inv, InsertStep
    PROVE  /\ Head(batch) \in Points
           /\ Flatten[root]' = AddOne(Flatten[root], Head(batch))
<1>1. PICK p : p = Head(batch)
  OBVIOUS
<1>2. batch \in Seq(Points) /\ batch # <<>> /\ root \in Sound
  BY DEF InsertStep, Inv, Sizes
<1>3. p \in Points /\ Len(batch) \in Nat \ {0}
  <2>1. p \in Points /\ Tail(batch) \in Seq(Points) /\ Len(Tail(batch)) = Len(batch) - 1
    BY <1>1, <1>2, HeadTailProperties
  <2>2. Len(batch) \in Nat /\ Len(Tail(batch)) \in Nat
    BY <1>2, <2>1, LenProperties
  <2> QED
    BY <2>1, <2>2
<1>4. PICK d \in InsertAt[root][Current][<<>>][p] : Finish(d.tree, d.state, worker)
  BY <1>1 DEF InsertStep
<1>5. root.size < MaxNodes
  <2>1. root.size + Len(batch) <= MaxNodes
    BY DEF Inv, Sizes
  <2>2. root \in Trees
    BY <1>2 DEF Sound
  <2>3. root.size \in Nat
    BY <2>2, SizeType
  <2> QED
    BY <1>3, <2>1, <2>3, ThresholdAssumption
<1>6. PICK c, u : c = Current /\ u = <<>>
  OBVIOUS
<1>7. c \in RebuildStates /\ u \in Routes
  BY <1>6, CurrentState, ThawedIdle DEF Inv
<1>8. Gained(d.tree, root, p)
  BY <1>2, <1>3, <1>4, <1>5, <1>6, <1>7, InsertGains
<1>9. root' = d.tree
  BY <1>4 DEF Finish
<1> QED
  BY <1>1, <1>3, <1>8, <1>9 DEF Gained

LEMMA BoxClears ==
    ASSUME Inv, NEW box \in Boxes, RemoveBox(box),
           NEW R, R = {p \in Points : Within(p, box)}
    PROVE  Flatten[root]' = Outside(Flatten[root], R)
<1>1. batch = <<>> /\ batch' = batch /\ worker \in {"idle", "ready"}
  BY DEF RemoveBox, Inv
<1>2. PICK t \in IF worker = "ready" THEN Landed ELSE {root} :
          \E d \in RemoveBoxAt[t][Thawed(FALSE)][<<>>][box] : Finish(d.tree, d.state, "idle")
  BY DEF RemoveBox
<1>3. PICK d \in RemoveBoxAt[t][Thawed(FALSE)][<<>>][box] : Finish(d.tree, d.state, "idle")
  BY <1>2
<1>4. PICK c, u : c = Thawed(FALSE) /\ u = <<>>
  OBVIOUS
<1>5. c \in RebuildStates /\ u \in Routes
  BY <1>4, ThawedIdle
<1>6. t \in Sound /\ Flatten[t] = Flatten[root]
  <2>1. CASE worker = "ready"
    BY <1>2, <2>1, LandedStands DEF Stands
  <2>2. CASE worker = "idle"
    BY <1>2, <2>2 DEF Inv, Sizes
  <2> QED
    BY <1>1, <2>1, <2>2
<1>7. box \in Corners \X Corners
  BY GeometryAssumption
<1>8. d.tree \in Sound /\ Spares(d.tree, t, box)
  <2>1. Removed(d, t, box)
    BY <1>3, <1>4, <1>5, <1>6, <1>7, RemoveClears
  <2> QED
    BY <2>1 DEF Removed
<1>9. Flatten[d.tree] = Outside(Flatten[root], R)
  <2>1. d.tree \in Trees /\ t \in Trees
    BY <1>6, <1>8 DEF Sound
  <2>2. Flatten[d.tree] \in Multisets /\ Flatten[t] \in Multisets
    BY <2>1, FlattenType
  <2>3. Outside(Flatten[root], R) \in Multisets
    BY <1>6, <2>2 DEF Outside, Multisets
  <2>4. \A p \in Points : Flatten[d.tree][p] = Outside(Flatten[root], R)[p]
    BY <1>6, <1>8 DEF Spares, Outside
  <2> QED
    BY <2>2, <2>3, <2>4, SameBag
<1>10. root' = d.tree
  BY <1>3 DEF Finish
<1> QED
  BY <1>9, <1>10

LEMMA BuildLoads ==
    ASSUME NEW points \in Batches, Build(points)
    PROVE  Flatten[root'] = Count(points)
<1>1. Len(points) <= MaxNodes /\ root' \in BuildRange(Count(points))
  BY DEF Build
<1>2. points \in Seq(Points)
  BY GeometryAssumption
<1>3. PICK b : b = Count(points)
  OBVIOUS
<1>4. b \in Multisets /\ Total(b) = Len(points)
  BY <1>2, <1>3, CountSteps
<1>5. root' \in Built(b)
  BY <1>1, <1>3, <1>4, BuildsAreBuilt
<1> QED
  BY <1>3, <1>5 DEF Built

-----------------------------------------------------------------------------
(* The map that queries see *)

Seen ==
    INSTANCE PointMap WITH
        content <- Flatten[root],
        Regions <- {{p \in Points : Within(p, box)} : box \in Boxes},
        Loads <- {Count(s) : s \in Batches}

\* The points that queries find are a multiset that insert() adds one point to,
\* a box-delete clears of the points in the box and build() replaces.  Lazy
\* labels, rebuilds, the worker and the swap are invisible (ikd_tree.h:68-70).
THEOREM RefinesPointMap == ~BuildInFlight => (Spec => Seen!Spec)
<1> SUFFICES ASSUME ~BuildInFlight
             PROVE  Spec => Seen!Spec
  OBVIOUS
<1>1. Init => Seen!Init
  <2> SUFFICES ASSUME Init
               PROVE  Seen!Init
    OBVIOUS
  <2>1. Flatten[root] = NoPoints
    BY NilTree, FlattenLabelled DEF Init
  <2> QED
    BY <2>1 DEF Seen!Init, Seen!NoPoints, NoPoints
<1>2. Inv /\ [Next]_vars => [Seen!Next]_(Flatten[root])
  <2> SUFFICES ASSUME Inv, [Next]_vars
               PROVE  Seen!Next \/ Flatten[root]' = Flatten[root]
    OBVIOUS
  <2>1. ASSUME worker = "ready", FinalizeRebuild
        PROVE  Flatten[root]' = Flatten[root]
    <3>1. PICK t \in Landed : Finish(t, Thawed(FALSE), "idle")
      BY <2>1 DEF FinalizeRebuild
    <3> QED
      BY <2>1, <3>1, LandedStands DEF Stands, Finish
  <2>2. CASE WorkerDone
    BY <2>2 DEF WorkerDone
  <2>3. ASSUME NEW points \in Batches, InsertBegin(points)
        PROVE  Flatten[root]' = Flatten[root]
    BY <2>1, <2>3 DEF InsertBegin
  <2>4. CASE InsertStep
    <3>1. PICK p \in Points : Flatten[root]' = AddOne(Flatten[root], p)
      BY <2>4, StepAdds
    <3>2. Seen!Insert(p)
      BY <3>1 DEF Seen!Insert, Seen!AddOne, AddOne
    <3> QED
      BY <3>2 DEF Seen!Next
  <2>5. ASSUME NEW box \in Boxes, RemoveBox(box)
        PROVE  Seen!Next
    <3>1. PICK R : R = {p \in Points : Within(p, box)}
      OBVIOUS
    <3>2. R \in {{p \in Points : Within(p, o)} : o \in Boxes}
      BY <3>1
    <3>3. Flatten[root]' = Outside(Flatten[root], R)
      BY <2>5, <3>1, BoxClears
    <3>4. Seen!RemoveBox(R)
      BY <3>3 DEF Seen!RemoveBox, Seen!Outside, Outside
    <3> QED
      BY <3>2, <3>4 DEF Seen!Next
  <2>6. CASE FinishPendingRebuild
    BY <2>1, <2>6 DEF FinishPendingRebuild
  <2>7. ASSUME NEW points \in Batches, Build(points)
        PROVE  Seen!Next
    <3>1. Flatten[root'] = Count(points)
      BY <2>7, BuildLoads
    <3>2. Seen!Build(Count(points))
      BY <3>1 DEF Seen!Build
    <3> QED
      BY <3>2 DEF Seen!Next
  <2>8. CASE UNCHANGED vars
    BY <2>8 DEF vars
  <2> QED
    BY <2>2, <2>3, <2>4, <2>5, <2>6, <2>7, <2>8 DEF Next
<1>3. Spec => []Inv
  BY InvCorrect
<1> QED
  BY <1>1, <1>2, <1>3, PTL DEF Spec, Seen!Spec

-----------------------------------------------------------------------------
(* The refinement of the background-rebuild protocol *)

\* A subtree below no pending pushdown has no more live points than the tree.
LEMMA PartOfTree ==
    ASSUME NEW n \in Sound, NEW s \in Open(n), NEW p \in Points
    PROVE  Flatten[At(n, s)][p] <= Flatten[n][p]
<1> DEFINE S == {k \in Sound : \A u \in Open(k) : Flatten[At(k, u)][p] <= Flatten[k][p]}
<1>1. Nil \in S
  <2>1. Open(Nil) = {}
    BY NodesOfNil DEF Open
  <2> QED
    BY <2>1, SoundNil
<1>2. ASSUME NEW k \in Sound, ~IsNil(k), \A c \in Sound : c.size < k.size => c \in S
      PROVE  k \in S
  <2> SUFFICES ASSUME NEW u \in Open(k)
               PROVE  Flatten[At(k, u)][p] <= Flatten[k][p]
    OBVIOUS
  <2>1. k \in Trees /\ k.l \in Sound /\ k.r \in Sound /\ k.l.size < k.size /\ k.r.size < k.size
    <3>1. k.l \in Sound /\ k.r \in Sound /\ k.l.size \in Nat /\ k.r.size \in Nat
          /\ k.size = 1 + k.l.size + k.r.size
      BY <1>2, SoundNode
    <3>2. k \in Trees
      BY DEF Sound
    <3> QED
      BY <3>1, <3>2
  <2>2. k.l \in S /\ k.r \in S
    BY <1>2, <2>1
  <2>3. ~k.pushdown
    BY <1>2, <2>1, OpenNode
  <2>4. /\ Flatten[k][p] = Own(k, p) + Flatten[k.l][p] + Flatten[k.r][p]
        /\ Flatten[k][p] \in Nat /\ Flatten[k.l][p] \in Nat /\ Flatten[k.r][p] \in Nat
        /\ Own(k, p) \in {0, 1}
    BY <1>2, <2>3, FlattenNode
  <2>5. CASE u = <<>>
    <3>1. At(k, u) = k
      BY <1>2, <2>1, <2>5, NodesBelow
    <3> QED
      BY <2>4, <3>1
  <2>6. ASSUME NEW q \in Open(k.l), u = <<"l">> \o q
        PROVE  Flatten[At(k, u)][p] <= Flatten[k][p]
    <3>1. q \in Paths(k.l)
      BY DEF Open
    <3>2. At(k, u) = At(k.l, q)
      BY <1>2, <2>1, <2>6, <3>1, NodesBelow
    <3>3. At(k.l, q) \in Trees
      BY <2>1, OpenIs DEF Sound
    <3>4. Flatten[At(k.l, q)][p] \in Nat
      BY <3>3, FlattenType DEF Multisets
    <3>5. Flatten[At(k.l, q)][p] <= Flatten[k.l][p]
      BY <2>2
    <3> QED
      BY <2>4, <3>2, <3>4, <3>5
  <2>7. ASSUME NEW q \in Open(k.r), u = <<"r">> \o q
        PROVE  Flatten[At(k, u)][p] <= Flatten[k][p]
    <3>1. q \in Paths(k.r)
      BY DEF Open
    <3>2. At(k, u) = At(k.r, q)
      BY <1>2, <2>1, <2>7, <3>1, NodesBelow
    <3>3. At(k.r, q) \in Trees
      BY <2>1, OpenIs DEF Sound
    <3>4. Flatten[At(k.r, q)][p] \in Nat
      BY <3>3, FlattenType DEF Multisets
    <3>5. Flatten[At(k.r, q)][p] <= Flatten[k.r][p]
      BY <2>2
    <3> QED
      BY <2>4, <3>2, <3>4, <3>5
  <2>8. u = <<>> \/ (\E q \in Open(k.l) : u = <<"l">> \o q) \/ (\E q \in Open(k.r) : u = <<"r">> \o q)
    BY <1>2, <2>1, OpenNode
  <2> QED
    BY <2>5, <2>6, <2>7, <2>8
<1>3. Sound \subseteq S
  <2> HIDE DEF S
  <2> QED
    BY <1>1, <1>2, SoundInduction
<1> QED
  BY <1>3

\* No point occurs more often in a multiset than it has points.
LEMMA TotalPart ==
    ASSUME NEW b \in Multisets, NEW p \in Points
    PROVE  b[p] <= Total(b)
<1> DEFINE some(k) == [q \in Points |-> IF q = p THEN k ELSE 0]
           S == {k \in 0..b[p] : Total(some(k)) = k}
<1>1. b[p] \in Nat
  BY DEF Multisets
<1>2. \A k \in Nat : some(k) \in Multisets
  BY DEF Multisets
<1>3. 0 \in S
  <2>1. some(0) = NoPoints
    BY DEF NoPoints
  <2>2. NoPoints \in Multisets
    BY DEF NoPoints, Multisets
  <2> QED
    BY <1>1, <2>1, <2>2, TotalNone
<1>4. ASSUME NEW k \in 0..b[p], k < b[p], k \in S
      PROVE  k + 1 \in S
  <2>1. some(k + 1) = AddOne(some(k), p)
    BY DEF AddOne
  <2>2. some(k) \in Multisets
    BY <1>2
  <2> HIDE DEF some
  <2>3. Total(some(k + 1)) = Total(some(k)) + 1
    BY <2>1, <2>2, TotalAddOne
  <2> QED
    BY <1>1, <1>4, <2>3
<1>5. Total(some(b[p])) = b[p]
  <2>1. 0..b[p] \subseteq S
    <3> HIDE DEF S
    <3> QED
      BY <1>1, <1>3, <1>4, Induct
  <2> QED
    BY <1>1, <2>1
<1>6. PICK h : h = some(b[p])
  OBVIOUS
<1>7. h \in Multisets /\ \A q \in Points : h[q] <= b[q]
  <2>1. \A q \in Points : b[q] \in Nat
    BY DEF Multisets
  <2> QED
    BY <1>1, <1>2, <1>6, <2>1
<1>8. Total(h) = b[p]
  BY <1>5, <1>6
<1> HIDE DEF some, S
<1>9. Minus(b, h) \in Multisets /\ Total(Minus(b, h)) = Total(b) - Total(h)
  BY <1>7, TotalMinus
<1>10. Total(Minus(b, h)) \in Nat /\ Total(b) \in Nat
  BY <1>9, CopiesAre
<1> QED
  BY <1>1, <1>8, <1>9, <1>10

\* The operators on multisets that the protocol's module brings with it.
LEMMA ProtocolBags ==
    /\ Protocol!NoPoints = NoPoints
    /\ \A b, c : /\ Protocol!Add(b, c) = Add(b, c)
                 /\ Protocol!Minus(b, c) = Minus(b, c)
                 /\ Protocol!AddOne(b, c) = AddOne(b, c)
                 /\ Protocol!Outside(b, c) = Outside(b, c)
    /\ \A b : Protocol!Parts(b) = Parts(b) /\ Protocol!Count(b) = Count(b)
<1>1. Protocol!NoPoints = NoPoints
  BY DEF Protocol!NoPoints, NoPoints
<1>2. ASSUME NEW b, NEW c
      PROVE  /\ Protocol!Add(b, c) = Add(b, c)
             /\ Protocol!Minus(b, c) = Minus(b, c)
             /\ Protocol!AddOne(b, c) = AddOne(b, c)
             /\ Protocol!Outside(b, c) = Outside(b, c)
  BY DEF Protocol!Add, Add, Protocol!Minus, Minus, Protocol!AddOne, AddOne,
         Protocol!Outside, Outside
<1>3. ASSUME NEW b
      PROVE  Protocol!Parts(b) = Parts(b) /\ Protocol!Count(b) = Count(b)
  <2>1. \A T : Protocol!Cardinality(T) = Cardinality(T)
    BY DEF Protocol!Cardinality, Cardinality
  <2> QED
    BY <2>1 DEF Protocol!Parts, Parts, Protocol!Count, Count
<1> QED
  BY <1>1, <1>2, <1>3

\* The frozen points are some of the tree's, and the rest makes up the others.
LEMMA FrozenPart ==
    ASSUME Inv
    PROVE  /\ Flatten[root] \in Multisets /\ FrozenLive \in Multisets
           /\ \A p \in Points : FrozenLive[p] <= Flatten[root][p]
           /\ Minus(Flatten[root], FrozenLive) \in Multisets
           /\ Add(Minus(Flatten[root], FrozenLive), FrozenLive) = Flatten[root]
           /\ worker = "idle" => FrozenLive = NoPoints
                                 /\ Minus(Flatten[root], FrozenLive) = Flatten[root]
           /\ FrozenLive = Add(snapshot, Count(log))
<1>1. root \in Sound /\ root \in Trees
  BY DEF Inv, Sizes, Sound
<1>2. Flatten[root] \in Multisets
  BY <1>1, FlattenType
<1>3. NoPoints \in Multisets /\ \A p \in Points : NoPoints[p] = 0
  BY DEF NoPoints, Multisets
<1>4. FrozenLive \in Multisets /\ \A p \in Points : FrozenLive[p] <= Flatten[root][p]
  <2>1. CASE worker = "idle"
    BY <1>2, <1>3, <2>1 DEF FrozenLive, Multisets
  <2>2. CASE worker # "idle"
    <3>1. slot \in Open(root)
      BY <2>2 DEF Inv, InFlight
    <3>2. At(root, slot) \in Trees
      BY <1>1, <3>1, OpenIs DEF Sound
    <3> QED
      BY <1>1, <2>2, <3>1, <3>2, FlattenType, PartOfTree DEF FrozenLive
  <2> QED
    BY <2>1, <2>2
<1>5. Minus(Flatten[root], FrozenLive) \in Multisets
  BY <1>2, <1>4, TotalMinus
<1>6. Add(Minus(Flatten[root], FrozenLive), FrozenLive) = Flatten[root]
  <2>1. Add(Minus(Flatten[root], FrozenLive), FrozenLive) \in Multisets
    BY <1>4, <1>5, TotalAdd
  <2>2. \A p \in Points :
            Add(Minus(Flatten[root], FrozenLive), FrozenLive)[p] = Flatten[root][p]
    BY <1>2, <1>4 DEF Add, Minus, Multisets
  <2> QED
    BY <1>2, <2>1, <2>2, SameBag
<1>7. ASSUME worker = "idle"
      PROVE  FrozenLive = NoPoints /\ Minus(Flatten[root], FrozenLive) = Flatten[root]
  <2>1. FrozenLive = NoPoints
    BY <1>7 DEF FrozenLive
  <2>2. \A p \in Points : Minus(Flatten[root], FrozenLive)[p] = Flatten[root][p]
    BY <1>2, <1>3, <2>1 DEF Minus, Multisets
  <2> QED
    BY <1>2, <1>5, <2>1, <2>2, SameBag
<1>8. FrozenLive = Add(snapshot, Count(log))
  <2>1. CASE worker = "idle"
    <3>1. PICK z : z = <<>>
      OBVIOUS
    <3>2. z \in Seq(Points) /\ Len(z) = 0
      BY <3>1
    <3>3. Count(z) = NoPoints
      BY <3>2, TallySteps
    <3>4. snapshot = NoPoints /\ log = z
      BY <2>1, <3>1 DEF Inv, AtRest
    <3>5. Add(NoPoints, NoPoints) = NoPoints
      BY <1>3, BagLaws
    <3> QED
      BY <1>7, <2>1, <3>3, <3>4, <3>5
  <2>2. CASE worker # "idle"
    BY <2>2 DEF FrozenLive, Inv, InFlight
  <2> QED
    BY <2>1, <2>2
<1> QED
  BY <1>2, <1>4, <1>5, <1>6, <1>7, <1>8

\* Subtraction of a part.
LEMMA MinusLaws ==
    ASSUME NEW b \in Multisets, NEW c \in Multisets, \A p \in Points : c[p] <= b[p]
    PROVE  /\ Minus(b, NoPoints) = b
           /\ \A p \in Points : /\ Minus(AddOne(b, p), c) = AddOne(Minus(b, c), p)
                                /\ Minus(AddOne(b, p), AddOne(c, p)) = Minus(b, c)
<1>1. NoPoints \in Multisets /\ \A q \in Points : NoPoints[q] = 0
  BY DEF NoPoints, Multisets
<1>2. \A q \in Points : b[q] \in Nat /\ c[q] \in Nat
  BY DEF Multisets
<1>3. Minus(b, NoPoints) = b
  <2>1. Minus(b, NoPoints) \in Multisets
    BY <1>1, <1>2, TotalMinus
  <2>2. \A q \in Points : Minus(b, NoPoints)[q] = b[q]
    BY <1>1, <1>2 DEF Minus
  <2> QED
    BY <2>1, <2>2, SameBag
<1>4. ASSUME NEW p \in Points
      PROVE  /\ Minus(AddOne(b, p), c) = AddOne(Minus(b, c), p)
             /\ Minus(AddOne(b, p), AddOne(c, p)) = Minus(b, c)
  <2>1. PICK d, e : d = AddOne(b, p) /\ e = AddOne(c, p)
    OBVIOUS
  <2>2. d \in Multisets /\ e \in Multisets
    BY <2>1, TotalAddOne
  <2>3. \A q \in Points : /\ d[q] = (IF q = p THEN b[q] + 1 ELSE b[q])
                          /\ e[q] = (IF q = p THEN c[q] + 1 ELSE c[q])
    BY <2>1 DEF AddOne, Multisets
  <2>4. \A q \in Points : c[q] <= d[q] /\ e[q] <= d[q]
    BY <1>2, <2>3
  <2>5. PICK m : m = Minus(b, c)
    OBVIOUS
  <2>6. m \in Multisets /\ \A q \in Points : m[q] = b[q] - c[q]
    BY <2>5, TotalMinus DEF Minus
  <2>7. Minus(d, c) \in Multisets /\ Minus(d, e) \in Multisets
    BY <2>2, <2>4, TotalMinus
  <2>8. AddOne(m, p) \in Multisets
    BY <2>6, TotalAddOne
  <2>9. \A q \in Points : AddOne(m, p)[q] = IF q = p THEN m[q] + 1 ELSE m[q]
    BY <2>6 DEF AddOne, Multisets
  <2>10. \A q \in Points : Minus(d, c)[q] = AddOne(m, p)[q]
    BY <1>2, <2>3, <2>6, <2>9 DEF Minus
  <2>11. \A q \in Points : Minus(d, e)[q] = m[q]
    BY <1>2, <2>3, <2>6 DEF Minus
  <2>12. Minus(d, c) = AddOne(m, p)
    BY <2>7, <2>8, <2>10, SameBag
  <2>13. Minus(d, e) = m
    BY <2>6, <2>7, <2>11, SameBag
  <2> QED
    BY <2>1, <2>5, <2>12, <2>13
<1> QED
  BY <1>3, <1>4

\* A mutation that began with nothing in flight and leaves the points b ends as
\* the protocol says.
LEMMA RefinesMaybeRebuild ==
    ASSUME NEW t \in Sound, NEW e, NEW even \in BOOLEAN,
           AfterIdle(even, t, <<>>, Thawed(FALSE), e), Finish(t, e, "idle"),
           NEW b, b = Flatten[t]
    PROVE  Protocol!MaybeRebuild(b)
<1>1. /\ root' = t
      /\ slot' = e.slot /\ snapshot' = e.snapshot /\ above' = e.above /\ log' = e.log
      /\ worker' = IF e.slot # NoSlot THEN "building" ELSE "idle"
  BY DEF Finish
<1>2. t \in Trees /\ b \in Multisets
  BY FlattenType DEF Sound
<1>3. Count(<<>>) = NoPoints
  <2>1. PICK z : z = <<>>
    OBVIOUS
  <2>2. z \in Seq(Points) /\ Len(z) = 0
    BY <2>1
  <2> QED
    BY <2>1, <2>2, TallySteps
<1>4. FrozenLive' = IF worker' = "idle" THEN NoPoints ELSE Flatten[At(root', slot')]
  BY DEF FrozenLive
<1>5. CASE Started(t, <<>>, Thawed(FALSE), e)
  <2>1. /\ e.slot \in Open(t) /\ e.snapshot = Flatten[At(t, e.slot)]
        /\ e.snapshot \in Multisets /\ e.log = <<>>
    BY <1>5, StartedState
  <2>2. worker' = "building"
    BY <1>1, <2>1, RoutesOfPaths
  <2>3. PICK f : f = e.snapshot
    OBVIOUS
  <2>4. FrozenLive' = f /\ snapshot' = f /\ Count(log)' = NoPoints
    BY <1>1, <1>3, <1>4, <2>1, <2>2, <2>3
  <2>5. f \in Multisets /\ \A p \in Points : f[p] <= b[p]
    BY <2>1, <2>3, PartOfTree
  <2>6. f \in Parts(b)
    <3>1. \A p \in Points : b[p] \in Nat /\ f[p] \in Nat
      BY <1>2, <2>5 DEF Multisets
    <3>2. \A p \in Points : f[p] \in 0..b[p]
      BY <2>5, <3>1
    <3>3. \A p \in Points : f[p] \in UNION {0..b[q] : q \in Points}
      BY <3>2
    <3>4. f \in [Points -> UNION {0..b[p] : p \in Points}]
      <4>1. f = [p \in Points |-> f[p]]
        BY <2>5 DEF Multisets
      <4> QED
        BY <3>3, <4>1
    <3> QED
      BY <2>5, <3>4 DEF Parts
  <2>7. Minus(Flatten[root], FrozenLive)' = Minus(b, f)
    BY <1>1, <2>4
  <2> QED
    BY <2>2, <2>4, <2>6, <2>7, ProtocolBags
    DEF Protocol!MaybeRebuild, Protocol!StartAsyncRebuild
<1>6. CASE e = Thawed(FALSE)
  <2>1. worker' = "idle" /\ snapshot' = NoPoints /\ log' = <<>>
    BY <1>1, <1>6 DEF Thawed
  <2>2. FrozenLive' = NoPoints
    BY <1>4, <2>1
  <2>3. Minus(b, NoPoints) = b
    <3>1. \A p \in Points : b[p] <= b[p]
      BY <1>2 DEF Multisets
    <3> QED
      BY <1>2, <3>1, MinusLaws
  <2>4. Minus(Flatten[root], FrozenLive)' = b
    BY <1>1, <2>2, <2>3
  <2>5. Count(log)' = NoPoints
    BY <1>3, <2>1
  <2> QED
    BY <2>1, <2>2, <2>4, <2>5, ProtocolBags DEF Protocol!MaybeRebuild, Protocol!Unfrozen
<1> QED
  BY <1>5, <1>6 DEF AfterIdle

\* What the protocol calls live and settled are the live points of the tree.
LEMMA ProtocolLive ==
    ASSUME Inv
    PROVE  Protocol!Live = Flatten[root] /\ Protocol!Settled = Flatten[root]
BY FrozenPart, ProtocolBags DEF Protocol!Live, Protocol!Settled

LEMMA RefinesFinalize ==
    ASSUME Inv, worker = "ready", FinalizeRebuild
    PROVE  Protocol!FinalizeRebuild
<1>1. PICK t \in Landed : Finish(t, Thawed(FALSE), "idle")
  BY DEF FinalizeRebuild
<1>2. t \in Sound /\ Flatten[t] = Flatten[root]
  BY <1>1, LandedStands DEF Stands
<1>3. /\ root' = t /\ worker' = "idle" /\ snapshot' = NoPoints /\ log' = <<>>
  BY <1>1 DEF Finish, Thawed
<1>4. PICK b : b = Flatten[t]
  OBVIOUS
<1>5. b \in Multisets
  BY <1>2, <1>4, FlattenType DEF Sound
<1>6. Minus(b, NoPoints) = b
  <2>1. \A p \in Points : b[p] <= b[p]
    BY <1>5 DEF Multisets
  <2> QED
    BY <1>5, <2>1, MinusLaws
<1>7. FrozenLive' = NoPoints
  BY <1>3 DEF FrozenLive
<1>8. Minus(Flatten[root], FrozenLive)' = b
  BY <1>3, <1>4, <1>6, <1>7
<1>9. Count(log)' = NoPoints
  <2>1. PICK z : z = <<>>
    OBVIOUS
  <2>2. z \in Seq(Points) /\ Len(z) = 0
    BY <2>1
  <2> QED
    BY <1>3, <2>1, <2>2, TallySteps
<1> QED
  BY <1>2, <1>3, <1>4, <1>7, <1>8, <1>9, ProtocolLive, ProtocolBags
  DEF Protocol!FinalizeRebuild, Protocol!Unfrozen

-----------------------------------------------------------------------------
(* Every action is one of the protocol *)

LEMMA RefinesInsertBegin ==
    ASSUME Inv, NEW points \in Batches, InsertBegin(points)
    PROVE  Protocol!InsertBegin(points)
<1>1. /\ batch = <<>> /\ batch' = points /\ root.size + Len(points) <= MaxNodes
      /\ points \in Seq(Points)
  BY GeometryAssumption DEF InsertBegin
<1>2. PICK f, c : f = Flatten[root] /\ c = Count(points)
  OBVIOUS
<1>3. root \in Sound /\ root \in Trees
  BY DEF Inv, Sizes, Sound
<1>4. f \in Multisets /\ c \in Multisets /\ Total(c) = Len(points)
  BY <1>1, <1>2, <1>3, FlattenType, CountSteps
<1>5. Protocol!Fits(Add(f, c))
  <2>1. root.size - InvalidNum(root) = Total(f)
    BY <1>2, <1>3, SoundSize
  <2>2. root.size \in Nat /\ InvalidNum(root) \in Nat /\ Len(points) \in Nat
    BY <1>1, <1>3, SizeType, LenProperties
  <2>3. Add(f, c) \in Multisets /\ Total(Add(f, c)) = Total(f) + Total(c)
    BY <1>4, TotalAdd
  <2>4. ASSUME NEW p \in Points
        PROVE  Add(f, c)[p] <= MaxNodes
    <3>1. Add(f, c)[p] <= Total(Add(f, c))
      BY <2>3, TotalPart
    <3>2. Add(f, c)[p] \in Nat
      BY <2>3 DEF Multisets
    <3>3. Total(f) \in Nat
      BY <1>4, CopiesAre
    <3> QED
      BY <1>1, <1>4, <2>1, <2>2, <2>3, <3>1, <3>2, <3>3, ThresholdAssumption
  <2> QED
    BY <2>4 DEF Protocol!Fits
<1>6. Protocol!Fits(Protocol!Add(Protocol!Live, Protocol!Count(points)))
  BY <1>2, <1>5, ProtocolLive, ProtocolBags
<1>7. CASE worker = "ready"
  <2>1. Protocol!FinalizeRebuild
    BY <1>7, RefinesFinalize DEF InsertBegin
  <2> QED
    BY <1>1, <1>6, <1>7, <2>1 DEF Protocol!InsertBegin
<1>8. CASE worker # "ready"
  <2>1. UNCHANGED <<root, worker, slot, snapshot, rebuilt, above, log>>
    BY <1>8 DEF InsertBegin
  <2>2. FrozenLive' = FrozenLive
    BY <2>1 DEF FrozenLive
  <2>3. Minus(Flatten[root], FrozenLive)' = Minus(Flatten[root], FrozenLive)
        /\ Count(log)' = Count(log)
    BY <2>1, <2>2
  <2> QED
    BY <1>1, <1>6, <1>8, <2>1, <2>2, <2>3 DEF Protocol!InsertBegin
<1> QED
  BY <1>7, <1>8

LEMMA RefinesInsertStep ==
    ASSUME Inv, InsertStep
    PROVE  Protocol!InsertThawed \/ Protocol!InsertBeside \/ Protocol!InsertFrozen
<1>1. PICK p : p = Head(batch)
  OBVIOUS
<1>2. batch \in Seq(Points) /\ batch # <<>> /\ root \in Sound /\ batch' = Tail(batch)
  BY DEF InsertStep, Inv, Sizes
<1>3. p \in Points /\ Len(batch) \in Nat \ {0}
  <2>1. p \in Points /\ Tail(batch) \in Seq(Points) /\ Len(Tail(batch)) = Len(batch) - 1
    BY <1>1, <1>2, HeadTailProperties
  <2>2. Len(batch) \in Nat /\ Len(Tail(batch)) \in Nat
    BY <1>2, <2>1, LenProperties
  <2> QED
    BY <2>1, <2>2
<1>4. PICK d \in InsertAt[root][Current][<<>>][p] : Finish(d.tree, d.state, worker)
  BY <1>1 DEF InsertStep
<1>5. root \in Trees /\ root.size \in Nat
  BY <1>2, SizeType DEF Sound
<1>6. root.size < MaxNodes
  <2>1. root.size + Len(batch) <= MaxNodes
    BY DEF Inv, Sizes
  <2> QED
    BY <1>3, <1>5, <2>1, ThresholdAssumption
<1>7. PICK c, u : c = Current /\ u = <<>>
  OBVIOUS
<1>8. c \in RebuildStates /\ u \in Routes
  BY <1>7, CurrentState, ThawedIdle DEF Inv
<1>9. PICK t, f : t = d.tree /\ f = Flatten[root]
  OBVIOUS
<1>10. f \in Multisets
  BY <1>5, <1>9, FlattenType
<1>11. t \in Sound /\ Flatten[t] = AddOne(f, p)
  <2>1. Gained(d.tree, root, p)
    BY <1>2, <1>3, <1>4, <1>6, <1>7, <1>8, InsertGains
  <2> QED
    BY <1>9, <2>1 DEF Gained
<1>12. CASE worker = "idle"
  <2>1. Current = Thawed(FALSE) /\ Flags(root) = {} /\ Idle(c)
    BY <1>7, <1>12, CurrentState, ThawedIdle DEF Inv, AtRest
  <2>2. AfterIdle(FALSE, d.tree, u, c, d.state)
    BY <1>2, <1>3, <1>4, <1>6, <1>7, <1>8, <2>1, InsertIdle
  <2>3. Protocol!MaybeRebuild(Flatten[t])
    BY <1>4, <1>7, <1>9, <1>10, <1>11, <1>12, <2>1, <2>2, RefinesMaybeRebuild
  <2>4. Minus(Flatten[root], FrozenLive) = f
    BY <1>9, <1>10, <1>12, FrozenPart
  <2>5. Protocol!MaybeRebuild(Protocol!AddOne(Minus(Flatten[root], FrozenLive), Head(batch)))
    BY <1>1, <1>11, <2>3, <2>4, ProtocolBags
  <2> QED
    BY <1>2, <1>12, <2>5 DEF Protocol!InsertThawed
<1>13. CASE worker # "idle"
  <2>1. /\ d.state.slot = slot /\ d.state.snapshot = snapshot
        /\ \/ /\ d.state.log = log
              /\ Flatten[At(d.tree, slot)] = Flatten[At(root, slot)]
           \/ /\ d.state.log = Append(log, p)
              /\ Flatten[At(d.tree, slot)] = AddOne(Flatten[At(root, slot)], p)
    BY <1>3, <1>4, <1>6, <1>13, GrowsInFlight
  <2>2. root' = t /\ worker' = worker /\ slot' = slot /\ snapshot' = snapshot
        /\ log' = d.state.log
    BY <1>4, <1>9, <1>10, <1>13, <2>1 DEF Finish
  <2>3. PICK z : z = FrozenLive
    OBVIOUS
  <2>4. z = Flatten[At(root, slot)] /\ FrozenLive' = Flatten[At(t, slot)]
    BY <1>13, <2>2, <2>3 DEF FrozenLive
  <2>5. z \in Multisets /\ \A q \in Points : z[q] <= f[q]
    BY <1>9, <1>10, <2>3, FrozenPart
  <2>6. /\ Minus(AddOne(f, p), z) = AddOne(Minus(f, z), p)
        /\ Minus(AddOne(f, p), AddOne(z, p)) = Minus(f, z)
    BY <1>3, <1>10, <2>5, MinusLaws
  <2>7. CASE d.state.log = log /\ Flatten[At(t, slot)] = z
    <3>1. FrozenLive' = z /\ Count(log)' = Count(log)
      BY <2>2, <2>4, <2>7
    <3>2. Minus(Flatten[root], FrozenLive)' = AddOne(Minus(Flatten[root], FrozenLive), p)
      BY <1>9, <1>10, <1>11, <2>2, <2>3, <2>6, <3>1
    <3> QED
      BY <1>1, <1>2, <1>13, <2>2, <2>3, <3>1, <3>2, ProtocolBags DEF Protocol!InsertBeside
  <2>8. CASE d.state.log = Append(log, p) /\ Flatten[At(t, slot)] = AddOne(z, p)
    <3>1. log \in Seq(Points)
      BY <1>13 DEF Inv, InFlight
    <3>2. FrozenLive' = AddOne(z, p) /\ Count(log)' = AddOne(Count(log), p)
      BY <1>3, <2>2, <2>4, <2>8, <3>1, CountSteps
    <3>3. Minus(Flatten[root], FrozenLive)' = Minus(Flatten[root], FrozenLive)
      BY <1>9, <1>10, <1>11, <2>2, <2>3, <2>6, <3>2
    <3> QED
      BY <1>1, <1>2, <1>13, <2>2, <2>3, <3>2, <3>3, ProtocolBags DEF Protocol!InsertFrozen
  <2> QED
    BY <1>9, <1>10, <2>1, <2>4, <2>7, <2>8
<1> QED
  BY <1>12, <1>13

LEMMA RefinesRemoveBox ==
    ASSUME Inv, NEW box \in Boxes, RemoveBox(box)
    PROVE  Protocol!RemoveBox({p \in Points : Within(p, box)})
<1>1. batch = <<>> /\ batch' = batch /\ worker \in {"idle", "ready"}
  BY DEF RemoveBox, Inv
<1>2. PICK t \in IF worker = "ready" THEN Landed ELSE {root} :
          \E d \in RemoveBoxAt[t][Thawed(FALSE)][<<>>][box] : Finish(d.tree, d.state, "idle")
  BY DEF RemoveBox
<1>3. PICK d \in RemoveBoxAt[t][Thawed(FALSE)][<<>>][box] : Finish(d.tree, d.state, "idle")
  BY <1>2
<1>4. PICK c, u : c = Thawed(FALSE) /\ u = <<>>
  OBVIOUS
<1>5. c \in RebuildStates /\ u \in Routes /\ Idle(c)
  BY <1>4, ThawedIdle
<1>6. t \in Sound /\ Flatten[t] = Flatten[root] /\ Flags(t) = {}
  <2>1. CASE worker = "ready"
    BY <1>2, <2>1, LandedStands DEF Stands
  <2>2. CASE worker = "idle"
    BY <1>2, <2>2 DEF Inv, Sizes, AtRest
  <2> QED
    BY <1>1, <2>1, <2>2
<1>7. box \in Corners \X Corners
  BY GeometryAssumption
<1>8. d.tree \in Sound
  BY <1>3, <1>4, <1>5, <1>6, <1>7, RemoveClears DEF Removed
<1>9. AfterIdle(FALSE, d.tree, u, c, d.state)
  BY <1>3, <1>4, <1>5, <1>6, <1>7, RemoveIdle
<1>10. PICK R : R = {p \in Points : Within(p, box)}
  OBVIOUS
<1>11. Flatten[d.tree] = Outside(Flatten[root], R)
  <2>1. root' = d.tree
    BY <1>3 DEF Finish
  <2> QED
    BY <1>10, <2>1, BoxClears
<1>12. Protocol!MaybeRebuild(Flatten[d.tree])
  BY <1>3, <1>4, <1>8, <1>9, RefinesMaybeRebuild
<1>13. Protocol!MaybeRebuild(Protocol!Outside(Protocol!Settled, R))
  BY <1>11, <1>12, ProtocolLive, ProtocolBags
<1> QED
  BY <1>1, <1>10, <1>13 DEF Protocol!RemoveBox

LEMMA RefinesBuild ==
    ASSUME Inv, ~BuildInFlight, NEW points \in Batches, Build(points)
    PROVE  Protocol!Build(points)
<1>1. /\ worker = "idle" /\ worker' = "idle" /\ batch = <<>> /\ batch' = batch /\ Size = 0
      /\ Len(points) <= MaxNodes /\ root' \in BuildRange(Count(points))
      /\ snapshot' = NoPoints /\ log' = log /\ log = <<>>
  BY DEF Build, Inv, AtRest
<1>2. points \in Seq(Points) /\ Len(points) \in Nat
  BY GeometryAssumption, LenProperties
<1>3. PICK b : b = Count(points)
  OBVIOUS
<1>4. b \in Multisets /\ Total(b) = Len(points)
  BY <1>2, <1>3, CountSteps
<1>5. Flatten[root'] = b
  BY <1>3, BuildLoads
<1>6. Minus(Flatten[root], FrozenLive) = NoPoints
  <2>1. root \in Sound /\ root \in Trees
    BY DEF Inv, Sizes, Sound
  <2>2. Total(Flatten[root]) = 0
    BY <1>1, <2>1, SoundSize DEF Size
  <2>3. Flatten[root] = NoPoints
    BY <2>1, <2>2, FlattenType, TotalNone
  <2> QED
    BY <1>1, <2>3, FrozenPart
<1>7. Protocol!Fits(Protocol!Count(points))
  <2>1. \A p \in Points : b[p] \in Nat /\ b[p] <= Total(b)
    BY <1>4, TotalPart DEF Multisets
  <2>2. \A p \in Points : b[p] <= MaxNodes
    BY <1>1, <1>2, <1>4, <2>1, ThresholdAssumption
  <2> QED
    BY <1>3, <2>2, ProtocolBags DEF Protocol!Fits
<1>8. FrozenLive' = NoPoints
  BY <1>1 DEF FrozenLive
<1>9. Minus(Flatten[root], FrozenLive)' = b
  <2>1. \A p \in Points : b[p] <= b[p]
    BY <1>4 DEF Multisets
  <2>2. Minus(b, NoPoints) = b
    BY <1>4, <2>1, MinusLaws
  <2> QED
    BY <1>5, <1>8, <2>2
<1>10. Count(log)' = NoPoints
  <2>1. PICK z : z = <<>>
    OBVIOUS
  <2>2. z \in Seq(Points) /\ Len(z) = 0
    BY <2>1
  <2> QED
    BY <1>1, <2>1, <2>2, TallySteps
<1>11. Protocol!Unfrozen(Protocol!Count(points))
  BY <1>1, <1>3, <1>8, <1>9, <1>10, ProtocolBags DEF Protocol!Unfrozen
<1> QED
  BY <1>1, <1>6, <1>7, <1>11, ProtocolBags DEF Protocol!Build

\* ImplementsProtocol: with the frozen subtree cut out, the tree takes the
\* steps of the background-rebuild protocol and no others, whatever is frozen,
\* mutated in place and swapped in, for every set of points and every bound.
THEOREM RefinesProtocol == ~BuildInFlight => (Spec => ImplementsProtocol)
<1> SUFFICES ASSUME ~BuildInFlight
             PROVE  Spec => ImplementsProtocol
  OBVIOUS
<1>1. Init => Protocol!Init
  <2> SUFFICES ASSUME Init
               PROVE  Protocol!Init
    OBVIOUS
  <2>1. Inv /\ worker = "idle" /\ batch = <<>> /\ snapshot = NoPoints /\ log = <<>>
    BY InitInv DEF Init
  <2>2. Flatten[root] = NoPoints
    BY NilTree, FlattenLabelled DEF Init
  <2>3. FrozenLive = NoPoints /\ Minus(Flatten[root], FrozenLive) = NoPoints
    BY <2>1, <2>2, FrozenPart
  <2>4. Count(log) = NoPoints
    <3>1. PICK z : z = <<>>
      OBVIOUS
    <3>2. z \in Seq(Points) /\ Len(z) = 0
      BY <3>1
    <3> QED
      BY <2>1, <3>1, <3>2, TallySteps
  <2> QED
    BY <2>1, <2>3, <2>4, ProtocolBags DEF Protocol!Init
<1>2. Inv /\ [Next]_vars => [Protocol!Next]_(Protocol!vars)
  <2> SUFFICES ASSUME Inv, [Next]_vars
               PROVE  Protocol!Next \/ UNCHANGED Protocol!vars
    OBVIOUS
  <2>1. CASE WorkerDone
    <3>1. /\ worker = "building" /\ worker' = "ready"
          /\ UNCHANGED <<root, slot, snapshot, above, log, batch>>
      BY <2>1 DEF WorkerDone
    <3>2. FrozenLive' = FrozenLive
      BY <3>1 DEF FrozenLive
    <3>3. Minus(Flatten[root], FrozenLive)' = Minus(Flatten[root], FrozenLive)
          /\ Count(log)' = Count(log)
      BY <3>1, <3>2
    <3> QED
      BY <3>1, <3>2, <3>3 DEF Protocol!Next, Protocol!WorkerDone
  <2>2. ASSUME NEW points \in Batches, InsertBegin(points)
        PROVE  Protocol!Next
    BY <2>2, RefinesInsertBegin DEF Protocol!Next
  <2>3. CASE InsertStep
    BY <2>3, RefinesInsertStep DEF Protocol!Next
  <2>4. ASSUME NEW box \in Boxes, RemoveBox(box)
        PROVE  Protocol!Next
    <3>1. PICK R : R = {p \in Points : Within(p, box)}
      OBVIOUS
    <3>2. R \in {{p \in Points : Within(p, o)} : o \in Boxes}
      BY <3>1
    <3>3. Protocol!RemoveBox(R)
      BY <2>4, <3>1, RefinesRemoveBox
    <3> QED
      BY <3>2, <3>3 DEF Protocol!Next
  <2>5. CASE FinishPendingRebuild
    <3>1. Protocol!FinalizeRebuild
      BY <2>5, RefinesFinalize DEF FinishPendingRebuild
    <3>2. Protocol!FinishPendingRebuild
      BY <2>5, <3>1 DEF FinishPendingRebuild, Protocol!FinishPendingRebuild
    <3> QED
      BY <3>2 DEF Protocol!Next
  <2>6. ASSUME NEW points \in Batches, Build(points)
        PROVE  Protocol!Next
    BY <2>6, RefinesBuild DEF Protocol!Next
  <2>7. CASE UNCHANGED vars
    <3>1. UNCHANGED <<root, worker, slot, snapshot, log, batch>>
      BY <2>7 DEF vars
    <3>2. FrozenLive' = FrozenLive
      BY <3>1 DEF FrozenLive
    <3>3. Minus(Flatten[root], FrozenLive)' = Minus(Flatten[root], FrozenLive)
          /\ Count(log)' = Count(log)
      BY <3>1, <3>2
    <3> QED
      BY <3>1, <3>2, <3>3 DEF Protocol!vars
  <2> QED
    BY <2>1, <2>2, <2>3, <2>4, <2>5, <2>6, <2>7 DEF Next
<1>3. Spec => []Inv
  BY InvCorrect
<1> QED
  BY <1>1, <1>2, <1>3, PTL DEF Spec, ImplementsProtocol, Protocol!Spec


-----------------------------------------------------------------------------
(* Distances *)

\* The sum of the first k squares, given that of k - 1.
SumOf(k, v, before) == IF k = 0 THEN 0 ELSE before + v[k] * v[k]

Sums(s, v) == s = [k \in 0..Dim |-> SumOf(k, v, s[k - 1])]

LEMMA SumsDef ==
    ASSUME NEW v
    PROVE  \E s : Sums(s, v) /\ Norm2(v) = s[Dim]
<1> DEFINE Solves(f, m) == f = [k \in 0..m |-> SumOf(k, v, f[k - 1])]
           S == {m \in 0..Dim : \E f : Solves(f, m)}
<1>1. Dim \in Nat
  BY GeometryAssumption
<1>2. \A x, y : SumOf(0, v, x) = SumOf(0, v, y)
  BY DEF SumOf
<1> HIDE DEF SumOf
<1>3. 0 \in S
  <2> DEFINE f == [k \in 0..0 |-> SumOf(0, v, 0)]
  <2>1. Solves(f, 0)
    <3>1. \A k \in 0..0 : SumOf(k, v, f[k - 1]) = SumOf(0, v, 0)
      BY <1>2
    <3> QED
      BY <3>1
  <2> HIDE DEF Solves, f
  <2> QED
    BY <1>1, <2>1
<1>4. ASSUME NEW m \in 0..Dim, m < Dim, m \in S
      PROVE  m + 1 \in S
  <2>1. PICK f : Solves(f, m)
    BY <1>4
  <2> DEFINE g == [k \in 0..(m + 1) |-> SumOf(k, v, f[k - 1])]
  <2>2. ASSUME NEW k \in 0..m
        PROVE  g[k] = f[k]
    <3>1. f[k] = SumOf(k, v, f[k - 1])
      BY <2>1
    <3>2. k \in 0..(m + 1)
      BY <1>1
    <3> QED
      BY <3>1, <3>2
  <2>3. ASSUME NEW k \in 0..(m + 1)
        PROVE  SumOf(k, v, f[k - 1]) = SumOf(k, v, g[k - 1])
    <3>1. CASE k = 0
      BY <1>2, <3>1
    <3>2. CASE k # 0
      <4>1. k - 1 \in 0..m
        BY <1>1, <3>2
      <4> HIDE DEF g
      <4> QED
        BY <2>2, <4>1
    <3> QED
      BY <3>1, <3>2
  <2>4. Solves(g, m + 1)
    BY <2>3
  <2>5. m + 1 \in 0..Dim
    BY <1>1, <1>4
  <2> HIDE DEF Solves, g
  <2> QED
    BY <2>4, <2>5
<1>5. Dim \in S
  <2> HIDE DEF S
  <2>1. 0..Dim \subseteq S
    BY <1>1, <1>3, <1>4, Induct
  <2> QED
    BY <1>1, <2>1
<1>6. \E f : Solves(f, Dim)
  BY <1>5
<1> DEFINE sum == CHOOSE f : f = [k \in 0..Dim |-> SumOf(k, v, f[k - 1])]
<1>7. Norm2(v) = sum[Dim]
  BY DEF Norm2, SumOf
<1>8. Sums(sum, v)
  BY <1>6 DEF Sums
<1> QED
  BY <1>7, <1>8

LEMMA Squares ==
    ASSUME NEW x \in Int, NEW y \in Int, 0 <= x, x <= y \/ x <= -y
    PROVE  x * x <= y * y
OBVIOUS

LEMMA SquareType ==
    ASSUME NEW x \in Int
    PROVE  x * x \in Nat
OBVIOUS

\* A vector that is no longer than another in any coordinate is no longer.
LEMMA NormGrows ==
    ASSUME NEW v \in [Axes -> Int], NEW w \in [Axes -> Int],
           \A a \in Axes : v[a] * v[a] <= w[a] * w[a]
    PROVE  Norm2(v) \in Nat /\ Norm2(w) \in Nat /\ Norm2(v) <= Norm2(w)
<1>1. Dim \in Nat
  BY GeometryAssumption
<1>2. PICK s : Sums(s, v) /\ Norm2(v) = s[Dim]
  BY SumsDef
<1>3. PICK t : Sums(t, w) /\ Norm2(w) = t[Dim]
  BY SumsDef
<1> DEFINE S == {k \in 0..Dim : s[k] \in Nat /\ t[k] \in Nat /\ s[k] <= t[k]}
<1>4. s[0] = 0 /\ t[0] = 0
  BY <1>1, <1>2, <1>3 DEF Sums, SumOf
<1>5. ASSUME NEW k \in 0..Dim, k < Dim, k \in S
      PROVE  k + 1 \in S
  <2>1. k + 1 \in Axes /\ k + 1 \in 0..Dim /\ k + 1 # 0 /\ (k + 1) - 1 = k
    BY <1>1, <1>5 DEF Axes
  <2>2. PICK x, y : x = v[k + 1] * v[k + 1] /\ y = w[k + 1] * w[k + 1]
    OBVIOUS
  <2>3. x \in Nat /\ y \in Nat /\ x <= y
    BY <2>1, <2>2, SquareType
  <2>4. s[k + 1] = s[k] + x /\ t[k + 1] = t[k] + y
    <3>1. s[k + 1] = SumOf(k + 1, v, s[k]) /\ t[k + 1] = SumOf(k + 1, w, t[k])
      BY <1>2, <1>3, <2>1 DEF Sums
    <3> QED
      BY <2>1, <2>2, <3>1 DEF SumOf
  <2> QED
    BY <1>5, <2>1, <2>3, <2>4
<1>6. 0 \in S
  BY <1>1, <1>4
<1>7. 0..Dim \subseteq S
  <2> HIDE DEF S
  <2> QED
    BY <1>1, <1>5, <1>6, Induct
<1> QED
  BY <1>1, <1>2, <1>3, <1>7

LEMMA DistanceType ==
    ASSUME NEW p \in Corners, NEW q \in Corners
    PROVE  Dist2(p, q) \in Nat
<1> DEFINE d == [a \in Axes |-> p[a] - q[a]]
<1>1. d \in [Axes -> Int]
  BY DEF Corners
<1> HIDE DEF d
<1>2. Norm2(d) \in Nat
  <2>1. \A a \in Axes : d[a] * d[a] <= d[a] * d[a]
    BY <1>1
  <2> QED
    BY <1>1, <2>1, NormGrows
<1> QED
  BY <1>2 DEF Dist2, d

\* No point of a box is nearer than the box.
LEMMA BoxIsNear ==
    ASSUME NEW p \in Corners, NEW q \in Corners, NEW lo \in Corners, NEW hi \in Corners,
           \A a \in Axes : lo[a] <= p[a] /\ p[a] <= hi[a]
    PROVE  BoxDist2(q, lo, hi) \in Nat /\ BoxDist2(q, lo, hi) <= Dist2(p, q)
<1> DEFINE d == [a \in Axes |-> p[a] - q[a]]
           b == [a \in Axes |-> Max({lo[a] - q[a], q[a] - hi[a], 0})]
<1>1. d \in [Axes -> Int] /\ \A a \in Axes : d[a] = p[a] - q[a]
  BY DEF Corners
<1>2. ASSUME NEW a \in Axes
      PROVE  b[a] \in Int /\ 0 <= b[a] /\ (b[a] <= d[a] \/ b[a] <= -d[a])
  <2>1. lo[a] \in Int /\ hi[a] \in Int /\ p[a] \in Int /\ q[a] \in Int
        /\ lo[a] <= p[a] /\ p[a] <= hi[a]
    BY DEF Corners
  <2>2. PICK x, y : x = lo[a] - q[a] /\ y = q[a] - hi[a]
    OBVIOUS
  <2>3. x \in Int /\ y \in Int /\ x <= d[a] /\ y <= -d[a] /\ d[a] \in Int
    BY <1>1, <2>1, <2>2
  <2>4. \E m \in {x, y, 0} : \A z \in {x, y, 0} : m >= z
    BY <2>3
  <2>5. /\ Max({x, y, 0}) \in {x, y, 0}
        /\ \A z \in {x, y, 0} : Max({x, y, 0}) >= z
    BY <2>4 DEF Max
  <2>6. b[a] = Max({x, y, 0})
    BY <2>2
  <2> HIDE DEF b, d
  <2> QED
    BY <2>3, <2>5, <2>6
<1> HIDE DEF d, b
<1>3. b \in [Axes -> Int]
  BY <1>2 DEF b
<1>4. \A a \in Axes : b[a] * b[a] <= d[a] * d[a]
  BY <1>1, <1>2, Squares
<1>5. Norm2(b) \in Nat /\ Norm2(b) <= Norm2(d)
  BY <1>1, <1>3, <1>4, NormGrows
<1> QED
  BY <1>5 DEF Dist2, BoxDist2, b, d

-----------------------------------------------------------------------------
(* The heap *)

\* The heap holds the k nearest of the points seen.
Best(heap, seen, q, k) ==
    /\ heap \in Multisets /\ seen \in Multisets
    /\ Total(heap) <= k
    /\ \A p \in Points : heap[p] <= seen[p]
    /\ Total(heap) < k => heap = seen
    /\ \A x, p \in Points : heap[x] > 0 /\ heap[p] < seen[p] => Dist2(x, q) <= Dist2(p, q)

LEMMA FrontsThere ==
    ASSUME NEW heap \in Multisets, NEW q \in Corners, Total(heap) > 0
    PROVE  Fronts(heap, q) # {}
<1> DEFINE H == {x \in Points : heap[x] > 0}
           f == [x \in H |-> Dist2(x, q)]
<1>1. IsFiniteSet(H)
  <2>1. H \subseteq Points /\ IsFiniteSet(Points)
    BY GeometryAssumption
  <2> HIDE DEF H
  <2> QED
    BY <2>1, FS_Subset
<1>2. H # {}
  <2> SUFFICES ASSUME \A x \in Points : ~(heap[x] > 0)
               PROVE  FALSE
    OBVIOUS
  <2>1. \A x \in Points : heap[x] = 0 /\ NoPoints[x] = 0
    BY DEF Multisets, NoPoints
  <2>2. heap = NoPoints
    BY <2>1 DEF Multisets, NoPoints
  <2> QED
    BY <2>2, TotalNone
<1>3. f \in [H -> Int]
  <2>1. \A x \in H : Dist2(x, q) \in Int
    BY DistanceType, GeometryAssumption
  <2> QED
    BY <2>1
<1>4. \E w \in H : \A x \in H : f[x] <= f[w]
  <2> HIDE DEF H, f
  <2> QED
    BY <1>1, <1>2, <1>3, Extremes
<1> QED
  BY <1>4 DEF Fronts

\* Points no nearer than all of a full heap may go unseen.
LEMMA BestSkips ==
    ASSUME NEW heap, NEW seen, NEW q \in Corners, NEW k \in Nat \ {0}, Best(heap, seen, q, k),
           NEW more \in Multisets, ~(Total(heap) < k),
           \A x, p \in Points : heap[x] > 0 /\ more[p] > 0 => Dist2(x, q) <= Dist2(p, q)
    PROVE  Best(heap, Add(seen, more), q, k)
<1>1. /\ heap \in Multisets /\ seen \in Multisets /\ Total(heap) <= k
      /\ \A p \in Points : heap[p] <= seen[p]
      /\ \A x, p \in Points : heap[x] > 0 /\ heap[p] < seen[p] => Dist2(x, q) <= Dist2(p, q)
  BY DEF Best
<1>2. Add(seen, more) \in Multisets
  BY <1>1, TotalAdd
<1>3. \A p \in Points : /\ Add(seen, more)[p] = seen[p] + more[p]
                        /\ heap[p] \in Nat /\ seen[p] \in Nat /\ more[p] \in Nat
  BY <1>1 DEF Add, Multisets
<1>4. \A p \in Points : heap[p] <= Add(seen, more)[p]
  BY <1>1, <1>3
<1>5. ASSUME NEW x \in Points, NEW p \in Points, heap[x] > 0, heap[p] < Add(seen, more)[p]
      PROVE  Dist2(x, q) <= Dist2(p, q)
  <2>1. heap[p] < seen[p] \/ more[p] > 0
    BY <1>3, <1>5
  <2> QED
    BY <1>1, <1>5, <2>1
<1> QED
  BY <1>1, <1>2, <1>4, <1>5 DEF Best

\* A candidate that is nearer than the front takes its place.
LEMMA FrontReplaced ==
    ASSUME NEW heap, NEW seen, NEW q \in Corners, NEW k \in Nat \ {0}, Best(heap, seen, q, k),
           NEW p \in Points, NEW w \in Fronts(heap, q), ~(Total(heap) < k),
           Dist2(p, q) < Dist2(w, q)
    PROVE  Best(AddOne(Minus(heap, AddOne(NoPoints, w)), p), AddOne(seen, p), q, k)
<1>1. /\ heap \in Multisets /\ seen \in Multisets /\ Total(heap) <= k /\ Total(heap) \in Nat
      /\ \A y \in Points : heap[y] <= seen[y]
      /\ \A x, y \in Points : heap[x] > 0 /\ heap[y] < seen[y] => Dist2(x, q) <= Dist2(y, q)
  BY CopiesAre DEF Best
<1>2. w \in Points /\ heap[w] > 0 /\ \A x \in Points : heap[x] > 0 => Dist2(x, q) <= Dist2(w, q)
  BY DEF Fronts
<1>3. PICK one : one = AddOne(NoPoints, w)
  OBVIOUS
<1>4. one \in Multisets /\ Total(one) = 1
      /\ \A y \in Points : one[y] = IF y = w THEN 1 ELSE 0
  <2>1. NoPoints \in Multisets /\ Total(NoPoints) = 0
    BY <1>1, BagLaws, TotalNone
  <2>2. \A y \in Points : one[y] = IF y = w THEN 1 ELSE 0
    BY <1>2, <1>3 DEF AddOne, NoPoints
  <2> QED
    BY <1>2, <1>3, <2>1, <2>2, TotalAddOne
<1>5. PICK rest : rest = Minus(heap, one)
  OBVIOUS
<1>6. rest \in Multisets /\ Total(rest) = Total(heap) - 1
      /\ \A y \in Points : rest[y] = heap[y] - one[y]
  <2>1. \A y \in Points : one[y] <= heap[y]
    BY <1>1, <1>2, <1>4 DEF Multisets
  <2>2. \A y \in Points : rest[y] = heap[y] - one[y]
    BY <1>5 DEF Minus
  <2> QED
    BY <1>1, <1>4, <1>5, <2>1, <2>2, TotalMinus
<1>7. PICK new, all : new = AddOne(rest, p) /\ all = AddOne(seen, p)
  OBVIOUS
<1>8. /\ new \in Multisets /\ all \in Multisets /\ Total(new) = Total(heap)
      /\ \A y \in Points : new[y] = rest[y] + (IF y = p THEN 1 ELSE 0)
      /\ \A y \in Points : all[y] = seen[y] + (IF y = p THEN 1 ELSE 0)
  <2>1. new \in Multisets /\ all \in Multisets /\ Total(new) = Total(rest) + 1
    BY <1>1, <1>6, <1>7, TotalAddOne
  <2>2. \A y \in Points : new[y] = rest[y] + (IF y = p THEN 1 ELSE 0)
    BY <1>6, <1>7 DEF AddOne, Multisets
  <2>3. \A y \in Points : all[y] = seen[y] + (IF y = p THEN 1 ELSE 0)
    BY <1>1, <1>7 DEF AddOne, Multisets
  <2> QED
    BY <1>1, <1>6, <2>1, <2>2, <2>3
<1>9. \A y \in Points : heap[y] \in Nat /\ seen[y] \in Nat
  BY <1>1 DEF Multisets
<1>10. \A y \in Points : new[y] <= all[y]
  BY <1>1, <1>4, <1>6, <1>8, <1>9
<1>11. ASSUME NEW x \in Points, NEW y \in Points, new[x] > 0, new[y] < all[y]
       PROVE  Dist2(x, q) <= Dist2(y, q)
  <2>1. \A z \in Points : Dist2(z, q) \in Nat
    BY DistanceType, GeometryAssumption
  <2>2. heap[x] > 0 \/ x = p
    BY <1>4, <1>6, <1>8, <1>9, <1>11
  <2>3. Dist2(x, q) <= Dist2(w, q)
    BY <1>2, <2>1, <2>2
  <2>4. heap[y] < seen[y] \/ y = w
    BY <1>4, <1>6, <1>8, <1>9, <1>11
  <2>5. Dist2(w, q) <= Dist2(y, q)
    BY <1>1, <1>2, <2>1, <2>4
  <2> QED
    BY <1>2, <2>1, <2>3, <2>5
<1>12. Best(new, all, q, k)
  BY <1>1, <1>8, <1>10, <1>11 DEF Best
<1> QED
  BY <1>3, <1>5, <1>7, <1>12

LEMMA OfferKeeps ==
    ASSUME NEW heap, NEW seen, NEW q \in Corners, NEW k \in Nat \ {0}, Best(heap, seen, q, k),
           NEW p \in Points
    PROVE  /\ Offer(heap, p, q, k) # {}
           /\ \A new \in Offer(heap, p, q, k) : Best(new, AddOne(seen, p), q, k)
<1>1. /\ heap \in Multisets /\ seen \in Multisets /\ Total(heap) <= k /\ Total(heap) \in Nat
      /\ (Total(heap) < k => heap = seen)
  BY CopiesAre DEF Best
<1>2. CASE Total(heap) < k
  <2>1. AddOne(heap, p) \in Multisets /\ Total(AddOne(heap, p)) = Total(heap) + 1
    BY <1>1, TotalAddOne
  <2>2. heap = seen
    BY <1>1, <1>2
  <2>3. \A y \in Points : AddOne(heap, p)[y] \in Nat
    BY <2>1 DEF Multisets
  <2>4. Best(AddOne(heap, p), AddOne(seen, p), q, k)
    <3> HIDE DEF AddOne
    <3>1. Total(AddOne(heap, p)) <= k
      BY <1>1, <1>2, <2>1
    <3> QED
      BY <2>1, <2>2, <2>3, <3>1 DEF Best
  <2>5. Offer(heap, p, q, k) = {AddOne(heap, p)}
    BY <1>2 DEF Offer
  <2> QED
    BY <2>4, <2>5
<1>3. CASE ~(Total(heap) < k)
  <2>1. Fronts(heap, q) # {}
    BY <1>1, <1>3, FrontsThere
  <2>2. ASSUME NEW w \in Fronts(heap, q), ~(Dist2(p, q) < Dist2(w, q))
        PROVE  Best(heap, AddOne(seen, p), q, k)
    <3>1. PICK one : one = AddOne(NoPoints, p)
      OBVIOUS
    <3>2. one \in Multisets /\ \A y \in Points : one[y] > 0 => y = p
      <4>1. NoPoints \in Multisets /\ \A y \in Points : NoPoints[y] = 0
        BY <1>1, BagLaws DEF NoPoints
      <4>2. one \in Multisets
        BY <3>1, <4>1, TotalAddOne
      <4>3. \A y \in Points : y # p => one[y] = 0
        BY <3>1, <4>1 DEF AddOne, Multisets
      <4> QED
        BY <4>2, <4>3
    <3>3. AddOne(seen, p) = Add(seen, one)
      <4>1. NoPoints \in Multisets /\ Add(seen, NoPoints) = seen
        BY <1>1, BagLaws
      <4> QED
        BY <1>1, <3>1, <4>1, BagLaws
    <3>4. \A x \in Points : heap[x] > 0 => Dist2(x, q) <= Dist2(p, q)
      <4>1. \A z \in Points : Dist2(z, q) \in Nat
        BY DistanceType, GeometryAssumption
      <4>2. w \in Points /\ \A x \in Points : heap[x] > 0 => Dist2(x, q) <= Dist2(w, q)
        BY DEF Fronts
      <4> QED
        BY <2>2, <4>1, <4>2
    <3>5. Best(heap, Add(seen, one), q, k)
      BY <1>3, <3>2, <3>4, BestSkips
    <3> QED
      BY <3>3, <3>5
  <2>3. ASSUME NEW w \in Fronts(heap, q)
        PROVE  Best(IF Dist2(p, q) < Dist2(w, q)
                    THEN AddOne(Minus(heap, AddOne(NoPoints, w)), p)
                    ELSE heap, AddOne(seen, p), q, k)
    <3>1. CASE Dist2(p, q) < Dist2(w, q)
      <4>1. Best(AddOne(Minus(heap, AddOne(NoPoints, w)), p), AddOne(seen, p), q, k)
        BY <1>3, <3>1, FrontReplaced
      <4> QED
        BY <3>1, <4>1
    <3>2. CASE ~(Dist2(p, q) < Dist2(w, q))
      BY <2>2, <3>2
    <3> QED
      BY <3>1, <3>2
  <2> DEFINE taken(w) == IF Dist2(p, q) < Dist2(w, q)
                         THEN AddOne(Minus(heap, AddOne(NoPoints, w)), p)
                         ELSE heap
  <2>4. Offer(heap, p, q, k) = {taken(w) : w \in Fronts(heap, q)}
    BY <1>3 DEF Offer
  <2>5. \A w \in Fronts(heap, q) : Best(taken(w), AddOne(seen, p), q, k)
    BY <2>3
  <2> HIDE DEF taken
  <2> QED
    BY <2>1, <2>4, <2>5
<1> QED
  BY <1>2, <1>3

-----------------------------------------------------------------------------
(* The search *)

\* The two sides of a node, from the heaps that its own point leaves.
Descended(own, near, far, box, q, k) ==
    UNION {UNION {
        IF ~IsNil(box) /\ Promising(box, first, q, k)
        THEN far[q][k][first] ELSE {first} :
        first \in near[q][k][h]} : h \in own}

Owned(n, heap, q, k) == IF n.deleted THEN {heap} ELSE Offer(heap, n.pt, q, k)

SearchOf(n, left, right) ==
    [q \in Corners |-> [k \in Nat \ {0} |-> [heap \in Multisets |->
        IF IsNil(n) THEN {heap}
        ELSE IF n.treeDeleted THEN {heap}
        ELSE IF q[n.axis] < n.pt[n.axis]
             THEN Descended(Owned(n, heap, q, k), left, right, n.r, q, k)
             ELSE Descended(Owned(n, heap, q, k), right, left, n.l, q, k)]]]

LEMMA SearchDef ==
    Search = [n \in Trees |-> SearchOf(n, Search[n.l], Search[n.r])]
<1> DEFINE Solves(f, h) == f = [n \in TreesUpTo[h] |-> SearchOf(n, f[n.l], f[n.r])]
           S == {h \in 0..MaxNodes : \E f : Solves(f, h)}
<1>1. MaxNodes \in Nat
  BY ThresholdAssumption
<1>2. \A x, y, v, w : SearchOf(Nil, x, y) = SearchOf(Nil, v, w)
  BY NilTree DEF SearchOf
<1> HIDE DEF SearchOf
<1>3. 0 \in S
  <2> DEFINE f == [n \in TreesUpTo[0] |-> SearchOf(Nil, 0, 0)]
  <2>1. Solves(f, 0)
    BY <1>2, TreesLevels
  <2> HIDE DEF Solves, f
  <2> QED
    BY <1>1, <2>1
<1>4. ASSUME NEW h \in 0..MaxNodes, h < MaxNodes, h \in S
      PROVE  h + 1 \in S
  <2>1. PICK f : Solves(f, h)
    BY <1>4
  <2>2. h + 1 \in 0..MaxNodes /\ (h + 1) - 1 = h /\ h <= h + 1
    BY <1>1, <1>4
  <2>3. TreesUpTo[h] \subseteq TreesUpTo[h + 1]
    BY <2>2, TreesGrow
  <2> DEFINE g == [n \in TreesUpTo[h + 1] |-> SearchOf(n, f[n.l], f[n.r])]
  <2>4. ASSUME NEW n \in TreesUpTo[h]
        PROVE  g[n] = f[n]
    <3>1. f[n] = SearchOf(n, f[n.l], f[n.r])
      BY <2>1
    <3> QED
      BY <2>3, <3>1
  <2>5. ASSUME NEW n \in TreesUpTo[h + 1]
        PROVE  SearchOf(n, f[n.l], f[n.r]) = SearchOf(n, g[n.l], g[n.r])
    <3>1. CASE n = Nil
      BY <1>2, <3>1
    <3>2. CASE n \in NodesOver(TreesUpTo[h])
      <4>1. n.l \in TreesUpTo[h] /\ n.r \in TreesUpTo[h]
        BY <3>2 DEF NodesOver
      <4> HIDE DEF g
      <4> QED
        BY <2>4, <4>1
    <3> QED
      BY <2>2, <3>1, <3>2, TreeCases
  <2>6. Solves(g, h + 1)
    BY <2>5
  <2> HIDE DEF Solves, g
  <2> QED
    BY <2>2, <2>6
<1>5. MaxNodes \in S
  <2> HIDE DEF S
  <2>1. 0..MaxNodes \subseteq S
    BY <1>1, <1>3, <1>4, Induct
  <2> QED
    BY <1>1, <2>1
<1>6. \E f : Solves(f, MaxNodes)
  BY <1>5
<1>7. Search = CHOOSE f : f = [n \in Trees |-> SearchOf(n, f[n.l], f[n.r])]
  BY DEF Search, SearchOf, Descended, Owned
<1> QED
  BY <1>6, <1>7 DEF Trees


\* A search of t adds the live points of t to the ones seen.
Finds(t) ==
    \A q \in Corners : \A k \in Nat \ {0} : \A heap, seen \in Multisets :
        Best(heap, seen, q, k) =>
            /\ Search[t][q][k][heap] # {}
            /\ \A found \in Search[t][q][k][heap] :
                   Best(found, Add(seen, Flatten[t]), q, k)

\* A subtree whose box is no nearer than the front of a full heap has no point
\* that is.
LEMMA PrunedIsFar ==
    ASSUME NEW t \in Sound, ~IsNil(t), NEW q \in Corners, NEW k \in Nat \ {0},
           NEW heap \in Multisets, ~Promising(t, heap, q, k),
           NEW x \in Points, heap[x] > 0, NEW p \in Points, Flatten[t][p] > 0
    PROVE  Dist2(x, q) <= Dist2(p, q)
<1>1. t \in NodesOver(Trees) /\ t.lo \in Corners /\ t.hi \in Corners
  BY SoundNode, NodeFields
<1>2. p \in Corners /\ x \in Corners
  BY GeometryAssumption
<1>3. \A a \in Axes : t.lo[a] <= p[a] /\ p[a] <= t.hi[a]
  <2> TAKE a \in Axes
  <2>1. t.lo[a] \in Int /\ t.hi[a] \in Int
    BY <1>1 DEF Corners
  <2>2. Below(t, a, t.hi[a]) /\ Beyond(t, a, t.lo[a])
    BY <2>1 DEF Below, Beyond
  <2> QED
    BY <2>1, <2>2, LiveInBox
<1>4. BoxDist2(q, t.lo, t.hi) \in Nat /\ BoxDist2(q, t.lo, t.hi) <= Dist2(p, q)
  BY <1>1, <1>2, <1>3, BoxIsNear
<1>5. Total(heap) > 0
  BY TotalNone
<1>6. PICK w \in Fronts(heap, q) : TRUE
  BY <1>5, FrontsThere
<1>7. w \in Points /\ w \in Corners /\ Dist2(x, q) <= Dist2(w, q)
  BY GeometryAssumption DEF Fronts
<1>8. ~(BoxDist2(q, t.lo, t.hi) < Dist2(w, q))
  BY DEF Promising
<1>9. Dist2(x, q) \in Nat /\ Dist2(w, q) \in Nat /\ Dist2(p, q) \in Nat
  BY <1>2, <1>7, DistanceType
<1> QED
  BY <1>4, <1>7, <1>8, <1>9

LEMMA FarFinds ==
    ASSUME NEW t \in Sound, Finds(t), NEW q \in Corners, NEW k \in Nat \ {0},
           NEW first, NEW seen, Best(first, seen, q, k),
           NEW answers, answers = IF ~IsNil(t) /\ Promising(t, first, q, k)
                                  THEN Search[t][q][k][first] ELSE {first}
    PROVE  answers # {} /\ \A found \in answers : Best(found, Add(seen, Flatten[t]), q, k)
<1>1. first \in Multisets /\ seen \in Multisets
  BY DEF Best
<1>2. t \in Trees /\ Flatten[t] \in Multisets
  BY FlattenType DEF Sound
<1>3. CASE ~IsNil(t) /\ Promising(t, first, q, k)
  BY <1>1, <1>3 DEF Finds
<1>4. CASE IsNil(t)
  <2>1. Flatten[t] = NoPoints
    BY <1>2, <1>4, FlattenLabelled
  <2>2. Add(seen, Flatten[t]) = seen
    BY <1>1, <2>1, BagLaws
  <2>3. answers = {first}
    BY <1>4
  <2> QED
    BY <2>2, <2>3
<1>5. CASE ~IsNil(t) /\ ~Promising(t, first, q, k)
  <2>1. ~(Total(first) < k)
    BY <1>5 DEF Promising
  <2>2. \A x, p \in Points : first[x] > 0 /\ Flatten[t][p] > 0 => Dist2(x, q) <= Dist2(p, q)
    BY <1>1, <1>5, PrunedIsFar
  <2>3. Best(first, Add(seen, Flatten[t]), q, k)
    BY <1>2, <2>1, <2>2, BestSkips
  <2>4. answers = {first}
    BY <1>5
  <2> QED
    BY <2>3, <2>4
<1> QED
  BY <1>3, <1>4, <1>5

LEMMA BothFind ==
    ASSUME NEW s \in Sound, NEW t \in Sound, Finds(s), Finds(t),
           NEW q \in Corners, NEW k \in Nat \ {0}, NEW seen \in Multisets,
           NEW own, own # {}, \A h \in own : Best(h, seen, q, k)
    PROVE  /\ Descended(own, Search[s], Search[t], t, q, k) # {}
           /\ \A found \in Descended(own, Search[s], Search[t], t, q, k) :
                  Best(found, Add(Add(seen, Flatten[s]), Flatten[t]), q, k)
<1> DEFINE after(first) == IF ~IsNil(t) /\ Promising(t, first, q, k)
                           THEN Search[t][q][k][first] ELSE {first}
<1>1. ASSUME NEW h \in own
      PROVE  /\ Search[s][q][k][h] # {}
             /\ \A first \in Search[s][q][k][h] : Best(first, Add(seen, Flatten[s]), q, k)
  <2>1. Best(h, seen, q, k) /\ h \in Multisets
    BY <1>1 DEF Best
  <2> QED
    BY <2>1 DEF Finds
<1>2. ASSUME NEW h \in own, NEW first \in Search[s][q][k][h]
      PROVE  /\ after(first) # {}
             /\ \A found \in after(first) :
                    Best(found, Add(Add(seen, Flatten[s]), Flatten[t]), q, k)
  <2>1. Best(first, Add(seen, Flatten[s]), q, k)
    BY <1>1
  <2>2. PICK answers : answers = after(first)
    OBVIOUS
  <2>3. answers # {} /\ \A found \in answers :
                            Best(found, Add(Add(seen, Flatten[s]), Flatten[t]), q, k)
    BY <2>1, <2>2, FarFinds
  <2> QED
    BY <2>2, <2>3
<1>3. Descended(own, Search[s], Search[t], t, q, k)
        = UNION {UNION {after(first) : first \in Search[s][q][k][h]} : h \in own}
  BY DEF Descended
<1> HIDE DEF after
<1>4. \A x : x \in Descended(own, Search[s], Search[t], t, q, k)
                <=> \E h \in own : \E first \in Search[s][q][k][h] : x \in after(first)
  BY <1>3
<1>5. PICK h \in own : TRUE
  OBVIOUS
<1>6. PICK first \in Search[s][q][k][h] : TRUE
  BY <1>1
<1>7. PICK x : x \in after(first)
  BY <1>2
<1>8. Descended(own, Search[s], Search[t], t, q, k) # {}
  BY <1>4, <1>7
<1>9. \A found \in Descended(own, Search[s], Search[t], t, q, k) :
          Best(found, Add(Add(seen, Flatten[s]), Flatten[t]), q, k)
  BY <1>2, <1>4
<1> QED
  BY <1>8, <1>9

LEMMA SearchNode ==
    ASSUME NEW t \in Sound, ~IsNil(t), ~t.treeDeleted, Finds(t.l), Finds(t.r)
    PROVE  Finds(t)
<1>1. /\ t \in Trees /\ t.l \in Sound /\ t.r \in Sound /\ ~t.pushdown /\ t.pt \in Points
      /\ t.pt \in Corners /\ t.axis \in Axes /\ t.deleted \in BOOLEAN
  <2>1. t \in NodesOver(Trees) /\ Checked(t) /\ t.l \in Sound /\ t.r \in Sound /\ t \in Trees
    BY SoundNode DEF Sound
  <2>2. ~t.pushdown
    BY <2>1 DEF Checked
  <2> QED
    BY <2>1, <2>2, NodeFields
<1>2. PICK l, r : l = Flatten[t.l] /\ r = Flatten[t.r]
  OBVIOUS
<1>3. l \in Multisets /\ r \in Multisets /\ Flatten[t] \in Multisets
  BY <1>1, <1>2, FlattenType DEF Sound
<1> SUFFICES ASSUME NEW q \in Corners, NEW k \in Nat \ {0},
                    NEW heap \in Multisets, NEW seen \in Multisets, Best(heap, seen, q, k)
             PROVE  /\ Search[t][q][k][heap] # {}
                    /\ \A found \in Search[t][q][k][heap] :
                           Best(found, Add(seen, Flatten[t]), q, k)
  BY DEF Finds
<1>4. PICK own : own = Owned(t, heap, q, k)
  OBVIOUS
<1>5. PICK first : first = IF t.deleted THEN seen ELSE AddOne(seen, t.pt)
  OBVIOUS
<1>6. own # {} /\ \A h \in own : Best(h, first, q, k)
  <2>1. CASE t.deleted
    <3>1. own = {heap} /\ first = seen
      BY <1>4, <1>5, <2>1 DEF Owned
    <3> QED
      BY <3>1
  <2>2. CASE ~t.deleted
    <3>1. own = Offer(heap, t.pt, q, k) /\ first = AddOne(seen, t.pt)
      BY <1>4, <1>5, <2>2 DEF Owned
    <3> QED
      BY <1>1, <3>1, OfferKeeps
  <2> QED
    BY <2>1, <2>2
<1>7. first \in Multisets /\ \A p \in Points : first[p] = seen[p] + Own(t, p)
  <2>1. CASE t.deleted
    BY <1>5, <2>1 DEF Own, Multisets
  <2>2. CASE ~t.deleted
    <3>1. first \in Multisets
      BY <1>1, <1>5, <2>2, TotalAddOne
    <3> QED
      BY <1>1, <1>5, <2>2, <3>1 DEF Own, AddOne, Multisets
  <2> QED
    BY <2>1, <2>2
<1>8. /\ Add(Add(first, l), r) = Add(seen, Flatten[t])
      /\ Add(Add(first, r), l) = Add(seen, Flatten[t])
  <2>1. \A p \in Points : /\ Flatten[t][p] = Own(t, p) + l[p] + r[p]
                          /\ l[p] \in Nat /\ r[p] \in Nat /\ Own(t, p) \in {0, 1}
    BY <1>1, <1>2, FlattenNode
  <2>2. /\ Add(first, l) \in Multisets /\ Add(first, r) \in Multisets
        /\ Add(seen, Flatten[t]) \in Multisets
    BY <1>3, <1>7, TotalAdd
  <2>3. Add(Add(first, l), r) \in Multisets /\ Add(Add(first, r), l) \in Multisets
    BY <1>3, <2>2, TotalAdd
  <2>4. ASSUME NEW p \in Points
        PROVE  /\ Add(Add(first, l), r)[p] = Add(seen, Flatten[t])[p]
               /\ Add(Add(first, r), l)[p] = Add(seen, Flatten[t])[p]
    <3>1. seen[p] \in Nat /\ first[p] = seen[p] + Own(t, p)
      BY <1>7 DEF Multisets
    <3>2. /\ Add(Add(first, l), r)[p] = (first[p] + l[p]) + r[p]
          /\ Add(Add(first, r), l)[p] = (first[p] + r[p]) + l[p]
          /\ Add(seen, Flatten[t])[p] = seen[p] + Flatten[t][p]
      BY DEF Add
    <3> QED
      BY <2>1, <3>1, <3>2
  <2> HIDE DEF Add
  <2> QED
    BY <2>2, <2>3, <2>4, SameBag
<1>9. Search[t][q][k][heap] = IF q[t.axis] < t.pt[t.axis]
                              THEN Descended(own, Search[t.l], Search[t.r], t.r, q, k)
                              ELSE Descended(own, Search[t.r], Search[t.l], t.l, q, k)
  <2>1. Search[t] = SearchOf(t, Search[t.l], Search[t.r])
    BY <1>1, SearchDef
  <2> QED
    BY <1>4, <2>1 DEF SearchOf
<1>10. CASE q[t.axis] < t.pt[t.axis]
  <2>1. PICK answers : answers = Descended(own, Search[t.l], Search[t.r], t.r, q, k)
    OBVIOUS
  <2>2. answers # {} /\ \A found \in answers : Best(found, Add(Add(first, l), r), q, k)
    <3>1. t.l \in Sound /\ t.r \in Sound /\ first \in Multisets
      BY <1>1, <1>7
    <3>2. answers # {} /\ \A found \in answers :
              Best(found, Add(Add(first, Flatten[t.l]), Flatten[t.r]), q, k)
      BY <1>6, <2>1, <3>1, BothFind
    <3> QED
      BY <1>2, <3>2
  <2>3. Search[t][q][k][heap] = answers
    BY <1>9, <1>10, <2>1
  <2> QED
    BY <1>8, <2>2, <2>3
<1>11. CASE ~(q[t.axis] < t.pt[t.axis])
  <2>1. PICK answers : answers = Descended(own, Search[t.r], Search[t.l], t.l, q, k)
    OBVIOUS
  <2>2. answers # {} /\ \A found \in answers : Best(found, Add(Add(first, r), l), q, k)
    <3>1. t.l \in Sound /\ t.r \in Sound /\ first \in Multisets
      BY <1>1, <1>7
    <3>2. answers # {} /\ \A found \in answers :
              Best(found, Add(Add(first, Flatten[t.r]), Flatten[t.l]), q, k)
      BY <1>6, <2>1, <3>1, BothFind
    <3> QED
      BY <1>2, <3>2
  <2>3. Search[t][q][k][heap] = answers
    BY <1>9, <1>11, <2>1
  <2> QED
    BY <1>8, <2>2, <2>3
<1> QED
  BY <1>10, <1>11

\* Whatever is pruned, the heap ends with the nearest of all live points.
LEMMA SearchFinds == \A t \in Sound : Finds(t)
<1> DEFINE S == {t \in Sound : Finds(t)}
<1>1. ASSUME NEW t \in Sound, IsNil(t) \/ t.treeDeleted
      PROVE  Finds(t)
  <2>1. t \in Trees
    BY DEF Sound
  <2>2. Flatten[t] = NoPoints
    BY <1>1, <2>1, FlattenLabelled
  <2>3. ASSUME NEW q \in Corners, NEW k \in Nat \ {0}, NEW heap \in Multisets
        PROVE  Search[t][q][k][heap] = {heap}
    <3>1. Search[t] = SearchOf(t, Search[t.l], Search[t.r])
      BY <2>1, SearchDef
    <3> QED
      BY <1>1, <3>1 DEF SearchOf
  <2>4. \A seen \in Multisets : Add(seen, NoPoints) = seen
    BY BagLaws
  <2> QED
    BY <2>2, <2>3, <2>4 DEF Finds
<1>2. Nil \in S
  <2>1. Nil \in Sound /\ IsNil(Nil)
    BY SoundNil, NilTree
  <2> QED
    BY <1>1, <2>1
<1>3. ASSUME NEW t \in Sound, ~IsNil(t), \A c \in Sound : c.size < t.size => c \in S
      PROVE  t \in S
  <2>1. /\ t.l \in Sound /\ t.r \in Sound /\ t.l.size \in Nat /\ t.r.size \in Nat
        /\ t.size = 1 + t.l.size + t.r.size
    BY <1>3, SoundNode
  <2>2. t.l.size < t.size /\ t.r.size < t.size
    BY <2>1
  <2>3. Finds(t.l) /\ Finds(t.r)
    BY <1>3, <2>1, <2>2
  <2>4. CASE t.treeDeleted
    BY <1>1, <2>4
  <2>5. CASE ~t.treeDeleted
    BY <1>3, <2>3, <2>5, SearchNode
  <2> QED
    BY <2>4, <2>5
<1>4. Sound \subseteq S
  <2> HIDE DEF S
  <2> QED
    BY <1>2, <1>3, SoundInduction
<1> QED
  BY <1>4

\* knn() of any position and any k gives the k nearest live points of a tree in
\* the invariant, or all of them if there are fewer.
LEMMA KnnFinds ==
    ASSUME root \in Sound, NEW q \in Corners, NEW k \in Nat
    PROVE  Answered(q, k)
<1>1. root \in Trees /\ Flatten[root] \in Multisets
  BY FlattenType DEF Sound
<1>2. PICK live : live = Flatten[root]
  OBVIOUS
<1>3. live \in Multisets /\ Total(live) \in Nat
  BY <1>1, <1>2, CopiesAre
<1>4. NoPoints \in Multisets /\ Total(NoPoints) = 0 /\ \A p \in Points : NoPoints[p] = 0
  BY <1>3, BagLaws, TotalNone DEF NoPoints
<1>5. Min({k, Total(live)}) = IF k <= Total(live) THEN k ELSE Total(live)
  <2>1. PICK m : m = Total(live)
    OBVIOUS
  <2>2. m \in Nat
    BY <1>3, <2>1
  <2>3. \E x \in {k, m} : \A y \in {k, m} : x <= y
    BY <2>2
  <2>4. Min({k, m}) \in {k, m} /\ \A y \in {k, m} : Min({k, m}) <= y
    BY <2>3 DEF Min
  <2>5. Min({k, m}) = IF k <= m THEN k ELSE m
    BY <2>2, <2>4
  <2> QED
    BY <2>1, <2>5
<1>6. CASE k = 0
  <2>1. Knn(q, k) = {NoPoints}
    BY <1>6 DEF Knn
  <2>2. Nearest(NoPoints, live, q, k)
    <3>1. \A p \in Points : live[p] \in Nat
      BY <1>3 DEF Multisets
    <3> HIDE DEF NoPoints
    <3> QED
      BY <1>3, <1>4, <1>5, <1>6, <3>1 DEF Nearest
  <2> QED
    BY <1>2, <2>1, <2>2 DEF Answered
<1>7. CASE k # 0
  <2>1. Best(NoPoints, NoPoints, q, k)
    <3> HIDE DEF NoPoints
    <3> QED
      BY <1>4 DEF Best
  <2>2. PICK answers : answers = Search[root][q][k][NoPoints]
    OBVIOUS
  <2>3. Add(NoPoints, live) = live
    <3>1. Add(NoPoints, live) \in Multisets
      BY <1>3, <1>4, TotalAdd
    <3>2. \A p \in Points : Add(NoPoints, live)[p] = live[p]
      BY <1>3, <1>4 DEF Add, Multisets
    <3> QED
      BY <1>3, <3>1, <3>2, SameBag
  <2>4. answers # {} /\ \A found \in answers : Best(found, live, q, k)
    <3>1. k \in Nat \ {0} /\ Finds(root)
      BY <1>7, SearchFinds
    <3> QED
      BY <1>2, <1>4, <2>1, <2>2, <2>3, <3>1 DEF Finds
  <2>5. ASSUME NEW found \in answers
        PROVE  Nearest(found, live, q, k)
    <3>1. /\ found \in Multisets /\ Total(found) \in Nat /\ Total(found) <= k
          /\ \A p \in Points : found[p] <= live[p]
          /\ Total(found) < k => found = live
          /\ \A x, p \in Points : found[x] > 0 /\ found[p] < live[p]
                                      => Dist2(x, q) <= Dist2(p, q)
      BY <2>4, CopiesAre DEF Best
    <3>2. Total(found) <= Total(live)
      <4>1. Total(Minus(live, found)) = Total(live) - Total(found)
            /\ Minus(live, found) \in Multisets
        BY <1>3, <3>1, TotalMinus
      <4>2. Total(Minus(live, found)) \in Nat
        BY <4>1, CopiesAre
      <4> QED
        BY <1>3, <3>1, <4>1, <4>2
    <3>3. Total(found) = Min({k, Total(live)})
      <4>1. CASE Total(found) < k
        <5>1. Total(found) = Total(live)
          BY <3>1, <4>1
        <5> QED
          BY <1>3, <1>5, <4>1, <5>1
      <4>2. CASE ~(Total(found) < k)
        <5>1. Total(found) = k
          BY <3>1, <4>2
        <5> QED
          BY <1>3, <1>5, <3>2, <5>1
      <4> QED
        BY <4>1, <4>2
    <3> QED
      BY <3>1, <3>3 DEF Nearest
  <2>6. Knn(q, k) = answers
    BY <1>7, <2>2 DEF Knn
  <2> QED
    BY <1>2, <2>4, <2>5, <2>6 DEF Answered
<1> QED
  BY <1>6, <1>7

\* KnnIsNearest: pruning by labels and boxes loses no neighbour
\* (ikd_tree.cpp:322-377, ikd_tree.h:41-42).
THEOREM KnnCorrect == ~BuildInFlight => (Spec => []KnnIsNearest)
<1> SUFFICES ASSUME ~BuildInFlight
             PROVE  Spec => []KnnIsNearest
  OBVIOUS
<1>1. Inv => KnnIsNearest
  BY KnnFinds, GeometryAssumption DEF Inv, Sizes, KnnIsNearest
<1>2. Spec => []Inv
  BY InvCorrect
<1> QED
  BY <1>1, <1>2, PTL

\* The same for every position and every k, not only those of Queries.
THEOREM KnnEverywhere ==
    ~BuildInFlight => (Spec => [](\A q \in Corners, k \in Nat : Answered(q, k)))
<1> SUFFICES ASSUME ~BuildInFlight
             PROVE  Spec => [](\A q \in Corners, k \in Nat : Answered(q, k))
  OBVIOUS
<1>1. Inv => \A q \in Corners, k \in Nat : Answered(q, k)
  BY KnnFinds DEF Inv, Sizes
<1>2. Spec => []Inv
  BY InvCorrect
<1> QED
  BY <1>1, <1>2, PTL
=============================================================================
