-------------------------- MODULE IkdRebuildProofs --------------------------
(***************************************************************************)
(* Proofs about the background-rebuild protocol, for every set of points,  *)
(* regions and batches: types, the agreement of snapshot and log with the  *)
(* frozen subtree, and the implementation of PointMap.                     *)
(***************************************************************************)
EXTENDS IkdRebuild, FiniteSetTheorems, TLAPS

-----------------------------------------------------------------------------
(* Multisets *)

\* The operators on multisets give multisets.
LEMMA MultisetOps ==
    ASSUME NEW b \in Multisets, NEW c \in Multisets, NEW p \in Points, NEW R
    PROVE  /\ NoPoints \in Multisets
           /\ Add(b, c) \in Multisets
           /\ AddOne(b, p) \in Multisets
           /\ Outside(b, R) \in Multisets
  BY DEF Multisets, NoPoints, Add, AddOne, Outside

\* A part of a multiset and what remains of it are multisets that add up to it.
LEMMA PartsSplit ==
    ASSUME NEW b \in Multisets, NEW part \in Parts(b)
    PROVE  /\ part \in Multisets
           /\ Minus(b, part) \in Multisets
           /\ Add(Minus(b, part), part) = b
  <1>1. part \in Multisets /\ \A p \in Points : part[p] <= b[p]
    BY DEF Parts, Multisets
  <1>2. QED
    BY <1>1 DEF Multisets, Minus, Add

\* Adding the empty multiset changes nothing, and one more point can be added
\* on either side of a sum.
LEMMA AddLaws ==
    ASSUME NEW b \in Multisets, NEW c \in Multisets, NEW p \in Points
    PROVE  /\ Add(b, NoPoints) = b
           /\ Add(AddOne(b, p), c) = AddOne(Add(b, c), p)
           /\ Add(b, AddOne(c, p)) = AddOne(Add(b, c), p)
  <1> USE DEF Multisets, NoPoints, Add, AddOne
  <1>1. Add(b, NoPoints) = b
    OBVIOUS
  <1>2. \A x \in Points : /\ Add(AddOne(b, p), c)[x] = AddOne(Add(b, c), p)[x]
                          /\ Add(b, AddOne(c, p))[x] = AddOne(Add(b, c), p)[x]
    OBVIOUS
  <1>3. /\ Add(AddOne(b, p), c) \in Multisets
        /\ Add(b, AddOne(c, p)) \in Multisets
        /\ AddOne(Add(b, c), p) \in Multisets
    OBVIOUS
  <1>4. QED
    BY <1>1, <1>2, <1>3

\* A finite sequence of points has a multiset of occurrences.
LEMMA CountType ==
    ASSUME NEW s \in Seq(Points)
    PROVE  Count(s) \in Multisets
  <1>1. SUFFICES ASSUME NEW p \in Points
                 PROVE  Cardinality({i \in 1..Len(s) : s[i] = p}) \in Nat
    BY <1>1 DEF Count, Multisets
  <1>2. IsFiniteSet(1..Len(s))
    BY FS_Interval
  <1>3. IsFiniteSet({i \in 1..Len(s) : s[i] = p})
    BY <1>2, FS_Subset
  <1>4. QED
    BY <1>3, FS_CardinalityType

-----------------------------------------------------------------------------
(* Types *)

\* Whichever way a mutation ends, the five components are well typed.
LEMMA MaybeRebuildType ==
    ASSUME NEW b \in Multisets, MaybeRebuild(b)
    PROVE  /\ rest' \in Multisets
           /\ frozen' \in Multisets
           /\ snapshot' \in Multisets
           /\ log' \in Multisets
           /\ worker' \in {"idle", "building", "ready"}
  <1>1. NoPoints \in Multisets
    BY DEF NoPoints, Multisets
  <1>2. CASE Unfrozen(b)
    BY <1>1, <1>2 DEF Unfrozen
  <1>3. CASE StartAsyncRebuild(b)
    BY <1>1, <1>3, PartsSplit DEF StartAsyncRebuild
  <1>4. QED
    BY <1>2, <1>3 DEF MaybeRebuild

\* Every variable keeps its type.
THEOREM TypeCorrect == Spec => []TypeOK
  <1>1. Init => TypeOK
    BY DEF Init, TypeOK, NoPoints, Multisets
  <1>2. TypeOK /\ [Next]_vars => TypeOK'
    <2> SUFFICES ASSUME TypeOK, [Next]_vars
                 PROVE  TypeOK'
      OBVIOUS
    <2> USE DEF TypeOK
    <2>1. Settled \in Multisets
      BY DEF Settled, Add, Multisets
    <2>2. CASE WorkerDone
      BY <2>2 DEF WorkerDone
    <2>3. ASSUME NEW points \in Batches, InsertBegin(points)
          PROVE  TypeOK'
      <3>1. batch' \in Seq(Points)
        BY <2>3, BatchesAssumption DEF InsertBegin
      <3>2. QED
        BY <2>1, <2>3, <3>1, MaybeRebuildType
           DEF InsertBegin, FinalizeRebuild, MaybeRebuild
    <2>4. ASSUME batch # <<>>
          PROVE  Head(batch) \in Points /\ Tail(batch) \in Seq(Points)
      BY <2>4
    <2>5. CASE InsertThawed
      <3>1. AddOne(rest, Head(batch)) \in Multisets
        BY <2>4, <2>5 DEF InsertThawed, AddOne, Multisets
      <3>2. QED
        BY <2>4, <2>5, <3>1, MaybeRebuildType DEF InsertThawed
    <2>6. CASE InsertBeside
      BY <2>4, <2>6, MultisetOps DEF InsertBeside
    <2>7. CASE InsertFrozen
      BY <2>4, <2>7, MultisetOps DEF InsertFrozen
    <2>8. ASSUME NEW R \in Regions, RemoveBox(R)
          PROVE  TypeOK'
      <3>1. Outside(Settled, R) \in Multisets
        BY <2>1 DEF Outside, Multisets
      <3>2. QED
        BY <2>8, <3>1, MaybeRebuildType DEF RemoveBox
    <2>9. CASE FinishPendingRebuild
      BY <2>1, <2>9, MaybeRebuildType
         DEF FinishPendingRebuild, FinalizeRebuild, MaybeRebuild
    <2>10. ASSUME NEW points \in Batches, Build(points)
           PROVE  TypeOK'
      <3>1. Count(points) \in Multisets
        BY CountType, BatchesAssumption
      <3>2. QED
        BY <2>10, <3>1, MaybeRebuildType DEF Build, MaybeRebuild
    <2>11. CASE UNCHANGED vars
      BY <2>11 DEF vars
    <2>12. QED
      BY <2>2, <2>3, <2>5, <2>6, <2>7, <2>8, <2>9, <2>10, <2>11 DEF Next
  <1>3. QED
    BY <1>1, <1>2, PTL DEF Spec

-----------------------------------------------------------------------------
(* Log and replay *)

\* Whichever way a mutation ends, a snapshot just taken is the frozen subtree.
LEMMA MaybeRebuildReplays ==
    ASSUME NEW b \in Multisets, MaybeRebuild(b)
    PROVE  ReplayRestoresFrozen'
  <1>1. CASE Unfrozen(b)
    BY <1>1 DEF Unfrozen, ReplayRestoresFrozen
  <1>2. CASE StartAsyncRebuild(b)
    <2>1. frozen' \in Multisets
      BY <1>2, PartsSplit DEF StartAsyncRebuild
    <2>2. Add(frozen', NoPoints) = frozen'
      BY <2>1 DEF Add, NoPoints, Multisets
    <2>3. QED
      BY <1>2, <2>2 DEF StartAsyncRebuild, ReplayRestoresFrozen
  <1>3. QED
    BY <1>1, <1>2 DEF MaybeRebuild

\* While a rebuild is in flight, snapshot and log add up to the frozen subtree.
THEOREM ReplayCorrect == Spec => []ReplayRestoresFrozen
  <1>1. Init => ReplayRestoresFrozen
    BY DEF Init, ReplayRestoresFrozen
  <1>2. TypeOK /\ ReplayRestoresFrozen /\ [Next]_vars => ReplayRestoresFrozen'
    <2> SUFFICES ASSUME TypeOK, ReplayRestoresFrozen, [Next]_vars
                 PROVE  ReplayRestoresFrozen'
      OBVIOUS
    <2> USE DEF TypeOK
    <2>1. Settled \in Multisets
      BY DEF Settled, Add, Multisets
    <2>2. CASE WorkerDone
      BY <2>2 DEF WorkerDone, ReplayRestoresFrozen
    <2>3. ASSUME NEW points \in Batches, InsertBegin(points)
          PROVE  ReplayRestoresFrozen'
      <3>1. CASE worker = "ready"
        BY <2>1, <2>3, <3>1, MaybeRebuildReplays
           DEF InsertBegin, FinalizeRebuild, MaybeRebuild
      <3>2. CASE worker # "ready"
        BY <2>3, <3>2 DEF InsertBegin, ReplayRestoresFrozen
      <3>3. QED
        BY <3>1, <3>2
    <2>4. CASE InsertThawed
      <3>1. AddOne(rest, Head(batch)) \in Multisets
        BY <2>4 DEF InsertThawed, AddOne, Multisets
      <3>2. QED
        BY <2>4, <3>1, MaybeRebuildReplays DEF InsertThawed
    <2>5. CASE InsertBeside
      BY <2>5 DEF InsertBeside, ReplayRestoresFrozen
    <2>6. CASE InsertFrozen
      <3>1. Head(batch) \in Points
        BY <2>6 DEF InsertFrozen
      <3>2. AddOne(Add(snapshot, log), Head(batch)) = Add(snapshot, AddOne(log, Head(batch)))
        BY <3>1, AddLaws
      <3>3. QED
        BY <2>6, <3>2 DEF InsertFrozen, ReplayRestoresFrozen
    <2>7. ASSUME NEW R \in Regions, RemoveBox(R)
          PROVE  ReplayRestoresFrozen'
      <3>1. Outside(Settled, R) \in Multisets
        BY <2>1 DEF Outside, Multisets
      <3>2. QED
        BY <2>7, <3>1, MaybeRebuildReplays DEF RemoveBox
    <2>8. CASE FinishPendingRebuild
      BY <2>1, <2>8, MaybeRebuildReplays
         DEF FinishPendingRebuild, FinalizeRebuild, MaybeRebuild
    <2>9. ASSUME NEW points \in Batches, Build(points)
          PROVE  ReplayRestoresFrozen'
      <3>1. Count(points) \in Multisets
        BY CountType, BatchesAssumption
      <3>2. QED
        BY <2>9, <3>1, MaybeRebuildReplays DEF Build, MaybeRebuild
    <2>10. CASE UNCHANGED vars
      BY <2>10 DEF vars, ReplayRestoresFrozen
    <2>11. QED
      BY <2>2, <2>3, <2>4, <2>5, <2>6, <2>7, <2>8, <2>9, <2>10 DEF Next
  <1>3. QED
    BY <1>1, <1>2, TypeCorrect, PTL DEF Spec

-----------------------------------------------------------------------------
(* Refinement *)

\* A mutation that leaves exactly b live shows b to the users, whether or not
\* it starts a rebuild.
LEMMA MaybeRebuildShows ==
    ASSUME NEW b \in Multisets, MaybeRebuild(b)
    PROVE  Live' = b
  <1>1. CASE Unfrozen(b)
    BY <1>1 DEF Unfrozen, Live, Add, NoPoints, Multisets
  <1>2. CASE StartAsyncRebuild(b)
    BY <1>2, PartsSplit DEF StartAsyncRebuild, Live
  <1>3. QED
    BY <1>1, <1>2 DEF MaybeRebuild

\* Replaying the log and swapping gives the points the users already see.
LEMMA SettledIsLive ==
    ASSUME TypeOK, ReplayRestoresFrozen
    PROVE  Settled = Live /\ Settled \in Multisets
  <1>1. CASE worker = "idle"
    BY <1>1 DEF TypeOK, ReplayRestoresFrozen, Settled, Live, Add, NoPoints, Multisets
  <1>2. CASE worker # "idle"
    BY <1>2 DEF TypeOK, ReplayRestoresFrozen, Settled, Live, Add, Multisets
  <1>3. QED
    BY <1>1, <1>2

\* The protocol implements the abstract map.
THEOREM RefinesPointMap == Spec => ImplementsPointMap
  <1>1. Init => Map!Init
    BY DEF Init, Map!Init, Live, Add, NoPoints, Map!NoPoints
  <1>2. TypeOK /\ ReplayRestoresFrozen /\ [Next]_vars => [Map!Next]_Live
    <2> SUFFICES ASSUME TypeOK, ReplayRestoresFrozen, [Next]_vars
                 PROVE  Map!Next \/ Live' = Live
      OBVIOUS
    <2> USE DEF TypeOK
    <2>1. Settled = Live /\ Settled \in Multisets
      BY SettledIsLive
    <2>2. CASE WorkerDone
      BY <2>2 DEF WorkerDone, Live
    <2>3. ASSUME NEW points \in Batches, InsertBegin(points)
          PROVE  Live' = Live
      <3>1. CASE worker = "ready"
        BY <2>1, <2>3, <3>1, MaybeRebuildShows
           DEF InsertBegin, FinalizeRebuild, MaybeRebuild
      <3>2. CASE worker # "ready"
        BY <2>3, <3>2 DEF InsertBegin, Live
      <3>3. QED
        BY <3>1, <3>2
    <2>4. ASSUME batch # <<>>, Live' = AddOne(Live, Head(batch))
          PROVE  Map!Next
      <3>1. Head(batch) \in Points
        BY <2>4
      <3>2. Map!Insert(Head(batch))
        BY <2>4 DEF Map!Insert, Map!AddOne, AddOne
      <3>3. QED
        BY <3>1, <3>2 DEF Map!Next
    <2>5. CASE InsertThawed
      <3>1. Head(batch) \in Points /\ AddOne(rest, Head(batch)) \in Multisets
        BY <2>5 DEF InsertThawed, AddOne, Multisets
      <3>2. Live' = AddOne(rest, Head(batch))
        BY <2>5, <3>1, MaybeRebuildShows DEF InsertThawed
      <3>3. frozen = NoPoints
        BY <2>5 DEF InsertThawed, ReplayRestoresFrozen
      <3>4. Live = rest
        BY <3>1, <3>3, AddLaws DEF Live
      <3>5. QED
        BY <2>4, <2>5, <3>2, <3>4 DEF InsertThawed
    <2>6. CASE InsertBeside
      <3>1. Head(batch) \in Points
        BY <2>6 DEF InsertBeside
      <3>2. Live' = AddOne(Live, Head(batch))
        BY <2>6, <3>1, AddLaws DEF InsertBeside, Live
      <3>3. QED
        BY <2>4, <2>6, <3>2 DEF InsertBeside
    <2>7. CASE InsertFrozen
      <3>1. Head(batch) \in Points
        BY <2>7 DEF InsertFrozen
      <3>2. Live' = AddOne(Live, Head(batch))
        BY <2>7, <3>1, AddLaws DEF InsertFrozen, Live
      <3>3. QED
        BY <2>4, <2>7, <3>2 DEF InsertFrozen
    <2>8. ASSUME NEW R \in Regions, RemoveBox(R)
          PROVE  Map!Next
      <3>1. Outside(Settled, R) \in Multisets
        BY <2>1 DEF Outside, Multisets
      <3>2. Live' = Outside(Live, R)
        BY <2>1, <2>8, <3>1, MaybeRebuildShows DEF RemoveBox
      <3>3. QED
        BY <3>2 DEF Map!Next, Map!RemoveBox, Map!Outside, Outside
    <2>9. CASE FinishPendingRebuild
      BY <2>1, <2>9, MaybeRebuildShows
         DEF FinishPendingRebuild, FinalizeRebuild, MaybeRebuild
    <2>10. ASSUME NEW points \in Batches, Build(points)
           PROVE  Map!Next
      <3>1. Live' = Count(points)
        BY <2>10, CountType, BatchesAssumption, MaybeRebuildShows DEF Build, MaybeRebuild
      <3>2. QED
        BY <3>1 DEF Map!Next, Map!Build
    <2>11. CASE UNCHANGED vars
      BY <2>11 DEF vars, Live
    <2>12. QED
      BY <2>2, <2>3, <2>5, <2>6, <2>7, <2>8, <2>9, <2>10, <2>11 DEF Next
  <1>3. QED
    BY <1>1, <1>2, TypeCorrect, ReplayCorrect, PTL DEF Spec, ImplementsPointMap, Map!Spec
=============================================================================
