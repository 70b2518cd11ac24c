----------------------------- MODULE IkdRebuild -----------------------------
(***************************************************************************)
(* The background-rebuild protocol of IkdTree (src/core/map/ikd_tree.cpp): *)
(* a subtree is frozen and a worker builds a replacement from a snapshot   *)
(* of its live points.  The points inserted into it meanwhile are applied  *)
(* in place and logged.  At the next mutation after the worker is done the *)
(* log is replayed onto the replacement and the replacement swapped in.    *)
(*                                                                         *)
(* Abstracted: the shape of the tree.  The live points are split into      *)
(* those under the frozen slot and the rest; which subtree is frozen, and  *)
(* whether an inserted point lands in it, are nondeterministic.  IkdTree   *)
(* models the shape and is checked to implement this module.               *)
(*                                                                         *)
(* An insert(points) call is InsertBegin followed by one InsertStep per    *)
(* point, since the worker may finish between two of them; a call for a    *)
(* single point is a batch of one.  build() is called with no rebuild in   *)
(* flight: the other case is in IkdTree.                                   *)
(***************************************************************************)
EXTENDS PointBags

CONSTANTS
    Regions,   \* the sets of points a delete box may cover
    Batches,   \* the sequences of points given to build() and insert()
    MaxCopies  \* bound: the most live copies of a point

ASSUME RegionsAssumption == Regions \subseteq SUBSET Points
ASSUME BatchesAssumption == Batches \subseteq Seq(Points)
ASSUME MaxCopiesAssumption == MaxCopies \in Nat

VARIABLES
    rest,      \* live points outside the frozen slot
    frozen,    \* live points of the subtree at frozen_slot_
    snapshot,  \* the copy of them the worker was started with
    log,       \* pending_inserts_, as a multiset
    worker,    \* rebuild_future_: "idle" (none), "building" or "ready"
    batch      \* what insert() has still to insert

vars == <<rest, frozen, snapshot, log, worker, batch>>

\* What flatten() finds: the points that queries see.
Live == Add(rest, frozen)

SettledUnreplayed == Add(rest, snapshot)  \* mutant

\* The live points once the log is replayed and the replacement swapped in.
Settled == Add(rest, Add(snapshot, log))

Fits(b) == \A p \in Points : b[p] <= MaxCopies
-----------------------------------------------------------------------------
Init ==
    /\ rest = NoPoints
    /\ frozen = NoPoints
    /\ snapshot = NoPoints
    /\ log = NoPoints
    /\ worker = "idle"
    /\ batch = <<>>

\* The tree holds exactly b and nothing is frozen.
Unfrozen(b) ==
    /\ rest' = b
    /\ frozen' = NoPoints
    /\ snapshot' = NoPoints
    /\ log' = NoPoints
    /\ worker' = "idle"

\* start_async_rebuild() on some subtree of a tree that holds exactly b.
StartAsyncRebuild(b) ==
    /\ frozen' \in Parts(b)
    /\ rest' = Minus(b, frozen')
    /\ snapshot' = frozen'
    /\ log' = NoPoints
    /\ worker' = "building"

\* A mutation has left exactly b with nothing in flight; maybe_rebuild() may
\* start a background rebuild (a synchronous one changes no live point).
MaybeRebuild(b) == Unfrozen(b) \/ StartAsyncRebuild(b)

\* try_finalize_rebuild() when the worker is done.
FinalizeRebuild == Unfrozen(Settled)

WorkerDone ==
    /\ worker = "building"
    /\ worker' = "ready"
    /\ UNCHANGED <<rest, frozen, snapshot, log, batch>>

InsertBegin(points) ==
    /\ batch = <<>>
    /\ Fits(Add(Live, Count(points)))
    /\ batch' = points
    /\ IF worker = "ready"
       THEN FinalizeRebuild
       ELSE UNCHANGED <<rest, frozen, snapshot, log, worker>>

\* insert_at() on a tree with nothing in flight.
InsertThawed ==
    /\ batch # <<>>
    /\ worker = "idle"
    /\ MaybeRebuild(AddOne(rest, Head(batch)))
    /\ batch' = Tail(batch)

\* insert_at() whose path misses the subtree under rebuild.
InsertBeside ==
    /\ batch # <<>>
    /\ worker # "idle"
    /\ rest' = AddOne(rest, Head(batch))
    /\ batch' = Tail(batch)
    /\ UNCHANGED <<frozen, snapshot, log, worker>>

InsertFrozenUnlogged ==  \* mutant
    /\ batch # <<>>
    /\ worker # "idle"
    /\ frozen' = AddOne(frozen, Head(batch))
    /\ batch' = Tail(batch)
    /\ UNCHANGED <<rest, snapshot, log, worker>>

\* insert_at() that enters the subtree under rebuild: applied and logged.
InsertFrozen ==
    /\ batch # <<>>
    /\ worker # "idle"
    /\ frozen' = AddOne(frozen, Head(batch))
    /\ log' = AddOne(log, Head(batch))
    /\ batch' = Tail(batch)
    /\ UNCHANGED <<rest, snapshot, worker>>

\* remove_box() blocks until the worker is done and finalizes before deleting.
RemoveBox(R) ==
    /\ batch = <<>>
    /\ worker # "building"
    /\ MaybeRebuild(Outside(Settled, R))
    /\ UNCHANGED batch

FinishPendingRebuild ==
    /\ batch = <<>>
    /\ worker = "ready"
    /\ FinalizeRebuild
    /\ UNCHANGED batch

\* build(): LocalMap::insert calls it only when size() is 0.
Build(points) ==
    /\ batch = <<>>
    /\ worker = "idle"
    /\ rest = NoPoints
    /\ Fits(Count(points))
    /\ Unfrozen(Count(points))
    /\ UNCHANGED batch

Next ==
    \/ WorkerDone
    \/ \E points \in Batches : InsertBegin(points)
    \/ InsertThawed
    \/ InsertBeside
    \/ InsertFrozen
    \/ \E R \in Regions : RemoveBox(R)
    \/ FinishPendingRebuild
    \/ \E points \in Batches : Build(points)

Spec == Init /\ [][Next]_vars
-----------------------------------------------------------------------------
TypeOK ==
    /\ rest \in Multisets
    /\ frozen \in Multisets
    /\ snapshot \in Multisets
    /\ log \in Multisets
    /\ worker \in {"idle", "building", "ready"}
    /\ batch \in Seq(Points)

\* While a rebuild is in flight the snapshot and the log together are exactly
\* what the frozen subtree holds, so that the swap changes no live point; with
\* none in flight no frozen point, snapshot or log is left over
\* (ikd_tree.cpp:171-183).
ReplayRestoresFrozen ==
    IF worker = "idle"
    THEN frozen = NoPoints /\ snapshot = NoPoints /\ log = NoPoints
    ELSE frozen = Add(snapshot, log)

Map == INSTANCE PointMap WITH content <- Live, Loads <- {Count(s) : s \in Batches}

\* Whatever the worker's timing, users see the abstract map: a finalize, a
\* worker step or the start of a rebuild changes no live point
\* (ikd_tree.h:68-70).
ImplementsPointMap == Map!Spec
=============================================================================
