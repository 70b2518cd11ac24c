# TLA+ verification of lidar-slam

TLA+ models of the control of `lidar-slam`, a LiDAR-inertial SLAM program in the
style of FAST-LIO2: the incremental k-d tree with its background rebuilds, the
sliding local map, the scan queue with its IMU windows, the iterated filter
update that ties them together, and the program around them: configuration, bag
reader, decoders and output files. Each module is translated from the C++ under
`src/core`, `src/io` and `src/main.cpp`; the linear algebra is abstracted to its
outcomes and to which blocks of the state it couples. TLC checks small instances,
TLAPS proves the theorems listed below for every value of the constants.

    tlc  -config SlamPipeline.cfg MCSlamPipeline   # one run; each cfg names its questions
    tlapm SlamPipelineProofs.tla                   # one proof module

## The system

One thread takes the parameters and the calibration, opens the bag, empties the
output files, reads the bag and calls back on every message (`main.cpp:108-222`):

    bag -> gt.tum
        -> add_imu  -> ImuBuffer, static initialization -> IteratedEkf is created
        -> add_scan -> pending_
        -> take_ready: while the head of pending_ is covered by IMU
              trajectory -> deskew -> voxel downsample -> process_scan
                 predict -> iterate { knn, planes, gate, correct } -> LocalMap
                                                     insert -> IkdTree build/insert
                                                     recenter -> IkdTree remove_box
             results -> trajectory.tum, estimate_gt.tum

The only other thread is the worker that builds the replacement of a subtree
(`ikd_tree.cpp:151-160`). It shares no memory with the main thread; what makes
it hard is that its result is applied, at some later mutation, to a tree that
has changed meanwhile.

| Component | State | Operations | Hard part | Correct when |
|---|---|---|---|---|
| `IkdTree` | nodes with cached size, box, labels; `frozen_slot_`, `frozen_ancestors_`, `pending_inserts_`, the future | build, insert, remove_box, knn, finish_pending_rebuild | stale snapshot against in-place mutation, pointers into the tree, lazy labels | it is the multiset of live points, whatever the worker's timing |
| `LocalMap` | the tree, the cube | insert, recenter | the cube is cropped only when it slides | bounded, spaced, and never loses what is observed |
| `SlamPipeline` | IMU buffer, `pending_`, `last_ref_`, the filter | add_imu, add_scan, take_ready | head-of-line waiting, overlapping and out-of-order scans, an uncaught throw | results advance, no cloud is lost or processed twice, every cloud leaves |
| `ImuBuffer` | samples | push, covers, get_between | boundaries on, between and outside samples | a window begins at t0, holds every sample inside once, never extrapolates |
| `IteratedEkf` | state, covariance, map | process_scan | three ways out of the loop, with or without a gain | state, covariance, report and map belong together |
| propagation, measurement | none (the covariance is the filter's) | propagate_with_covariance, build_measurement | an error in one block shows only scans later, as a state that never converges | every unobserved block is coupled with an observed one, a pinned extrinsic with none |
| deskew | none | build_scan_trajectory, interpolate_pose, deskew | the trajectory and the filter's window are cut separately | every point gets the pose of its instant, all are moved to the instant of the prediction |
| `BagReader` | connections, topic filter, file position | construct, read_messages | a file that ends anywhere, chunks that do not unpack | the selected messages once each, in order, or an error |
| cloud decoders | none | deserialize_pointcloud2, deserialize_livox_custommsg | three clocks and units for the time of a point | offsets from the stamp, whatever the format |
| voxel grid | none | voxel_downsample | negative coordinates, the packed key | one centroid per occupied cube |
| configuration, loaders | none | load_params, load_*_calibration, make_loader | typos, forms, aliases, defaults | what is set is in effect or warned about |
| `main`, `ResultWriter` | stage, output files | the callback, handle_results | an exception anywhere, buffered rows | the files follow the results |
| static initializer, association, outlier gate, timestamps | none | pure functions | | their outcomes are inputs of the models above |
| visualizer, experiments | | | | not modelled, see below |

## Modules

**`PointBags`** multisets of map points and their operators; **`PointMap`** the
abstract map: insert adds a copy, a box-delete empties a region, build replaces.

**`IkdRebuild`** the protocol between the tree and its worker, without shape:
live points inside and outside the frozen slot (`frozen`, `rest`), the worker's
`snapshot`, the `log` (`pending_inserts_`). Actions are the public calls and
`WorkerDone`; a call of `insert(points)` is one step per point because the
worker may finish in between. Which subtree is frozen and where a point lands
are nondeterministic. It implements `PointMap` (`ImplementsPointMap`).

**`IkdTree`** the nodes themselves. A slot is a path from the root;
`PullUp`, `PushDown`, `NeedsRebuild`, `BuildRange`, `InsertAt`, `RemoveBoxAt`,
`Landed` and `Search` are the functions of the same names in `ikd_tree.cpp`
(`Landed` is the tail of `try_finalize_rebuild`, `Unwind` is `maybe_rebuild`
with the recording of ancestors after it). They are recursive functions, over
the trees of at most `MaxNodes` nodes or over a number of points, so that they
can be proved about. `nth_element` leaves ties open, so `BuildRange` returns a set
of trees; the heap of `search` is the multiset of its points, and a tie at its
front makes the outcome of `Search` a set as well. It implements `IkdRebuild`
(`ImplementsProtocol`, with `rest` and `frozen` cut out of the tree by the
refinement mapping at the end of the module).

**`LocalMap`** the tree as a set of live points, each with the scan that brought
it; one action, `ProcessScan`, is the `insert()` and `recenter()` at the end of
`process_scan`. The pose estimate is nondeterministic and may jump. Points of a
scan are assumed within `sensor_range` of the sensor: the code does not filter
by it, it is the meaning the header gives the parameter.

**`ImuBuffer`** `covers`, `get_between` and `interpolate` on the sequence of
stamps. **`SlamPipeline`** the callback and the queue over it: `OnImu` is
`add_imu`, `OnCloud` is `add_scan`, and each iteration of `take_ready` is one of
`DrainDone`, `Discard`, `AwaitImu`, `Process`, `Throw`. `discarded`, `results`
and `windows` are histories. Time is an integer; `Shifted` is the unsigned and
32-bit arithmetic of the stamp shift, with the wrap at a small constant.

**`IteratedEkf`** `process_scan` around the loop of `iterated_update`: an
estimate is named by its scan and the number of corrections, a covariance by
the estimate it belongs to. The number of rows, the gate and the tolerance are
nondeterministic within what map and scan allow.

**`ErrorCoupling`** extends `IteratedEkf` with the nonzero blocks of the
covariance: `Transition` and `ProcessNoise` are `F_c` and `Q_d` by blocks,
`Propagated` is `F_d P F_d^T + Q_d`, `Observed` the blocks of a row of `H`,
`Corrected`, `Gain` and `Updated` the gain and `(I - K H) P`. `Propagate` is one
IMU interval; the steps of a scan are those of `IteratedEkf`, with the covariance
and the set `moved` of blocks some correction may have changed beside them.

**`Deskew`** the stamps of `build_scan_trajectory` and what `interpolate_pose`
makes of an instant: the poses it lies between and the instant it stands for.
`SlamPipeline` uses it for the reference of each scan.

**`BagReader`** the two passes over a bag. A bag is its records and where the file
ends: between two records, inside a header, or inside data. Actions are the
record-wise steps of `scan_connections`, `read_messages` and `process_chunk`, each
with the ways it throws. A frame that ends early leaves zeros where its missing
records were; the loss is taken to begin at a record.

**`CloudDecoder`** `find`, the readers of datatypes, the two time modes and the
Livox message. The drivers are external: `OnWire` puts a sweep on the wire the way
each decoder expects it. The time of a point counts parts of a tick, and a double
of seconds has every `FloatStep`-th of them: the driver of the Hesai LiDAR sends the
nearest one and `to_sec` rounds the stamp (`Rounded`, `ToSec`), so that an offset is
off by up to one step before it is truncated.
**`VoxelGrid`** `voxel_downsample` with keys of `KeySpan` indices per axis; points are
integer coordinates, a centroid the number and sum of its points. **`Config`**
`load_params` on a file as sections of keys with good and bad values,
`Schema` being the keys the code looks for; the calibration files with their
aliases, and the three loaders.

**`Program`** composes `Config`, `CloudDecoder`, `VoxelGrid`, an instance of
`BagReader` and one of `SlamPipeline`. Its actions are the statements of `main`:
`ParseArgs`, `ReadParams`, `Load`, `OpenBag`, `OpenOutputs`; then the reader's own
steps (`ReadOn`) between callbacks (`OnGt`, `OnImu`, `OnLidar`, and `Torn` for a
message too short for its type), the loop of `take_ready` with `handle_results`
(`TakeReady`), and `Finish`. An exception (`Fail`) leaves a prefix of the rows of
each file, since streams are buffered.

`MC*` modules give the constants values. `*Proofs` modules hold the theorems.

## Runs

| Run | Shows | States |
|---|---|---|
| `ikd_rebuild` | snapshot plus log equals the frozen subtree (`ReplayRestoresFrozen`); freezes, worker steps and swaps are invisible (`ImplementsPointMap`) | 2 thousand |
| `ikd_async` | cached attributes (`Validate`), slot and ancestor pointers (`AncestorsCaptured`, `NothingMovesInFlight`) stay right through freeze, mutation and swap; the tree follows the protocol (`ImplementsProtocol`) | 105 thousand |
| `ikd_sync` | `KnnIsNearest` against exhaustive search; `BalancedWithoutWorker` | 24 thousand |
| `pipeline` | `ResultsAdvance`, `EveryCloudAccounted`, `HeadWaitsForImu`, `OnlyLongScansThrow`, `OnlyExactHitLosesTail`, `WindowsSound`; every point gets the pose of its instant (`PosesSound`) and is moved to the instant of the prediction (`PointsMeetPrediction`); clouds leave (`CloudsLeave`) | 60 thousand |
| `local_map` | `MapInsideCube`, `CubeCoversRange`, `ObservedPointsStay`, `ScansSpaced` | 16 thousand |
| `ekf_update` | `CovarianceFollowsState`, `ReportExplainsStop`, `MapHoldsPosteriors`, `BareMapCorrectsNothing`, and that scans end (`ScansEnd`); which blocks scans can and cannot correct (`HiddenStatesReached`, `PinnedExtrinsicStays`) | 160 thousand |
| `program` | the callback gets every selected message of a readable bag (`BagReadWhole`); the files hold what was processed, and a prefix after a failure (`FilesFollowResults`); who is left at the end of the bag (`OnlyTailUnreported`); `SweepsNormalized`, `CentroidsPartition`, `SettingsInEffect`; every invocation ends (`ProgramEnds`) | 18 thousand |
| `imu_endpoint`, `build_in_flight`, `nested_pushdown`, `voxel_spacing`, `scan_seed` | statements of comments that the code does not keep, see Findings | to the counterexample |

**Bounds.** `IkdTree`: `kMinRebuildSize` 2 and `kParallelRebuildSize` 3 instead
of 10 and 1500, so that trees of six nodes freeze an inner subtree below
recorded ancestors, take inserts into and beside it, and land; the synchronous
run has eight nodes and no worker. Four points in two dimensions split on both
axes and tie on one; batches of up to two points let the worker finish between
them. `SlamPipeline`: seven ticks of IMU at distances of one or two, three clouds
out of seven kinds: untimed, instantaneous, overlapping, out of order, on and
off IMU stamps, wrapped by the offset, and longer than the IMU history (the one
that throws). `LocalMap`: four scans at positions that stay, slide along one or
both axes or jump past the cube. `IteratedEkf`: three scans of at most two
points, neighborhoods of two, up to three iterations; two IMU intervals are
counted, the distance from every block to an observed one. `Program`: an NTU
VIRAL, a HILTI and a FAST-LIVO2 invocation, and around them those that differ in
one thing: parameter files that are a list, have typos at both levels, a section
that is a list or a scalar, or bad values; calibration files missing, aliased or
bad; no bag and two bags; every place the file can end; chunks that do not unpack
or end early; torn messages; every order of four IMU samples, early and late
sweeps and ground truth after the start. `Parts` is 2 and `FloatStep` 3: doubles
are further apart than ticks and no stamp is half way between two, as in the code,
where they are 2^13 and 5^9 (a step of 238 ns) for stamps from 2004 to 2038; with no
slack for that step the run finds sweeps that miss. `OffsetLimit` is 5 ticks instead of 2^32
ns, `KeySpan` 4 instead of 2^21 with points inside, on the faces of and outside the
range. `MaxSteps`, `MaxCopies`, `MaxNodes`,
`MaxScans` and `Horizon` are the only bounds that are not the program's; they
bound histories and queues, which the proofs do not.

Deadlock is not checked where the bounded bag or number of scans ends
(`SlamPipeline`, `LocalMap`, `IteratedEkf`), and in `Program`, which ends; the
trees never stop.

**Fairness.** `SlamPipeline`: `WF(Drain)`, since `take_ready` runs to its end in
the callback, and `WF` of the arrival of IMU samples up to the horizon, since
the reader goes on to the end of the bag. `IteratedEkf`: `WF(ProcessScan)`, since
it is sequential code that waits for nothing. `Program`: `WF(Next)`, for the same
reason; a bag is finite. The tree's properties are safety
properties and assume nothing of the worker, which may never finish.

## Proofs

All for arbitrary constants within the named assumptions of each module; no
bound on copies, scans, times or iterations is used, and the bound on the nodes of
the tree is an arbitrary number. Every invariant and action property a passing
run checks is proved, those of the concrete tree under the hypotheses named below.

* `IkdRebuildProofs`: `TypeCorrect`, `ReplayCorrect`, `RefinesPointMap`. The
  invariant is type correctness with `frozen = snapshot + log` while a rebuild
  is in flight and nothing left over otherwise. It is inductive because inserts
  into the subtree extend both sides and box-deletes land the rebuild first.
  Under it `Settled = Live`, so a landing maps to a stutter of `PointMap`, and
  every other step to a stutter, an insert, a box-delete or a build.
* `IkdTreeLemmas`: the trees. Trees are defined up to a height, so induction over
  them is induction over a natural number (`Induct`, `SoundInduction`), which is
  proved from the well-foundedness of the naturals. A tree is `Sound` when it fits
  the bound and every node of it recomputes from its children (`Check`). From
  that follow `BuildsAreBuilt`, `InsertGains`, `RemoveClears` and `ReplayStands`:
  what a build, an insertion, a box removal and the replay of the log make of the
  live points, for every outcome of every rebuild on the way. A second family
  follows the rebuild in flight through the same functions: which node is flagged,
  that the slot and its ancestors stay below no pending pushdown, and what the
  subtree in the slot and the log gain together. `SwapStands` is the swap with the
  refresh of the recorded ancestors.
* `IkdTreeProofs`: `InvCorrect`, `ValidateCorrect`, `ReplayCorrect`,
  `AncestorsCorrect`, `BalancedCorrect`, `SlotsCorrect`, `KnnCorrect`,
  `KnnEverywhere`, `RefinesPointMap`, `RefinesProtocol`, in any number of
  dimensions and for every threshold. The invariant `Inv` says that the tree is
  sound and has room for the rest of the batch (`Sizes`), that it is in balance when
  all rebuilds are synchronous (`Steady`), that nothing is left over of a rebuild
  between two (`AtRest`), and that during one the slot alone is flagged, can be
  reached without a pushdown, has all its ancestors recorded, and holds what
  snapshot and log give (`InFlight`). `Validate` by itself is not inductive: the
  swap keeps it only because the replacement stays within the box and the size of
  the subtree it replaces, and that is a statement about snapshot and log. `KnnFinds`
  is the search: after a subtree the heap holds the k nearest of what it was given
  and of the live points below, since a box the search skips is farther than the
  front, and a front never recedes. `RefinesProtocol` maps each step to one of
  `IkdRebuild` with `frozen` the live points of the slot and `rest` the others.

  Two hypotheses. `~BuildInFlight`: `build()` is not called during a rebuild.
  Finding 2 is that the code does not see to that; without the hypothesis the
  slot points into a freed tree, and no invariant of it is left. `BalancedCorrect` takes
  `MinRebuildSize >= 2` (the code has 10): with less, a subtree of two nodes counts as
  out of balance, and still does once it is rebuilt.
* `SlamPipelineProofs`: `ResultsInOrder`, `CloudsAccounted`, `OnlyImuHoldsBack`,
  `ThrowsOnlyOnLongScans`. `EveryCloudAccounted` is not inductive: the invariant
  says instead that the queue holds the last ids in order (`Queued`) and that the
  ones before it are split between results and discards (`Left`). `Started` says
  that the filter exists only with IMU data not newer than `last_ref_`, which is
  what bounds the scan that throws.
* `SlamPipelineProofs`, second part: `WindowSound`, `PoseSound`, about `get_between` and
  `interpolate_pose` on every buffer whose stamps increase. The binary searches
  are least elements of sets of indices (`LowerBoundSplits`, `UpperBoundSplits`);
  a window is a first element, the samples between and perhaps a last
  (`WindowShape`), and `WindowEnd` says when the last is missing.
* `SlamPipelineProofs`, third part: `TypeCorrect`, `BufferSound`, `DeskewSound`,
  `OnlyTailLost`, `PointsMeet`. The invariant `Cut` says that the stamps increase
  up to at least `last_ref_` (`Buffered`) and, of every scan processed, how its two
  windows ended (`Fits`) in terms that a later sample cannot change: every sample
  older than the end of the scan is in the buffer by then. That is why the
  properties, which are about all the samples there are now, stay true.
* `LocalMapProofs`: `TypeCorrect`, `MapBounded`, `RangeCovered`, `Spaced`,
  `ObservedStay`, in any number of dimensions. That an uncropped step leaves
  nothing outside follows from the cube covering the range, so the properties
  are proved together.
* `EstimatorProofs`: `CovarianceBelongs`, `ReportsTrue`, `PosteriorsMapped`,
  `BareMapsInert`, `TypeCorrect`. Inside an update the iterate has as many corrections as
  there were iterations and the last gain is one behind (`InUpdate`); why the
  loop stopped restricts both (`Stopped`).
* `EstimatorProofs`, second part: `ExtrinsicStays`, `HiddenReached`, for any number of
  intervals, scans and iterations. The covariance only grows, so the couplings of
  one interval (`Reached`) are there in the next; that no product leads from the
  motion to a pinned extrinsic (`Apart`) is kept by prediction and update alike.
  `Entries` gives the entries of a propagated covariance as paths through
  `F_d`, `P` and `F_d`.

* `BagReaderProofs`: `ReadsWhole`, for every well-formed bag. Before the second
  pass the connection table names what the index records before the position
  name (`Tabled`). From then on some position in the file splits the selected
  messages into those delivered and the rest (`Progress`): the cursor while the
  reader reads, and where it was once it has thrown. `WellFormed` says only that
  a bag is records and a place where the file ends.
* `ProgramProofs`: first the operators. `CentroidPerCube`: packing three biased
  indices into a key is a number in base `KeySpan`, whose digits are unique within
  the range, and the index of a coordinate is the only cube it is in, also below
  zero. `DecodersNormalize`: each decoder inverts what its driver did to the time,
  exactly or, from doubles of seconds, to within one of their steps, and leaves no
  point before one taken earlier; `Parts` and `FloatStep` are any. A time and a stamp
  are off by half a step each (`RoundedFacts`); truncation keeps bounds and order
  (`TruncatedTimely`).
  Then `ReaderRefined` and `PipelineRefined`: each step of the program is, on the
  variables of either component, a step of that component alone or a stutter. The
  second needs the first: that a sample comes after those in the buffer follows
  from the order in which the reader delivers (`Stamped` ties the last stamp to a
  delivered message). What is proved of the components then holds of the program,
  and with the invariants below gives `TypeCorrect`, `BagsReadWhole`,
  `OnlyTailWaits`, `TimesNormalized`, `ScansPartitioned`, `KeysInEffect` and
  `FilesFollow`. `MainInv` relates the stage of `main` to what has been loaded and
  to the reader, `Kept` the history of sweeps to what their decoder made of them,
  `Rowed` and `Marked` the files to results and to the delivered ground truth.
  The n-th message on a topic is a CHOOSE by rank; that there is one (`NthThere`)
  is an injection of a finite set into one of the same size, a surjection.

The assumptions of `Program` are about the input, and the runs evaluate them on
theirs: bags are well-formed, coordinates and stamps are integers, a section
of a YAML file is a mapping, a list or a scalar, a stamp with its offset does not
fall below the wrap base, and the stamps of the IMU messages are positive and
increase in a bag (`ImuIncreases`). The last is what the header of the buffer
means by a chronological store (`buffer.h:9`); `push` does not check it, and bags
that break it are outside model and proofs.

Only model-checked, and why:

* The liveness properties `CloudsLeave`, `ScansEnd` and `ProgramEnds`: fairness is
  beyond the prover. So no theorem says that a bag is ever read to its end.
* What the folds sum up to: a centroid is the same fold over the same points in
  `CentroidPerCube`, but that the fold is their sum is the community modules'
  definition.

## Findings

1. `imu_endpoint`: `get_between` omits the endpoint when a sample is stamped
   exactly `t1_ns` (`buffer.cpp:53-63`), against `buffer.h:10-11`. The filter then
   stops at the sample before and the next window starts at `t1_ns`, so one
   interval is never integrated. `OnlyExactHitLosesTail` shows that nothing else is
   lost.
2. `build_in_flight`: `build()` does not discard a rebuild in flight
   (`ikd_tree.cpp:226-228`), against `ikd_tree.h:69`; its landing brings back the
   old subtree. `LocalMap::insert` builds when `size()` is 0, which needs a crop to
   have emptied the map while a garbage rebuild it started is in flight.
3. `nested_pushdown`: pushdown labels do nest, against the comment at
   `ikd_tree.cpp:444`; `Validate` holds all the same.
4. `voxel_spacing`: `voxel_leaf` is not a minimum spacing within one scan
   (`local_map.cpp:39-51`), against `local_map.h:48`; between scans it is
   (`ScansSpaced`, proved).
5. `scan_seed`: the deskew trajectory is seeded with the state at `last_ref_`, not
   at scan start (`slam_pipeline.cpp:66-67`), against `deskew.h:25-26`.

`EkfResult::converged` is documented as "true if the loop hit convergence_tol
before the cap" (`iekf.h:28-29`); it is also true when nothing was observed, by a
deliberate line of the code (`iekf.cpp:50-51`). `ReportExplainsStop` states what it
means.

Two statements of comments hold only up to a case the properties name. A key of
the parameter file in a section written as a list is neither in effect nor warned
about, against "rather than being silently dropped" (`params.h:47-48`), because
`collect_unknown` returns at once for what is no mapping (`params.cpp:33`);
`SettingsInEffect` has it as an exception. `ros_deserializer.h:37-38` takes the
time of a Livox point from the timebase of the message; the decoder takes it
from its stamp and says why (`ros_deserializer.cpp:334-337`).

## Not modelled

* Numbers: plane fit, gating test, the integration of the state, boxplus and
  boxminus, the motion between poses, the averages of the static initializer.
  Non-finite numbers are part of it, other than in the voxel grid. So is the
  rounding of seconds, other than in the decoder of the Hesai LiDAR: rows of the
  files keep the stamp (the code writes `to_sec` of it), and the time offset of the
  configuration is a number of ticks. The decoder's doubles have one step, which
  leaves out sweeps across a change of their exponent (2004, 2038).
* An end of the wait of a cloud whose stamp wrapped or that ends after the last
  IMU sample: the code has none, and `CloudsLeave` excepts such a cloud and those
  behind it.
* Bytes: the layout of records and messages below their fields. In particular the
  number of points of a `PointCloud2` is not compared with the length of its data
  (`ros_deserializer.cpp:284-285`), nor the length of a matrix with its rows and
  columns (`calibration.cpp:48-52`), and a compressed frame may end inside the
  data of a message.
* The raw-text scan for the duplicate `gyro_std` (`calibration.cpp:76-100`):
  nothing reads the noise values of the calibration.
* The visualizer, compiled out by default, the log, and the experiments.
* Allocation failure, in particular an exception in the worker.
* `set_suppress_auto_finalize`, a test hook: an insert that does not finalize
  behaves as one that finds the worker still building.

## Plan

Done, in this order: `PointBags`, `PointMap`, `IkdRebuild` and its proofs;
`IkdTree`; `ImuBuffer`, `SlamPipeline` and their proofs; `LocalMap` and its proofs;
`IteratedEkf` and its proofs; `Deskew`; `ErrorCoupling` and its proofs;
`BagReader`, `CloudDecoder`, `VoxelGrid`, `Config` and `Program`; the proofs about
windows and poses, the bag reader, the decoders, the voxel grid and the program;
the concrete tree as recursive functions, its invariant, its search, and its
refinement of the protocol and of `PointMap`.

Next:

1. Compose `LocalMap` with the rebuild protocol: the build in flight reached
   through scans and crops, and the local map as a client of `PointMap`.
2. Compose `SlamPipeline` with `IteratedEkf`: the time of the state against
   `last_ref_`, and the totals of the log.
