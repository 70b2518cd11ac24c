---------------------------- MODULE SlamPipeline ----------------------------
(***************************************************************************)
(* The scan queue of src/core/pipeline/slam_pipeline.cpp and the callback  *)
(* of src/main.cpp that drives it: IMU samples and scans arrive in the     *)
(* order of the bag, a scan waits until the IMU covers its window, and     *)
(* take_ready() runs after every message.                                  *)
(*                                                                         *)
(* Times are integers.  A cloud is its stamp and the least and greatest of *)
(* its per-point offsets; NoTimes is a cloud without any.  The readings,   *)
(* the filter and the map are left out: of the filter the model keeps the  *)
(* IMU window each scan is processed with.  Whether the platform is        *)
(* stationary when the static initializer looks is nondeterministic.       *)
(***************************************************************************)
EXTENDS Deskew

CONSTANTS
    InitImuCount,  \* cfg_.init_imu_count
    Offset,        \* cfg_.lidar_time_offset_ns
    WrapBase,      \* what from_nsec() makes of 2^64 ns, 1266874889709551616
    ImuSteps,      \* the distances between consecutive IMU stamps, which increase
    Clouds,        \* the clouds the bag may hold
    MaxScans,      \* bound: the number of clouds accepted
    Horizon        \* bound: no IMU stamp is past it

NoTimes == [timed |-> FALSE, stamp |-> 0, lo |-> 0, hi |-> 0]

ASSUME PipelineAssumption ==
    /\ InitImuCount \in Nat \ {0}
    /\ Offset \in Int
    /\ WrapBase \in Nat
    /\ \A c \in Clouds : WrapBase + c.stamp + Offset >= 0
    /\ ImuSteps \subseteq Nat \ {0}
    /\ MaxScans \in Nat
    /\ Horizon \in Nat
    /\ Clouds \subseteq [timed : BOOLEAN, stamp : Nat, lo : Nat, hi : Nat]
    /\ \A c \in Clouds : c.lo <= c.hi

VARIABLES
    imu,        \* imu_buffer_, the stamps
    initImu,    \* init_imu_, the stamps
    ekf,        \* ekf_.has_value()
    lastRef,    \* last_ref_
    pending,    \* pending_
    control,    \* "idle", "draining" (inside take_ready) or "dead" (uncaught throw)
    accepted,   \* the number of clouds add_scan has queued; a cloud's id is its turn
    discarded,  \* the ids of the clouds take_ready dropped
    results,    \* what take_ready returned: the cloud's id and t_ns
    windows     \* where its trajectory starts, the instant its points are referred
                \* to, and the first and last time of its IMU window

vars == <<imu, initImu, ekf, lastRef, pending, control, accepted, discarded, results,
          windows>>

Last(s) == s[Len(s)]

-----------------------------------------------------------------------------
Init ==
    /\ imu = <<>>
    /\ initImu = <<>>
    /\ ekf = FALSE
    /\ lastRef = 0
    /\ pending = <<>>
    /\ control = "idle"
    /\ accepted = 0
    /\ discarded = {}
    /\ results = <<>>
    /\ windows = <<>>

LastStamp == IF imu = <<>> THEN 0 ELSE Last(imu)

\* The callback on an IMU message: add_imu(), then take_ready().
OnImu(step) ==
    LET t == LastStamp + step
        window == Append(initImu, t)
    IN  /\ control = "idle"
        /\ t <= Horizon
        /\ imu' = Append(imu, t)
        /\ control' = "draining"
        /\ \/ /\ ekf
              /\ UNCHANGED <<initImu, ekf, lastRef>>
           \/ /\ ~ekf /\ Len(window) < InitImuCount
              /\ initImu' = window
              /\ UNCHANGED <<ekf, lastRef>>
           \/ \* initialize_static() finds the platform moving
              /\ ~ekf /\ Len(window) >= InitImuCount
              /\ initImu' = Tail(window)
              /\ UNCHANGED <<ekf, lastRef>>
           \/ \* initialize_static() succeeds
              /\ ~ekf /\ Len(window) >= InitImuCount
              /\ initImu' = window
              /\ ekf' = TRUE
              /\ lastRef' = Last(window)
        /\ UNCHANGED <<pending, accepted, discarded, results, windows>>

\* The stamp on the IMU clock, through uint64_t and the 32-bit seconds of a
\* Timestamp.
Unwrapped(stamp) == stamp + Offset  \* mutant

Shifted(stamp) ==
    IF stamp + Offset >= 0 THEN stamp + Offset ELSE WrapBase + stamp + Offset

\* The callback on a LiDAR message: add_scan(), then take_ready().  Clouds that
\* come before the initialization are dropped.
OnCloud(c) ==
    /\ control = "idle"
    /\ ekf
    /\ accepted < MaxScans
    /\ accepted' = accepted + 1
    /\ pending' = Append(pending, [id |-> accepted + 1, timed |-> c.timed,
                                   start |-> Shifted(c.stamp) + c.lo,
                                   end |-> Shifted(c.stamp) + c.hi])
    /\ control' = "draining"
    /\ UNCHANGED <<imu, initImu, ekf, lastRef, discarded, results, windows>>

\* One iteration of the loop of take_ready().
Draining == control = "draining"

DrainDone ==
    /\ Draining
    /\ pending = <<>>
    /\ control' = "idle"
    /\ UNCHANGED <<imu, initImu, ekf, lastRef, pending, accepted, discarded, results, windows>>

OvertakenStrictly(c) == lastRef # 0 /\ c.end < lastRef  \* mutant

Overtaken(c) == lastRef # 0 /\ c.end <= lastRef

Untimed(c) == ~c.timed  \* mutant

Useless(c) == ~c.timed \/ Overtaken(c)

DiscardKept ==  \* mutant
    /\ Draining
    /\ pending # <<>>
    /\ Useless(Head(pending))
    /\ discarded' = discarded \union {Head(pending).id}
    /\ UNCHANGED <<imu, initImu, ekf, lastRef, pending, control, accepted, results, windows>>

Discard ==
    /\ Draining
    /\ pending # <<>>
    /\ Useless(Head(pending))
    /\ discarded' = discarded \union {Head(pending).id}
    /\ pending' = Tail(pending)
    /\ UNCHANGED <<imu, initImu, ekf, lastRef, control, accepted, results, windows>>

AwaitImuPopped ==  \* mutant
    /\ Draining
    /\ pending # <<>>
    /\ ~Useless(Head(pending))
    /\ ~Covers(imu, lastRef, Head(pending).end)
    /\ control' = "idle"
    /\ pending' = Tail(pending)
    /\ UNCHANGED <<imu, initImu, ekf, lastRef, accepted, discarded, results, windows>>

AwaitImu ==
    /\ Draining
    /\ pending # <<>>
    /\ ~Useless(Head(pending))
    /\ ~Covers(imu, lastRef, Head(pending).end)
    /\ control' = "idle"
    /\ UNCHANGED <<imu, initImu, ekf, lastRef, pending, accepted, discarded, results, windows>>

Ready(c) == ~Useless(c) /\ Covers(imu, lastRef, c.end)

\* The IMU the filter integrates with a scan.
ScanWindow(c) == GetBetween(imu, c.start, c.end)  \* mutant

FilterWindow(c) == GetBetween(imu, lastRef, c.end)

\* The instant deskew() moves the points of a scan to.
ReferenceAtStart(c) ==  \* mutant
    InterpolatePose(Trajectory(imu, c.start, c.end), c.start).t

Reference(c) == InterpolatePose(Trajectory(imu, c.start, c.end), c.end).t

\* build_scan_trajectory() asks for the scan's own window, deskew() refers the
\* points to its end, and process_scan() gets the window since the last scan.
Process ==
    LET c == Head(pending)
        w == FilterWindow(c)
    IN  /\ Draining
        /\ pending # <<>>
        /\ Ready(c)
        /\ Covers(imu, c.start, c.end)
        /\ results' = Append(results, [id |-> c.id, t |-> c.end])
        /\ windows' = Append(windows, [start |-> c.start, ref |-> Reference(c),
                                       from |-> w[1].t, to |-> Last(w).t])
        /\ lastRef' = c.end
        /\ pending' = Tail(pending)
        /\ UNCHANGED <<imu, initImu, ekf, control, accepted, discarded>>

\* get_between() throws out of build_scan_trajectory(); nothing catches it.
Throw ==
    /\ Draining
    /\ pending # <<>>
    /\ Ready(Head(pending))
    /\ ~Covers(imu, Head(pending).start, Head(pending).end)
    /\ control' = "dead"
    /\ UNCHANGED <<imu, initImu, ekf, lastRef, pending, accepted, discarded, results, windows>>

Drain == DrainDone \/ Discard \/ AwaitImu \/ Process \/ Throw

Next ==
    \/ \E step \in ImuSteps : OnImu(step)
    \/ \E c \in Clouds : OnCloud(c)
    \/ Drain

Spec == Init /\ [][Next]_vars

\* take_ready() runs to its end, and the bag goes on with IMU messages up to
\* the horizon.
FairSpec ==
    /\ Spec
    /\ WF_vars(Drain)
    /\ WF_vars(\E step \in ImuSteps : OnImu(step))

-----------------------------------------------------------------------------
WaitingClouds == [id : Nat, timed : BOOLEAN, start : Nat, end : Nat]
Processed == [id : Nat, t : Nat]

TypeOK ==
    /\ imu \in Seq(Nat)
    /\ initImu \in Seq(Nat)
    /\ ekf \in BOOLEAN
    /\ lastRef \in Nat
    /\ pending \in Seq(WaitingClouds)
    /\ control \in {"idle", "draining", "dead"}
    /\ accepted \in Nat
    /\ discarded \subseteq Nat
    /\ results \in Seq(Processed)
    /\ windows \in Seq([start : Nat, ref : Nat, from : Nat, to : Nat])

\* Results come out in the order of arrival and strictly forward in time, up to
\* last_ref_, however the clouds overlap or swap (slam_pipeline.cpp:58-63).
ResultsAdvance ==
    /\ \A i, j \in 1..Len(results) :
           i < j => results[i].id < results[j].id /\ results[i].t < results[j].t
    /\ \A i \in 1..Len(results) : results[i].t <= lastRef

PendingIds == {pending[i].id : i \in 1..Len(pending)}
ResultIds == {results[i].id : i \in 1..Len(results)}

\* Every accepted cloud is waiting, processed or discarded, and only one of
\* them; the waiting ones are the last in order of arrival
\* (slam_pipeline.cpp:50-86).
EveryCloudAccounted ==
    /\ 1..accepted = PendingIds \union ResultIds \union discarded
    /\ ResultIds \intersect discarded = {}
    /\ \A i \in 1..Len(pending) : pending[i].id = accepted - Len(pending) + i
    /\ \A id \in ResultIds \union discarded : id <= accepted - Len(pending)

\* Between two messages only the want of IMU data keeps a cloud waiting: the
\* first one ends after everything processed and after the last IMU sample
\* (slam_pipeline.cpp:64).
HeadWaitsForImu ==
    control = "idle" /\ pending # <<>> =>
        /\ Head(pending).timed
        /\ Head(pending).end > lastRef
        /\ Head(pending).end > LastStamp

\* The uncaught throw of get_between() takes a scan that is longer than all the
\* IMU history before last_ref_: an overlapping or out-of-order one alone does
\* not kill the process (slam_pipeline.cpp:60-67, deskew.cpp:43-44).
OnlyLongScansThrow ==
    control = "dead" =>
        Head(pending).end - Head(pending).start > lastRef - imu[1]

\* The filter's windows follow each other without overlap, each from the end of
\* the scan before, and the only time a window can lose is the last interval,
\* when a sample is stamped exactly at the end of the scan (buffer.cpp:52-63).
OnlyExactHitLosesTail ==
    \A i \in 1..Len(results) :
        LET w == windows[i]
            end == results[i].t
            stamps == {imu[k] : k \in 1..Len(imu)}
        IN  /\ i > 1 => w.from = results[i - 1].t
            /\ \/ w.to = end
               \/ end \in stamps /\ w.to = Max({w.from} \union {t \in stamps : t < end})

\* Every range the buffer covers gives a sound window (buffer.cpp:14-84).
WindowsSound ==
    \A t0, t1 \in 0..Horizon :
        t0 <= t1 /\ Covers(imu, t0, t1) => SoundWindow(imu, t0, t1)

\* Every range the buffer covers gives every point of a scan over it the pose of
\* its own instant (deskew.cpp:20-75).
PosesSound ==
    \A t0, t1 \in 0..Horizon :
        t0 <= t1 /\ Covers(imu, t0, t1) => SoundPoses(imu, t0, t1)

\* The points of a scan are moved to the instant the filter predicts its state
\* to, though the trajectory and the filter's window are cut out of the buffer
\* separately and start at different times; when a sample stamped at the end of
\* the scan is lost, both stay within the last interval before it
\* (slam_pipeline.cpp:66-76, deskew.cpp:77-110).
PointsMeetPrediction ==
    \A i \in 1..Len(results) :
        LET w == windows[i]
            end == results[i].t
            stamps == {imu[k] : k \in 1..Len(imu)}
        IN  \/ w.ref = w.to
            \/ /\ end \in stamps
               /\ \A t \in stamps : t < end => t <= w.ref /\ t <= w.to

\* Every accepted cloud leaves the queue once the IMU goes on, unless the
\* process dies or a cloud that ends after the last IMU sample of the bag, such
\* as one whose stamp wrapped, holds up the ones behind it
\* (slam_pipeline.cpp:48-88).
HeldUp == control = "dead" \/ (pending # <<>> /\ Head(pending).end > Horizon)

CloudsLeave ==
    \A id \in 1..MaxScans : (id \in PendingIds) ~> (id \notin PendingIds \/ HeldUp)

\* "get_between() always returns a sequence that starts exactly at t0_ns and
\* ends exactly at t1_ns" (buffer.h:10-11), for the windows the filter gets.
WindowEndsAtScanEnd == \A i \in 1..Len(results) : windows[i].to = results[i].t

\* The trajectory of a scan is "seeded from the EKF state at scan start (the
\* previous scan's posterior)" (deskew.h:25-26): the state it gets is the one at
\* last_ref_, where the filter's window begins.
SeededAtScanStart == \A i \in 1..Len(results) : windows[i].start = windows[i].from
=============================================================================
