------------------------------- MODULE Deskew -------------------------------
(***************************************************************************)
(* The trajectory of one scan and the poses deskew() reads from it, of     *)
(* src/core/preprocess/deskew.cpp.  A trajectory is the sequence of the    *)
(* stamps of its poses.  A pose is named by the instant t it stands for    *)
(* and the two poses of the trajectory it lies between (lo = hi: one of    *)
(* them); the motion itself is left out.                                   *)
(***************************************************************************)
EXTENDS ImuBuffer

\* build_scan_trajectory(): one pose per element of the scan's IMU window.
Trajectory(data, t0, t1) ==
    LET meas == GetBetween(data, t0, t1) IN [k \in 1..Len(meas) |-> meas[k].t]

\* interpolate_pose(), clamped to the ends of the trajectory.
InterpolateNearest(traj, t) ==  \* mutant
    LET lo == Max({1} \union {k \in 1..Len(traj) : traj[k] <= t})
    IN  [t |-> traj[lo], lo |-> lo, hi |-> lo]

InterpolatePose(traj, t) ==
    LET last == Len(traj)
        hi == UpperBound(traj, t)
    IN  CASE t <= traj[1]    -> [t |-> traj[1], lo |-> 1, hi |-> 1]
          [] t >= traj[last] -> [t |-> traj[last], lo |-> last, hi |-> last]
          [] OTHER           -> [t |-> t, lo |-> hi - 1, hi |-> hi]

\* What the poses of a scan over [t0, t1] are for its points: a point is
\* corrected with the pose of its own instant, blended between neighbours that
\* are a positive time apart and enclose it; only past the end of a trajectory
\* whose last sample was stamped t1 is the pose an older one.
SoundPoses(data, t0, t1) ==
    LET traj == Trajectory(data, t0, t1)
    IN  \A t \in t0..t1 :
            LET pose == InterpolatePose(traj, t)
            IN  /\ pose.lo # pose.hi => /\ pose.hi = pose.lo + 1
                                        /\ traj[pose.lo] <= t
                                        /\ t < traj[pose.hi]
                /\ \/ pose.t = t
                   \/ /\ \E i \in 1..Len(data) : data[i] = t1
                      /\ \A i \in 1..Len(data) : ~(pose.t < data[i] /\ data[i] < t1)
=============================================================================
