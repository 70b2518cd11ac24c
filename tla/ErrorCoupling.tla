--------------------------- MODULE ErrorCoupling ----------------------------
(***************************************************************************)
(* Which blocks of the error state (src/core/state/state.h) the covariance *)
(* of the filter couples, and so which parts of the state a scan can       *)
(* correct: the block structure of F_c and Q_d in                          *)
(* src/core/imu/propagator.cpp, of H in src/core/estimator/measurement.cpp *)
(* and of the gain and the update in src/core/estimator/iekf.cpp, carried  *)
(* through the scans of IteratedEkf.                                       *)
(*                                                                         *)
(* A matrix is, for every row of blocks, the set of the columns that are   *)
(* not zero by construction.  What cancels for particular numbers is out   *)
(* of reach.  The 1e-12 with which add_imu() pins an extrinsic that is not *)
(* to be estimated counts as zero.                                         *)
(***************************************************************************)
EXTENDS IteratedEkf

CONSTANT MaxSteps  \* bound: the IMU intervals counted

ASSUME CouplingAssumption == MaxSteps \in Nat \ {0}

VARIABLES
    pinned,   \* ~cfg_.enable_extrinsic_estimation
    cov,      \* the nonzero blocks of P_
    steps,    \* how many IMU intervals P_ was propagated over, up to MaxSteps
    moved     \* the blocks some correction may have changed

couplingVars == <<pinned, cov, steps, moved>>
allVars == <<vars, couplingVars>>

Motion == {"theta", "pos", "vel", "bg", "ba", "g"}
Extrinsic == {"ext_rot", "ext_pos"}
Blocks == Motion \union Extrinsic

Diagonal(S) == [b \in Blocks |-> {b} \intersect S]

Plus(A, B) == [b \in Blocks |-> A[b] \union B[b]]

Times(A, B) == [b \in Blocks |-> UNION {B[k] : k \in A[b]}]

Transposed(A) == [b \in Blocks |-> {k \in Blocks : b \in A[k]}]

\* F_c: the angular rate and its bias, the velocity, and the rotated
\* acceleration with its bias and gravity.
TransitionWithoutGravity ==  \* mutant
    [b \in Blocks |-> CASE b = "theta" -> {"theta", "bg"}
                       [] b = "pos"   -> {"vel"}
                       [] b = "vel"   -> {"theta", "ba"}
                       [] OTHER       -> {}]

Transition ==
    [b \in Blocks |-> CASE b = "theta" -> {"theta", "bg"}
                       [] b = "pos"   -> {"vel"}
                       [] b = "vel"   -> {"theta", "ba", "g"}
                       [] OTHER       -> {}]

\* Q_d.
NoiseOnAll == Diagonal(Blocks)  \* mutant

ProcessNoise == Diagonal({"theta", "vel", "bg", "ba"})

\* F_d P F_d^T + Q_d with F_d = I + F_c dt.
Propagated(A) ==
    LET Fd == Plus(Diagonal(Blocks), Transition)
    IN  Plus(Times(Times(Fd, A), Transposed(Fd)), ProcessNoise)

\* The blocks a row of H has: the pose and the extrinsic.
Observed == {"theta", "pos"} \union Extrinsic

\* The rows of P H^T, and so of the gain, that are not zero.
Corrected(A) == {b \in Blocks : A[b] \intersect Observed # {}}

Gain(A) == [b \in Blocks |-> IF b \in Corrected(A) THEN Observed ELSE {}]

\* (I - K H) P.
Updated(A) == Plus(A, Times(Gain(A), A))

\* The seed of initialize_static(), with the extrinsic pinned by add_imu().
Seed == Diagonal(IF pinned THEN Motion ELSE Blocks)

CoupledInit ==
    /\ Init
    /\ pinned \in BOOLEAN
    /\ cov = Seed
    /\ steps = 0
    /\ moved = {}

\* process_scan() first propagates over each interval of the scan's IMU window.
Propagate ==
    /\ phase = "idle"
    /\ cov' = Propagated(cov)
    /\ steps' = IF steps < MaxSteps THEN steps + 1 ELSE steps
    /\ UNCHANGED <<vars, pinned, moved>>

CoupledPredict(n) == Predict(n) /\ UNCHANGED couplingVars

\* The gain of every iteration comes from the predicted covariance.
CoupledIterate(near) ==
    /\ Iterate(near)
    /\ moved' = moved \union Corrected(cov)
    /\ UNCHANGED <<pinned, cov, steps>>

CoupledFinish ==
    /\ Finish
    /\ cov' = IF gain = NoGain THEN cov ELSE Updated(cov)
    /\ UNCHANGED <<pinned, steps, moved>>

CoupledProcessScan ==
    \/ \E near \in BOOLEAN : CoupledIterate(near)
    \/ (Unobserved \/ Exhaust) /\ UNCHANGED couplingVars
    \/ CoupledFinish

CoupledNext ==
    \/ Propagate
    \/ \E n \in ScanSizes : CoupledPredict(n)
    \/ CoupledProcessScan

CoupledSpec == CoupledInit /\ [][CoupledNext]_allVars

CoupledFairSpec == CoupledSpec /\ WF_allVars(CoupledProcessScan)

-----------------------------------------------------------------------------
\* With the extrinsic pinned, no scan ever moves it or couples it with the
\* motion, however often the filter predicts and corrects: "the update cannot
\* move it and there is no process noise to reinflate it"
\* (slam_pipeline.cpp:30-35).
PinnedExtrinsicStays ==
    pinned => /\ moved \intersect Extrinsic = {}
              /\ \A b \in Blocks : cov[b] \subseteq Motion

\* Velocity, biases and gravity, which no row of H observes, are all within
\* reach of the scans from the second IMU interval on, and not before the
\* first: a block of F_c forgotten or misplaced would leave one of them at its
\* initial value for ever (measurement.h:30-31, propagator.cpp:103-118).
HiddenStatesReached ==
    /\ steps >= 2 => Motion \subseteq Corrected(cov)
    /\ steps = 0 => moved \subseteq Observed
=============================================================================
