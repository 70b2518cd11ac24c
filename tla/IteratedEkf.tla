---------------------------- MODULE IteratedEkf -----------------------------
(***************************************************************************)
(* One scan through the filter: process_scan() of                          *)
(* src/core/estimator/iterated_ekf.cpp around the loop of                  *)
(* iterated_update(), src/core/estimator/iekf.cpp.                         *)
(*                                                                         *)
(* An estimate is named by the scan it was predicted for and the number of *)
(* corrections applied to the prediction, a covariance by the estimate it  *)
(* belongs to.  How many rows a linearization has, which of them the gate  *)
(* rejects and whether a correction is below the tolerance is              *)
(* nondeterministic within what the map and the scan allow.  A map point   *)
(* is a point of a scan and the estimate it was registered with; LocalMap  *)
(* says which points insert() and recenter() keep.                         *)
(***************************************************************************)
EXTENDS Integers, Sequences, FiniteSets

CONSTANTS
    MaxIterations,   \* cfg.max_iterations
    RejectOutliers,  \* cfg.reject_outliers
    NumNeighbors,    \* assoc.num_neighbors
    ScanSizes,       \* how many points a downsampled scan may have
    MaxScans         \* bound: the number of scans

ASSUME EkfAssumption ==
    /\ MaxIterations \in Nat
    /\ RejectOutliers \in BOOLEAN
    /\ NumNeighbors \in Nat \ {0}
    /\ ScanSizes \subseteq Nat
    /\ MaxScans \in Nat

VARIABLES
    phase,    \* "idle", "iterating" or "updated": where process_scan() is
    points,   \* the number of points of the scan
    x,        \* x_, and the iterate x of the loop
    P,        \* P_
    iters,    \* iters
    gain,     \* the corrections of the iterate H and K belong to, NoGain: ~have_gain
    stop,     \* why the loop ended: "near", "unobserved", "cap", or "" in the loop
    map,      \* map_
    seated,   \* map_ has recentered; it may crop from then on, if cropping is enabled
    results   \* the results of process_scan()

vars == <<phase, points, x, P, iters, gain, stop, map, seated, results>>

NoGain == -1

Scan == Len(results) + 1

Init ==
    /\ phase = "idle"
    /\ points = 0
    /\ x = [scan |-> 0, step |-> 0]
    /\ P = [scan |-> 0, step |-> 0]
    /\ iters = 0
    /\ gain = NoGain
    /\ stop = ""
    /\ map = {}
    /\ seated = FALSE
    /\ results = <<>>

-----------------------------------------------------------------------------
\* Propagate the state and the covariance over the IMU window, enter the loop.
Predict(n) ==
    /\ phase = "idle"
    /\ Len(results) < MaxScans
    /\ phase' = "iterating"
    /\ points' = n
    /\ x' = [scan |-> Scan, step |-> 0]
    /\ P' = [scan |-> Scan, step |-> 0]
    /\ iters' = 0
    /\ gain' = NoGain
    /\ stop' = ""
    /\ UNCHANGED <<map, seated, results>>

\* associate_planes(): a point needs a full neighborhood to match a plane.
MatchesAnywhere == 0..points  \* mutant

Bare == Cardinality(map) < NumNeighbors

Matches == IF Bare THEN {0} ELSE 0..points

\* gate_measurement(): any of the rows may be rejected.
Gated(rows) == IF RejectOutliers /\ rows > 0 THEN 0..rows ELSE {rows}

Rows == UNION {Gated(rows) : rows \in Matches}

InLoopPastCap == phase = "iterating" /\ iters <= MaxIterations  \* mutant

InLoop == phase = "iterating" /\ iters < MaxIterations

\* One iteration with something to observe: linearize about the live iterate,
\* correct it, and leave the loop when the correction is below the tolerance.
Iterate(near) ==
    /\ InLoop
    /\ \E rows \in Rows : rows > 0
    /\ gain' = x.step
    /\ x' = [x EXCEPT !.step = @ + 1]
    /\ iters' = iters + 1
    /\ stop' = IF near THEN "near" ELSE stop
    /\ phase' = IF near THEN "updated" ELSE phase
    /\ UNCHANGED <<points, P, map, seated, results>>

UnobservedForgets ==  \* mutant
    /\ InLoop
    /\ 0 \in Rows
    /\ gain' = NoGain
    /\ stop' = "unobserved"
    /\ phase' = "updated"
    /\ UNCHANGED <<points, x, P, iters, map, seated, results>>

UnobservedContinues == InLoop /\ 0 \in Rows /\ UNCHANGED vars  \* mutant

\* Nothing observes the state this iteration, whichever it is.
Unobserved ==
    /\ InLoop
    /\ 0 \in Rows
    /\ stop' = "unobserved"
    /\ phase' = "updated"
    /\ UNCHANGED <<points, x, P, iters, gain, map, seated, results>>

Exhaust ==
    /\ phase = "iterating"
    /\ iters >= MaxIterations
    /\ stop' = "cap"
    /\ phase' = "updated"
    /\ UNCHANGED <<points, x, P, iters, gain, map, seated, results>>

\* The flag of the result.
ConvergedBelowCap == (stop = "near" /\ iters < MaxIterations) \/ gain = NoGain  \* mutant

Converged == stop = "near" \/ gain = NoGain

\* The scan, registered with the estimate.
RegisteredPrior ==  \* mutant
    {[scan |-> x.scan, step |-> 0, point |-> i] : i \in 1..points}

Registered == {[scan |-> x.scan, step |-> x.step, point |-> i] : i \in 1..points}

\* insert() and recenter(): the whole scan goes into an empty map, what is new
\* of it into another; the first recentering seats the cube and crops nothing.
Grow(registered) ==
    \E kept \in SUBSET registered :
        /\ map = {} => kept = registered
        /\ IF seated
             THEN map' \in SUBSET (map \union kept)
             ELSE map' = map \union kept
        /\ seated' = TRUE

\* The result of the loop, then the map.
Finish ==
    /\ phase = "updated"
    /\ P' = IF gain = NoGain THEN P ELSE [P EXCEPT !.step = gain + 1]
    /\ results' = Append(results, [iterations |-> iters, converged |-> Converged,
                                   stop |-> stop, points |-> points,
                                   bare |-> Bare])
    /\ Grow(Registered)
    /\ phase' = "idle"
    /\ UNCHANGED <<points, x, iters, gain, stop>>

ProcessScan == (\E near \in BOOLEAN : Iterate(near)) \/ Unobserved \/ Exhaust \/ Finish

Next == (\E n \in ScanSizes : Predict(n)) \/ ProcessScan

Spec == Init /\ [][Next]_vars

\* process_scan() is sequential code that waits for nothing.
FairSpec == Spec /\ WF_vars(ProcessScan)

-----------------------------------------------------------------------------
Estimates == [scan : Nat, step : Nat]
Stops == {"near", "unobserved", "cap"}

TypeOK ==
    /\ phase \in {"idle", "iterating", "updated"}
    /\ points \in Nat
    /\ x \in Estimates
    /\ P \in Estimates
    /\ iters \in 0..MaxIterations
    /\ gain \in {NoGain} \union Nat
    /\ stop \in {""} \union Stops
    /\ map \subseteq [scan : Nat, step : Nat, point : Nat]
    /\ seated \in BOOLEAN
    /\ results \in Seq([iterations : 0..MaxIterations, converged : BOOLEAN, stop : Stops,
                        points : Nat, bare : BOOLEAN])

\* However the loop ends, after a tolerance, the cap or an iteration that lost
\* every row, the covariance that process_scan() leaves is the one the last
\* correction of the state was computed with: never a corrected state with the
\* predicted covariance, or the reverse (iekf.cpp:24-25, 47-58).
CovarianceFollowsState == phase = "idle" => P = x

\* What a result reports explains how its loop ended: converged is a last
\* correction below the tolerance, at the cap too, or no correction at all; an
\* unconverged one used up the iterations or lost its rows after a correction
\* (iekf.cpp:20-51).
ReportExplainsStop ==
    \A i \in 1..Len(results) :
        LET r == results[i]
        IN  /\ r.converged <=> r.stop = "near" \/ r.iterations = 0
            /\ r.stop = "near" => r.iterations > 0
            /\ r.stop = "cap" => r.iterations = MaxIterations

\* Every point of the map is where the last iterate of its scan saw it
\* (iterated_ekf.cpp:46-54).
MapHoldsPosteriors ==
    \A p \in map : p.scan \in 1..Len(results) /\ p.step = results[p.scan].iterations

\* "On the first scan the map is empty, so the update is a no-op and the scan
\* simply seats the map" (iterated_ekf.h:31-32); a later map with fewer points
\* than a plane needs corrects nothing either (association.cpp:52).
BareMapCorrectsNothing ==
    /\ \A i \in 1..Len(results) : results[i].bare => results[i].iterations = 0
    /\ Len(results) = 1 => /\ results[1].bare
                           /\ {p.point : p \in map} = 1..results[1].points

\* Every scan comes to its end (iekf.cpp:20-45).
ScansEnd == phase # "idle" ~> phase = "idle"
=============================================================================
