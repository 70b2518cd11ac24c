--------------------------- MODULE EstimatorProofs --------------------------
(***************************************************************************)
(* The safety of one filter update, for every cap on the iterations, every *)
(* size of the scans and every outcome of association and gate; and what   *)
(* the filter's covariance couples, for any number of scans and IMU        *)
(* intervals.                                                              *)
(***************************************************************************)
EXTENDS ErrorCoupling, FiniteSetTheorems, SequenceTheorems, TLAPS

-----------------------------------------------------------------------------
(* The update.  Inv adds to the properties what ties the loop together:      *)
(* inside process_scan() the iterate has had as many corrections as there    *)
(* were iterations, the last gain was computed one correction before, P_ is  *)
(* still the prediction's, and the map has had a full neighborhood if there  *)
(* was any iteration.                                                        *)

USE EkfAssumption

Results == [iterations : 0..MaxIterations, converged : BOOLEAN, stop : Stops,
            points : Nat, bare : BOOLEAN]

Typed ==
    /\ phase \in {"idle", "iterating", "updated"}
    /\ points \in Nat
    /\ x \in Estimates
    /\ P \in Estimates
    /\ iters \in 0..MaxIterations
    /\ gain \in {NoGain} \union Nat
    /\ results \in Seq(Results)

InUpdate ==
    phase # "idle" =>
        /\ x.scan = Scan
        /\ x.step = iters
        /\ P.scan = Scan
        /\ P.step = 0
        /\ gain = IF iters = 0 THEN NoGain ELSE iters - 1
        /\ iters > 0 => ~Bare

Stopped ==
    /\ phase = "iterating" => stop = ""
    /\ phase = "updated" => \/ stop = "near" /\ iters > 0
                            \/ stop = "unobserved"
                            \/ stop = "cap" /\ iters = MaxIterations

Unseated == results = <<>> => map = {} /\ ~seated

Inv ==
    /\ Typed /\ InUpdate /\ Stopped /\ Unseated
    /\ CovarianceFollowsState /\ ReportExplainsStop /\ MapHoldsPosteriors
    /\ BareMapCorrectsNothing

-----------------------------------------------------------------------------
LEMMA AppendFacts ==
    ASSUME NEW S, NEW s \in Seq(S), NEW e \in S
    PROVE  /\ Append(s, e) \in Seq(S) /\ Append(s, e) # <<>>
           /\ Len(s) \in Nat /\ Len(Append(s, e)) = Len(s) + 1
           /\ Append(s, e)[Len(s) + 1] = e
           /\ \A i \in 1..Len(s) : Append(s, e)[i] = s[i] /\ s[i] \in S
OBVIOUS

LEMMA InitInv == Init => Inv
<1> SUFFICES ASSUME Init
             PROVE  Inv
  OBVIOUS
<1>1. results \in Seq(Results)
  BY EmptySeq DEF Init
<1>2. Typed
  <2>1. x \in Estimates /\ P \in Estimates
    BY DEF Init, Estimates
  <2>2. iters = 0 /\ points = 0 /\ gain = NoGain /\ phase = "idle"
    BY DEF Init
  <2>3. iters \in 0..MaxIterations /\ points \in Nat
    BY <2>2
  <2> QED
    BY <1>1, <2>1, <2>2, <2>3 DEF Typed
<1>3. InUpdate /\ Stopped /\ Unseated /\ CovarianceFollowsState
  BY DEF Init, InUpdate, Stopped, Unseated, CovarianceFollowsState
<1>4. ReportExplainsStop /\ MapHoldsPosteriors /\ BareMapCorrectsNothing
  <2>1. Len(results) = 0 /\ map = {}
    BY DEF Init
  <2> QED
    BY <2>1 DEF ReportExplainsStop, MapHoldsPosteriors, BareMapCorrectsNothing
<1> QED
  BY <1>2, <1>3, <1>4 DEF Inv

\* What a step inside process_scan() leaves alone.
LEMMA HistoryKept ==
    ASSUME Inv, UNCHANGED <<map, seated, results>>
    PROVE  /\ ReportExplainsStop' /\ MapHoldsPosteriors' /\ BareMapCorrectsNothing'
           /\ Unseated' /\ Bare' = Bare /\ Scan' = Scan
<1>1. ReportExplainsStop'
  BY DEF Inv, ReportExplainsStop
<1>2. MapHoldsPosteriors'
  BY DEF Inv, MapHoldsPosteriors
<1>3. BareMapCorrectsNothing' /\ Unseated' /\ Bare' = Bare /\ Scan' = Scan
  BY DEF Inv, BareMapCorrectsNothing, Unseated, Bare, Scan
<1> QED
  BY <1>1, <1>2, <1>3

LEMMA PredictInv == ASSUME Inv, NEW n \in ScanSizes, Predict(n)
                    PROVE  Inv'
<1>1. /\ phase' = "iterating" /\ points' = n /\ iters' = 0 /\ gain' = NoGain /\ stop' = ""
      /\ x' = [scan |-> Scan, step |-> 0] /\ P' = [scan |-> Scan, step |-> 0]
      /\ UNCHANGED <<map, seated, results>>
  BY DEF Predict
<1>2. Scan \in Nat
  <2>1. results \in Seq(Results)
    BY DEF Inv, Typed
  <2>2. Len(results) \in Nat
    BY <2>1, LenProperties
  <2> QED
    BY <2>2 DEF Scan
<1>3. Typed'
  <2>1. x' \in Estimates /\ P' \in Estimates
    BY <1>1, <1>2 DEF Estimates
  <2>2. /\ iters' = 0 /\ points' = n /\ gain' = NoGain /\ phase' = "iterating"
        /\ results' = results
    BY <1>1
  <2>3. iters' \in 0..MaxIterations /\ points' \in Nat
    BY <2>2
  <2> QED
    BY <2>1, <2>2, <2>3 DEF Inv, Typed
<1>4. InUpdate'
  <2>1. x'.scan = Scan /\ x'.step = 0 /\ P'.scan = Scan /\ P'.step = 0
    BY <1>1
  <2>2. Scan' = Scan
    BY <1>1 DEF Scan
  <2>3. iters' = 0 /\ gain' = NoGain
    BY <1>1
  <2> QED
    BY <2>1, <2>2, <2>3 DEF InUpdate
<1>5. Stopped' /\ CovarianceFollowsState'
  BY <1>1 DEF Stopped, CovarianceFollowsState
<1> QED
  BY <1>1, <1>3, <1>4, <1>5, HistoryKept DEF Inv

LEMMA BareRows == Bare => Rows = {0}
BY DEF Rows, Matches, Gated

LEMMA IterateInv == ASSUME Inv, NEW near \in BOOLEAN, Iterate(near)
                    PROVE  Inv'
<1>1. /\ phase = "iterating" /\ iters < MaxIterations /\ iters' = iters + 1
      /\ gain' = x.step /\ UNCHANGED <<points, P, map, seated, results>>
      /\ \/ phase' = "updated" /\ stop' = "near"
         \/ phase' = "iterating" /\ stop' = stop
  BY DEF Iterate, InLoop
<1>2. /\ x' = [x EXCEPT !.step = @ + 1] /\ x \in Estimates
      /\ x' \in Estimates /\ x'.scan = x.scan /\ x'.step = x.step + 1
  BY DEF Inv, Typed, Estimates, Iterate
<1>3. ~Bare
  BY BareRows DEF Iterate
<1>4. Typed'
  BY <1>1, <1>2 DEF Inv, Typed, Estimates
<1>5. InUpdate'
  <2>1. /\ x.scan = Scan /\ x.step = iters /\ P.scan = Scan /\ P.step = 0 /\ iters \in Nat
    BY <1>1 DEF Inv, Typed, InUpdate
  <2> QED
    BY <1>1, <1>2, <1>3, <2>1, HistoryKept DEF InUpdate
<1>6. Stopped' /\ CovarianceFollowsState'
  <2>1. iters' > 0
    <3>1. iters \in 0..MaxIterations /\ iters' = iters + 1
      BY <1>1 DEF Inv, Typed
    <3> QED
      BY <3>1
  <2>3. phase = "iterating" => stop = ""
    BY DEF Inv, Stopped
  <2>2. Stopped'
    BY <1>1, <2>1, <2>3 DEF Stopped
  <2> QED
    BY <1>1, <2>2 DEF CovarianceFollowsState
<1> QED
  BY <1>1, <1>4, <1>5, <1>6, HistoryKept DEF Inv

LEMMA LeaveInv == ASSUME Inv, Unobserved \/ Exhaust
                  PROVE  Inv'
<1>1. /\ phase = "iterating" /\ phase' = "updated"
      /\ stop' = "unobserved" \/ (stop' = "cap" /\ iters >= MaxIterations)
      /\ UNCHANGED <<points, x, P, iters, gain, map, seated, results>>
  BY DEF Unobserved, Exhaust, InLoop
<1>2. Typed'
  BY <1>1 DEF Inv, Typed
<1>3. InUpdate'
  BY <1>1, HistoryKept DEF Inv, InUpdate
<1>4. Stopped' /\ CovarianceFollowsState'
  <2>1. iters >= MaxIterations => iters' = MaxIterations
    BY <1>1 DEF Inv, Typed
  <2>2. Stopped'
    BY <1>1, <2>1 DEF Stopped
  <2> QED
    BY <1>1, <2>2 DEF CovarianceFollowsState
<1> QED
  BY <1>1, <1>2, <1>3, <1>4, HistoryKept DEF Inv

LEMMA FinishInv == ASSUME Inv, Finish
                   PROVE  Inv'
<1> DEFINE r == [iterations |-> iters, converged |-> Converged, stop |-> stop,
                 points |-> points, bare |-> Bare]
           n == Len(results)
<1>1. /\ phase = "updated" /\ phase' = "idle" /\ results' = Append(results, r)
      /\ P' = IF gain = NoGain THEN P ELSE [P EXCEPT !.step = gain + 1]
      /\ UNCHANGED <<points, x, iters, gain, stop>>
  BY DEF Finish
<1>2. /\ results \in Seq(Results) /\ iters \in 0..MaxIterations /\ points \in Nat
      /\ P \in Estimates /\ x \in Estimates
      /\ x.scan = n + 1 /\ x.step = iters /\ P.scan = n + 1 /\ P.step = 0
      /\ gain = IF iters = 0 THEN NoGain ELSE iters - 1
      /\ iters > 0 => ~Bare
  BY <1>1 DEF Inv, Typed, InUpdate, Scan
<1>3. Converged <=> stop = "near" \/ iters = 0
  BY <1>2 DEF Converged, NoGain
<1>4. stop \in Stops /\ (stop = "near" => iters > 0) /\ (stop = "cap" => iters = MaxIterations)
  BY <1>1 DEF Inv, Stopped, Stops
<1>5. r \in Results
  BY <1>2, <1>4 DEF Results, Converged, Bare
<1>6. /\ results' \in Seq(Results) /\ results' # <<>>
      /\ n \in Nat /\ Len(results') = n + 1 /\ results'[n + 1] = r
      /\ \A i \in 1..n : results'[i] = results[i]
  BY <1>1, <1>2, <1>5, AppendFacts
<1>7. P' = x
  <2>1. /\ P = [scan |-> n + 1, step |-> 0]
        /\ x = [scan |-> n + 1, step |-> iters]
    BY <1>2 DEF Estimates
  <2>2. CASE iters = 0
    <3>1. gain = NoGain /\ P' = P
      BY <1>1, <1>2, <2>2
    <3> QED
      BY <2>1, <2>2, <3>1
  <2>3. CASE iters # 0
    <3>1. gain = iters - 1 /\ gain + 1 = iters /\ gain # NoGain
      BY <1>2, <2>3 DEF NoGain
    <3>2. P' = [P EXCEPT !.step = iters]
      BY <1>1, <3>1
    <3> QED
      BY <2>1, <3>2
  <2> QED
    BY <2>2, <2>3
<1>8. Typed' /\ InUpdate' /\ Stopped' /\ Unseated' /\ CovarianceFollowsState'
  BY <1>1, <1>2, <1>6, <1>7 DEF Inv, Typed, InUpdate, Stopped, Unseated, CovarianceFollowsState
<1>9. ReportExplainsStop'
  <2>1. /\ r.converged = Converged /\ r.stop = stop /\ r.iterations = iters
    OBVIOUS
  <2> HIDE DEF r
  <2> SUFFICES ASSUME NEW i \in 1..(n + 1)
               PROVE  /\ results'[i].converged <=>
                             results'[i].stop = "near" \/ results'[i].iterations = 0
                      /\ results'[i].stop = "near" => results'[i].iterations > 0
                      /\ results'[i].stop = "cap" => results'[i].iterations = MaxIterations
    BY <1>6 DEF ReportExplainsStop
  <2>2. CASE i = n + 1
    BY <1>3, <1>4, <1>6, <2>1, <2>2
  <2>3. CASE i \in 1..n
    BY <1>6, <2>3 DEF Inv, ReportExplainsStop
  <2> QED
    BY <1>6, <2>2, <2>3
<1>10. MapHoldsPosteriors'
  <2>1. r.iterations = iters /\ Len(results') = n + 1
    BY <1>6
  <2> SUFFICES ASSUME NEW p \in map'
               PROVE  p.scan \in 1..(n + 1) /\ p.step = results'[p.scan].iterations
    BY <1>6, <2>1 DEF MapHoldsPosteriors
  <2>2. p \in map \/ (p.scan = x.scan /\ p.step = x.step)
    BY DEF Finish, Grow, Registered
  <2>3. CASE p \in map
    BY <1>6, <2>3 DEF Inv, MapHoldsPosteriors
  <2>4. CASE p.scan = x.scan /\ p.step = x.step
    BY <1>2, <1>6, <2>1, <2>4
  <2> QED
    BY <2>2, <2>3, <2>4
<1>11. BareMapCorrectsNothing'
  <2>1. r.bare = Bare /\ r.iterations = iters /\ r.points = points
    OBVIOUS
  <2>2. \A i \in 1..(n + 1) : results'[i].bare => results'[i].iterations = 0
    <3> HIDE DEF r
    <3>1. r.bare => r.iterations = 0
      BY <1>2, <2>1
    <3> QED
      BY <1>6, <3>1 DEF Inv, BareMapCorrectsNothing
  <2>3. ASSUME n + 1 = 1
        PROVE  r.bare /\ {p.point : p \in map'} = 1..points
    <3>1. results = <<>>
      BY <1>2, <1>6, <2>3, EmptySeq
    <3>2. map = {} /\ ~seated
      BY <3>1 DEF Inv, Unseated
    <3>3. Bare
      BY <3>2, FS_EmptySet DEF Bare
    <3>4. map' = Registered
      BY <3>2 DEF Finish, Grow
    <3>5. {p.point : p \in Registered} = 1..points
      <4>1. ASSUME NEW i \in 1..points
            PROVE  \E p \in Registered : p.point = i
        <5>1. [scan |-> x.scan, step |-> x.step, point |-> i] \in Registered
          BY DEF Registered
        <5> QED
          BY <5>1
      <4>2. \A p \in Registered : p.point \in 1..points
        BY DEF Registered
      <4> QED
        BY <4>1, <4>2
    <3> QED
      BY <2>1, <3>3, <3>4, <3>5
  <2> QED
    BY <1>6, <2>1, <2>2, <2>3 DEF BareMapCorrectsNothing
<1> QED
  BY <1>8, <1>9, <1>10, <1>11 DEF Inv

LEMMA NextInv == Inv /\ [Next]_vars => Inv'
<1> SUFFICES ASSUME Inv, [Next]_vars
             PROVE  Inv'
  OBVIOUS
<1>1. CASE Next
  BY <1>1, PredictInv, IterateInv, LeaveInv, FinishInv DEF Next, ProcessScan
<1>2. CASE UNCHANGED vars
  <2>1. UNCHANGED <<phase, points, x, P, iters, gain, stop, map, seated, results>>
    BY <1>2 DEF vars
  <2>2. Typed' /\ Stopped' /\ CovarianceFollowsState'
    BY <2>1 DEF Inv, Typed, Stopped, CovarianceFollowsState
  <2>3. InUpdate'
    BY <2>1, HistoryKept DEF Inv, InUpdate
  <2> QED
    BY <2>1, <2>2, <2>3, HistoryKept DEF Inv
<1> QED
  BY <1>1, <1>2

LEMMA InvHolds == Spec => []Inv
BY InitInv, NextInv, PTL DEF Spec

-----------------------------------------------------------------------------
\* The rest of the types, on top of Inv.
Rest ==
    /\ stop \in {""} \union Stops
    /\ map \subseteq [scan : Nat, step : Nat, point : Nat]
    /\ seated \in BOOLEAN

LEMMA InitRest == Init => Rest
BY DEF Init, Rest

LEMMA LoopRest ==
    ASSUME Rest, UNCHANGED <<map, seated>>,
           stop' \in {"", stop, "near", "unobserved", "cap"}
    PROVE  Rest'
BY DEF Rest, Stops

LEMMA FinishRest == ASSUME Inv, Rest, Finish
                    PROVE  Rest'
<1>1. stop' = stop /\ seated' = TRUE /\ map' \subseteq map \union Registered
  BY DEF Finish, Grow
<1>2. Registered \subseteq [scan : Nat, step : Nat, point : Nat]
  <2>1. x.scan \in Nat /\ x.step \in Nat
    BY DEF Inv, Typed, Estimates
  <2>2. \A i \in 1..points : i \in Nat
    BY DEF Inv, Typed
  <2> QED
    BY <2>1, <2>2 DEF Registered
<1>3. map' \subseteq [scan : Nat, step : Nat, point : Nat]
  BY <1>1, <1>2 DEF Rest
<1> QED
  BY <1>1, <1>3 DEF Rest

LEMMA NextRest == Inv /\ Rest /\ [Next]_vars => Rest'
<1> SUFFICES ASSUME Inv, Rest, [Next]_vars
             PROVE  Rest'
  OBVIOUS
<1>1. CASE Finish
  BY <1>1, FinishRest
<1>2. CASE \E n \in ScanSizes : Predict(n)
  BY <1>2, LoopRest DEF Predict
<1>3. CASE \E near \in BOOLEAN : Iterate(near)
  BY <1>3, LoopRest DEF Iterate
<1>4. CASE Unobserved \/ Exhaust
  BY <1>4, LoopRest DEF Unobserved, Exhaust
<1>5. CASE UNCHANGED vars
  BY <1>5, LoopRest DEF vars
<1> QED
  BY <1>1, <1>2, <1>3, <1>4, <1>5 DEF Next, ProcessScan

-----------------------------------------------------------------------------
\* The types: no more iterations than the cap, and a result only of a loop that
\* has ended (iekf.cpp:20-58).
THEOREM TypeCorrect == Spec => []TypeOK
<1>1. Inv /\ Rest => TypeOK
  BY DEF Inv, Typed, Rest, TypeOK, Results
<1>2. Spec => []Rest
  BY InvHolds, InitRest, NextRest, PTL DEF Spec
<1> QED
  BY InvHolds, <1>1, <1>2, PTL

\* Between two scans the covariance belongs to the state (iekf.cpp:47-58).
THEOREM CovarianceBelongs == Spec => []CovarianceFollowsState
<1>1. Inv => CovarianceFollowsState
  BY DEF Inv
<1> QED
  BY InvHolds, <1>1, PTL

\* A result says truly how its loop ended (iekf.cpp:20-51).
THEOREM ReportsTrue == Spec => []ReportExplainsStop
<1>1. Inv => ReportExplainsStop
  BY DEF Inv
<1> QED
  BY InvHolds, <1>1, PTL

\* The map is made of posteriors (iterated_ekf.cpp:46-54).
THEOREM PosteriorsMapped == Spec => []MapHoldsPosteriors
<1>1. Inv => MapHoldsPosteriors
  BY DEF Inv
<1> QED
  BY InvHolds, <1>1, PTL

\* Without a full neighborhood nothing is corrected, and the first scan seats
\* the map (association.cpp:52, iterated_ekf.h:31-32).
THEOREM BareMapsInert == Spec => []BareMapCorrectsNothing
<1>1. Inv => BareMapCorrectsNothing
  BY DEF Inv
<1> QED
  BY InvHolds, <1>1, PTL

-----------------------------------------------------------------------------
(* The couplings.  The covariance only grows, so what a propagation couples  *)
(* stays coupled; and no product leads from the motion to a pinned           *)
(* extrinsic.                                                                *)

CovType == pinned \in BOOLEAN /\ cov \in [Blocks -> SUBSET Blocks] /\ steps \in Nat

\* A pinned extrinsic has neither rows nor columns.
Apart(A) ==
    /\ \A b \in Motion : A[b] \subseteq Motion
    /\ \A b \in Extrinsic : A[b] = {}

Pinned == pinned => Apart(cov) /\ moved \subseteq Motion

\* What one and two propagations couple with what is observed.
Reached ==
    /\ \A b \in Motion : b \in cov[b]
    /\ steps >= 1 => /\ "theta" \in cov["bg"] /\ "pos" \in cov["vel"]
                     /\ "vel" \in cov["ba"] /\ "vel" \in cov["g"]
    /\ steps >= 2 => "pos" \in cov["ba"] /\ "pos" \in cov["g"]

\* Before the first, the observed blocks are coupled among themselves at most.
Seedlike(A) ==
    \A b \in Blocks : A[b] \subseteq (IF b \in Observed THEN Observed ELSE {b})

Unreached == steps = 0 => Seedlike(cov) /\ moved \subseteq Observed

IInv == CovType /\ Pinned /\ Reached /\ Unreached

Matrices == [Blocks -> SUBSET Blocks]

-----------------------------------------------------------------------------
LEMMA ProductType ==
    ASSUME NEW A \in Matrices, NEW B \in Matrices
    PROVE  Times(A, B) \in Matrices
  BY DEF Times, Matrices

LEMMA TransitionType ==
    Transition \in Matrices /\ ProcessNoise \in Matrices /\ Diagonal(Blocks) \in Matrices
  BY DEF Transition, ProcessNoise, Diagonal, Matrices, Blocks, Motion, Extrinsic

Fd == Plus(Diagonal(Blocks), Transition)

\* The rows of F_d: every block itself, and what drives it.
LEMMA TransitionRows ==
    /\ Fd \in Matrices
    /\ \A b \in Blocks : b \in Fd[b]
    /\ \A b \in Motion : Fd[b] \subseteq Motion
    /\ \A b \in Extrinsic : Fd[b] = {b}
    /\ "bg" \in Fd["theta"] /\ "vel" \in Fd["pos"]
    /\ "ba" \in Fd["vel"] /\ "g" \in Fd["vel"]
  <1>1. Fd = [b \in Blocks |-> {b} \union Transition[b]]
    BY DEF Fd, Plus, Diagonal
  <1>2. \A b \in Motion : b \in Blocks /\ Transition[b] \subseteq Motion
    BY DEF Transition, Motion, Blocks
  <1>3. \A b \in Extrinsic : b \in Blocks /\ Transition[b] = {}
    BY DEF Transition, Extrinsic, Blocks
  <1>4. /\ "bg" \in Transition["theta"] /\ "vel" \in Transition["pos"]
        /\ "ba" \in Transition["vel"] /\ "g" \in Transition["vel"]
        /\ {"theta", "pos", "vel"} \subseteq Blocks
    BY DEF Transition, Motion, Blocks
  <1>5. Fd \in Matrices
    BY <1>1, TransitionType DEF Matrices
  <1>6. \A b \in Blocks : Fd[b] = {b} \union Transition[b]
    BY <1>1
  <1> QED
    BY <1>2, <1>3, <1>4, <1>5, <1>6

\* An entry of a propagated covariance: a path through F_d, P and F_d again, or
\* the noise.
LEMMA Entries ==
    ASSUME NEW A \in Matrices
    PROVE  /\ Propagated(A) \in Matrices
           /\ \A i, j \in Blocks :
                  j \in Propagated(A)[i] <=>
                      \/ \E k \in Fd[i], l \in Fd[j] : l \in A[k]
                      \/ j \in ProcessNoise[i]
  <1>1. Fd \in Matrices /\ ProcessNoise \in Matrices
    BY TransitionRows, TransitionType
  <1>2. Transposed(Fd) \in Matrices
    BY DEF Transposed, Matrices
  <1>3. Times(Fd, A) \in Matrices /\ Times(Times(Fd, A), Transposed(Fd)) \in Matrices
    BY <1>1, <1>2, ProductType
  <1>4. Propagated(A) = Plus(Times(Times(Fd, A), Transposed(Fd)), ProcessNoise)
    BY DEF Propagated, Fd
  <1>5. Propagated(A) \in Matrices
    BY <1>1, <1>3, <1>4 DEF Plus, Matrices
  <1>6. ASSUME NEW i \in Blocks, NEW j \in Blocks
        PROVE  j \in Times(Times(Fd, A), Transposed(Fd))[i]
                   <=> \E k \in Fd[i], l \in Fd[j] : l \in A[k]
    <2>1. Times(Fd, A)[i] = UNION {A[k] : k \in Fd[i]}
      BY DEF Times
    <2>2. Times(Times(Fd, A), Transposed(Fd))[i]
              = UNION {Transposed(Fd)[l] : l \in Times(Fd, A)[i]}
      BY DEF Times
    <2>3. \A l \in Blocks : j \in Transposed(Fd)[l] <=> l \in Fd[j]
      BY <1>1 DEF Transposed, Matrices
    <2>4. Times(Fd, A)[i] \subseteq Blocks /\ Fd[j] \subseteq Blocks
      BY <1>1, <1>3 DEF Matrices
    <2> QED
      BY <2>1, <2>2, <2>3, <2>4
  <1>7. \A i \in Blocks : Propagated(A)[i]
            = Times(Times(Fd, A), Transposed(Fd))[i] \union ProcessNoise[i]
    BY <1>4 DEF Plus
  <1> QED
    BY <1>5, <1>6, <1>7

\* Updates and propagations only add blocks.
LEMMA Grows ==
    ASSUME NEW A \in Matrices
    PROVE  /\ Updated(A) \in Matrices
           /\ \A b \in Blocks : A[b] \subseteq Updated(A)[b] /\ A[b] \subseteq Propagated(A)[b]
  <1>1. Gain(A) \in Matrices
    BY DEF Gain, Matrices, Observed, Blocks, Motion, Extrinsic
  <1>2. Times(Gain(A), A) \in Matrices
    BY <1>1, ProductType
  <1>3. Updated(A) \in Matrices /\ \A b \in Blocks : A[b] \subseteq Updated(A)[b]
    BY <1>2 DEF Updated, Plus, Matrices
  <1>4. \A b \in Blocks : A[b] \subseteq Propagated(A)[b]
    BY Entries, TransitionRows DEF Matrices
  <1> QED
    BY <1>3, <1>4

-----------------------------------------------------------------------------
LEMMA ApartKept ==
    ASSUME NEW A \in Matrices, Apart(A)
    PROVE  Apart(Propagated(A)) /\ Apart(Updated(A)) /\ Corrected(A) \subseteq Motion
  <1>1. Motion \subseteq Blocks /\ Extrinsic \subseteq Blocks /\ Motion \intersect Extrinsic = {}
        /\ Blocks = Motion \union Extrinsic
    BY DEF Motion, Extrinsic, Blocks
  <1>2. \A b \in Motion : ProcessNoise[b] \subseteq Motion
    BY DEF ProcessNoise, Diagonal, Blocks, Motion
  <1>3. \A b \in Extrinsic : ProcessNoise[b] = {}
    BY DEF ProcessNoise, Diagonal, Blocks, Motion, Extrinsic
  <1>4. \A i, j \in Blocks :
            j \in Propagated(A)[i] => i \in Motion /\ j \in Motion
    <2> SUFFICES ASSUME NEW i \in Blocks, NEW j \in Blocks, j \in Propagated(A)[i]
                 PROVE  i \in Motion /\ j \in Motion
      OBVIOUS
    <2>1. CASE j \in ProcessNoise[i]
      BY <2>1, <1>1, <1>2, <1>3
    <2>2. CASE \E k \in Fd[i], l \in Fd[j] : l \in A[k]
      <3>1. PICK k \in Fd[i], l \in Fd[j] : l \in A[k]
        BY <2>2
      <3>2. k \in Blocks /\ l \in Blocks
        BY TransitionRows DEF Matrices
      <3>3. k \in Motion /\ l \in Motion
        BY <3>1, <3>2, <1>1 DEF Apart
      <3> QED
        BY <3>1, <3>3, <1>1, TransitionRows
    <2> QED
      BY Entries, <2>1, <2>2
  <1>5. Apart(Propagated(A))
    <2>1. \A b \in Blocks : Propagated(A)[b] \subseteq Blocks
      BY Entries DEF Matrices
    <2>2. \A b \in Motion : Propagated(A)[b] \subseteq Motion
      BY <2>1, <1>1, <1>4
    <2>3. \A b \in Extrinsic : Propagated(A)[b] = {}
      BY <2>1, <1>1, <1>4
    <2> QED
      BY <2>2, <2>3 DEF Apart
  <1>6. Corrected(A) \subseteq Motion
    BY <1>1 DEF Corrected, Apart
  <1>7. ASSUME NEW b \in Blocks
        PROVE  /\ b \in Motion => Times(Gain(A), A)[b] \subseteq Motion
               /\ b \in Extrinsic => Times(Gain(A), A)[b] = {}
    <2>1. Times(Gain(A), A)[b] = UNION {A[k] : k \in Gain(A)[b]}
      BY DEF Times
    <2>2. \A k \in Observed : k \in Blocks /\ A[k] \subseteq Motion
      BY <1>1 DEF Observed, Motion, Extrinsic, Blocks, Apart
    <2>3. Gain(A)[b] = IF b \in Corrected(A) THEN Observed ELSE {}
      BY DEF Gain
    <2> QED
      BY <2>1, <2>2, <2>3, <1>1, <1>6
  <1>8. Apart(Updated(A))
    BY <1>1, <1>7 DEF Apart, Updated, Plus
  <1> QED
    BY <1>5, <1>6, <1>8

LEMMA SeedlikeKept ==
    ASSUME NEW A \in Matrices, Seedlike(A)
    PROVE  Seedlike(Updated(A)) /\ Corrected(A) \subseteq Observed
  <1>1. Observed \subseteq Blocks
    BY DEF Observed, Extrinsic, Blocks, Motion
  <1>2. Corrected(A) \subseteq Observed
    BY DEF Corrected, Seedlike
  <1>3. ASSUME NEW b \in Blocks
        PROVE  Times(Gain(A), A)[b] \subseteq (IF b \in Observed THEN Observed ELSE {})
    <2>1. Times(Gain(A), A)[b] = UNION {A[k] : k \in Gain(A)[b]}
      BY DEF Times
    <2>2. Gain(A)[b] = IF b \in Corrected(A) THEN Observed ELSE {}
      BY DEF Gain
    <2>3. \A k \in Observed : A[k] \subseteq Observed
      BY <1>1 DEF Seedlike
    <2> QED
      BY <2>1, <2>2, <2>3, <1>2
  <1>4. Seedlike(Updated(A))
    BY <1>3 DEF Seedlike, Updated, Plus
  <1> QED
    BY <1>2, <1>4

LEMMA ReachedStep ==
    ASSUME NEW A \in Matrices, \A b \in Motion : b \in A[b]
    PROVE  /\ "theta" \in Propagated(A)["bg"] /\ "pos" \in Propagated(A)["vel"]
           /\ "vel" \in Propagated(A)["ba"] /\ "vel" \in Propagated(A)["g"]
           /\ "vel" \in A["ba"] => "pos" \in Propagated(A)["ba"]
           /\ "vel" \in A["g"] => "pos" \in Propagated(A)["g"]
  <1>1. {"theta", "pos", "vel", "bg", "ba", "g"} \subseteq Blocks
        /\ {"theta", "pos", "vel", "bg", "ba", "g"} \subseteq Motion
    BY DEF Blocks, Motion
  <1>2. "bg" \in Fd["bg"] /\ "bg" \in Fd["theta"] /\ "bg" \in A["bg"]
    BY <1>1, TransitionRows
  <1>3. "vel" \in Fd["vel"] /\ "vel" \in Fd["pos"] /\ "vel" \in A["vel"]
    BY <1>1, TransitionRows
  <1>4. "ba" \in Fd["ba"] /\ "ba" \in Fd["vel"] /\ "ba" \in A["ba"]
    BY <1>1, TransitionRows
  <1>5. "g" \in Fd["g"] /\ "g" \in Fd["vel"] /\ "g" \in A["g"]
    BY <1>1, TransitionRows
  <1> QED
    BY <1>1, <1>2, <1>3, <1>4, <1>5, Entries

-----------------------------------------------------------------------------
LEMMA InitIInv == CoupledInit => IInv
  <1> SUFFICES ASSUME CoupledInit PROVE IInv
    OBVIOUS
  <1>1. CovType /\ Pinned
    BY DEF CoupledInit, CovType, Pinned, Apart, Seed, Diagonal, Blocks, Motion, Extrinsic
  <1>2. Reached /\ Unreached
    BY DEF CoupledInit, Reached, Unreached, Seedlike, Seed, Diagonal, Blocks, Motion,
           Extrinsic, Observed
  <1> QED
    BY <1>1, <1>2 DEF IInv

LEMMA NextIInv == IInv /\ [CoupledNext]_allVars => IInv'
  <1> SUFFICES ASSUME IInv, [CoupledNext]_allVars PROVE IInv'
    OBVIOUS
  <1> USE DEF IInv
  <1>0. cov \in Matrices
    BY DEF CovType, Matrices
  <1>1. CASE Propagate
    <2>1. CovType'
      BY <1>0, <1>1, Entries DEF Propagate, CovType, Matrices
    <2>2. Pinned'
      BY <1>0, <1>1, ApartKept DEF Propagate, Pinned
    <2>3. steps' >= 2 => steps >= 1
      BY <1>1 DEF Propagate, CovType
    <2>4. Reached'
      <3>1. \A b \in Motion : b \in cov'[b]
        BY <1>0, <1>1, Grows DEF Propagate, Reached, Blocks
      <3>2. /\ "theta" \in cov'["bg"] /\ "pos" \in cov'["vel"]
            /\ "vel" \in cov'["ba"] /\ "vel" \in cov'["g"]
        BY <1>0, <1>1, ReachedStep DEF Propagate, Reached
      <3>3. steps' >= 2 => "pos" \in cov'["ba"] /\ "pos" \in cov'["g"]
        BY <1>0, <1>1, <2>3, ReachedStep DEF Propagate, Reached
      <3> QED
        BY <3>1, <3>2, <3>3 DEF Reached
    <2>5. Unreached'
      BY <1>1, CouplingAssumption DEF Propagate, Unreached, CovType
    <2> QED
      BY <2>1, <2>2, <2>4, <2>5
  <1>2. CASE \E near \in BOOLEAN : CoupledIterate(near)
    <2>1. moved' = moved \union Corrected(cov) /\ UNCHANGED <<pinned, cov, steps>>
      BY <1>2 DEF CoupledIterate
    <2>2. Pinned'
      BY <1>0, <2>1, ApartKept DEF Pinned
    <2>3. Unreached'
      BY <1>0, <2>1, SeedlikeKept DEF Unreached
    <2> QED
      BY <2>1, <2>2, <2>3 DEF CovType, Reached
  <1>3. CASE CoupledFinish /\ gain # NoGain
    <2>1. cov' = Updated(cov) /\ UNCHANGED <<pinned, steps, moved>>
      BY <1>3 DEF CoupledFinish
    <2>2. CovType'
      BY <1>0, <2>1, Grows DEF CovType, Matrices
    <2>3. Pinned'
      BY <1>0, <2>1, ApartKept DEF Pinned
    <2>4. Reached'
      BY <1>0, <2>1, Grows DEF Reached, Blocks, Motion
    <2>5. Unreached'
      BY <1>0, <2>1, SeedlikeKept DEF Unreached
    <2> QED
      BY <2>2, <2>3, <2>4, <2>5
  <1>4. CASE UNCHANGED couplingVars
    BY <1>4 DEF couplingVars, CovType, Pinned, Reached, Unreached
  <1>5. CASE CoupledFinish /\ gain = NoGain
    BY <1>5, <1>4 DEF CoupledFinish, couplingVars
  <1> QED
    BY <1>1, <1>2, <1>3, <1>4, <1>5
    DEF CoupledNext, CoupledProcessScan, CoupledPredict, allVars

THEOREM Coupling == CoupledSpec => []IInv
  BY InitIInv, NextIInv, PTL DEF CoupledSpec

\* A pinned extrinsic is never corrected nor coupled, after any number of scans
\* (slam_pipeline.cpp:30-35).
THEOREM ExtrinsicStays == CoupledSpec => []PinnedExtrinsicStays
  <1>1. IInv => PinnedExtrinsicStays
    BY DEF IInv, Pinned, Apart, PinnedExtrinsicStays, Motion, Extrinsic, Blocks
  <1> QED
    BY <1>1, Coupling, PTL

\* From the second IMU interval on, scans correct every block of the motion
\* (propagator.cpp:103-118).
THEOREM HiddenReached == CoupledSpec => []HiddenStatesReached
  <1>1. IInv => HiddenStatesReached
    <2> SUFFICES ASSUME IInv PROVE HiddenStatesReached
      OBVIOUS
    <2>1. steps >= 2 => Motion \subseteq Corrected(cov)
      <3> SUFFICES ASSUME steps >= 2, NEW b \in Motion PROVE b \in Corrected(cov)
        OBVIOUS
      <3>1. steps >= 1
        BY DEF IInv, CovType
      <3>2. cov[b] \intersect {"theta", "pos"} # {}
        BY <3>1 DEF IInv, Reached, Motion
      <3> QED
        BY <3>2 DEF Corrected, Observed, Blocks
    <2>2. steps = 0 => moved \subseteq Observed
      BY DEF IInv, Unreached
    <2> QED
      BY <2>1, <2>2 DEF HiddenStatesReached
  <1> QED
    BY <1>1, Coupling, PTL
=============================================================================
