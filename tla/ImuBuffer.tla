----------------------------- MODULE ImuBuffer ------------------------------
(***************************************************************************)
(* The chronological store of IMU samples of src/core/imu/buffer.cpp, as   *)
(* operators on the sequence of its stamps.  An element of a window is a   *)
(* sample (lo = hi) or a blend of the two samples lo and hi at time t; its *)
(* readings are left out.                                                  *)
(***************************************************************************)
EXTENDS Integers, Sequences, FiniteSetsExt

CoversStrictly(data, t0, t1) ==  \* mutant
    /\ data # <<>>
    /\ data[1] <= t0
    /\ data[Len(data)] > t1

Covers(data, t0, t1) ==
    /\ data # <<>>
    /\ data[1] <= t0
    /\ data[Len(data)] >= t1

\* The first position whose stamp is at least t, or the one past the end.
LowerBound(data, t) == Min({i \in 1..Len(data) : data[i] >= t} \union {Len(data) + 1})

\* The first position whose stamp is greater than t, or the one past the end.
UpperBound(data, t) == Min({i \in 1..Len(data) : data[i] > t} \union {Len(data) + 1})

Sample(data, i) == [t |-> data[i], lo |-> i, hi |-> i]

Interpolate(i, j, t) == [t |-> t, lo |-> i, hi |-> j]

\* The samples from position from to the one before to, in order.
Samples(data, from, to) ==
    SubSeq([i \in 1..Len(data) |-> Sample(data, i)], from, to - 1)

\* The samples of a window that are strictly inside it; as the stamps increase,
\* the ones that pass the test of the loop are neighbours.
InteriorClosed(data, t0, t1) ==  \* mutant
    Samples(data, LowerBound(data, t0), LowerBound(data, t1))

Interior(data, t0, t1) == Samples(data, UpperBound(data, t0), LowerBound(data, t1))

\* Defined when Covers(data, t0, t1); the code throws otherwise.
GetBetween(data, t0, t1) ==
    LET from == LowerBound(data, t0)
        to == UpperBound(data, t1)
        first == IF from = 1 \/ data[from] = t0
                 THEN Sample(data, from)
                 ELSE Interpolate(from - 1, from, t0)
        last == IF to <= Len(data) /\ data[to - 1] < t1
                THEN <<Interpolate(to - 1, to, t1)>>
                ELSE <<>>
    IN  <<first>> \o Interior(data, t0, t1) \o last

\* What a window over [t0, t1] is for the filter: it begins at t0, its times
\* do not go back, it holds every sample strictly inside once, and a blended
\* element lies strictly between two neighbouring samples, so that the weight
\* of interpolate() divides by a positive time and never extrapolates.
SoundWindow(data, t0, t1) ==
    LET w == GetBetween(data, t0, t1)
    IN  /\ w[1].t = t0
        /\ \A k \in 1..(Len(w) - 1) : w[k].t <= w[k + 1].t
        /\ \A i \in 1..Len(data) :
               t0 < data[i] /\ data[i] < t1 => \E k \in 1..Len(w) : w[k] = Sample(data, i)
        /\ \A k, m \in 1..Len(w) : w[k] = w[m] /\ k # m => t0 = t1
        /\ \A k \in 1..Len(w) :
               w[k].lo # w[k].hi => /\ w[k].hi = w[k].lo + 1
                                    /\ data[w[k].lo] < w[k].t
                                    /\ w[k].t < data[w[k].hi]
=============================================================================
