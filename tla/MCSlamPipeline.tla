--------------------------- MODULE MCSlamPipeline ---------------------------
(***************************************************************************)
(* IMU samples one or two ticks apart, clouds that are instantaneous or    *)
(* one tick long, out of order and overlapping, on and off the stamps of   *)
(* the IMU; one without times, one whose shifted stamp wraps, one longer   *)
(* than the IMU history, and one that ends with the last IMU sample.       *)
(***************************************************************************)
EXTENDS SlamPipeline

MCOffset == -1

MCImuSteps == {1, 2}

Cloud(stamp, length) == [timed |-> TRUE, stamp |-> stamp, lo |-> 0, hi |-> length]

MCClouds ==
    {NoTimes, Cloud(0, 0), Cloud(1, 3), Cloud(2, 1), Cloud(4, 0), Cloud(5, 1), Cloud(8, 0)}
=============================================================================
