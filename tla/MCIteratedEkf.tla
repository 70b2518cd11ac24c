--------------------------- MODULE MCIteratedEkf ----------------------------
(***************************************************************************)
(* Three scans of no, one or two points: an empty map, one below and one   *)
(* with a full neighborhood; loops of one to three iterations that end in  *)
(* each of the three ways.  The IMU windows have up to two intervals, with *)
(* and without an estimated extrinsic.                                     *)
(***************************************************************************)
EXTENDS ErrorCoupling
=============================================================================
