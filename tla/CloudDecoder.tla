---------------------------- MODULE CloudDecoder ----------------------------
(***************************************************************************)
(* The three cloud decoders of src/io/ros_deserializer.cpp: what a message *)
(* on the wire says of the times of its points, and the offsets from the   *)
(* stamp that the rest of the program works with.  The stamp and offsets   *)
(* count ticks of an integer clock (nanoseconds); the time of a point and  *)
(* a time in seconds count parts of a tick, and a double of seconds only   *)
(* has every FloatStep-th of them.  Positions pass through.                *)
(*                                                                         *)
(* In the seconds from 2^30 to 2^31 (2004 to 2038) a double has a step of  *)
(* 2^-22 s: FloatStep is 5^9 when a tick has 2^13 parts.  There the        *)
(* difference of two such times and its product with 1e9 are exact, and no *)
(* stamp in nanoseconds is half way between two doubles.                   *)
(***************************************************************************)
EXTENDS Integers, Sequences

CONSTANTS
    OffsetLimit,  \* 2^32, what a uint32_t of nanoseconds cannot hold
    Parts,        \* the parts of a tick
    FloatStep     \* the parts between a double of seconds and the next

ASSUME DecoderAssumption ==
    OffsetLimit \in Nat \ {0} /\ Parts \in Nat \ {0} /\ FloatStep \in Nat \ {0}

\* find(): the first of the names that the message has.
FirstPresent(names, present) ==
    LET there == {i \in 1..Len(names) : names[i] \in present}
    IN  IF there = {} THEN "" ELSE names[CHOOSE i \in there : \A j \in there : i <= j]

TimeNames == <<"t", "time", "timestamp">>

\* The double nearest to a time.
Rounded(time) == FloatStep * ((2 * time + FloatStep) \div (2 * FloatStep))

\* Timestamp::to_sec().
ToSec(stamp) == Rounded(Parts * stamp)

\* A time in parts as unsigned ticks.
Truncated(time) == IF time > 0 THEN time \div Parts ELSE 0

\* read_as_u32() and read_as_double(): the datatypes they know, zero otherwise.
AsU32(datatype, value) ==
    IF datatype \in {"uint8", "uint16", "uint32", "float32"} THEN value ELSE 0

AsDouble(datatype, value) ==
    IF datatype \in {"float64", "float32", "uint32"} THEN value ELSE 0

\* The time of one point since the stamp, by time_mode.
OffsetUnshifted(mode, stamp, datatype, value) ==  \* mutant
    IF mode = "absolute" THEN Truncated(AsDouble(datatype, value))
    ELSE AsU32(datatype, value)

Offset32(mode, stamp, datatype, value) ==
    IF mode = "absolute" THEN Truncated(AsDouble(datatype, value) - ToSec(stamp))
    ELSE AsU32(datatype, value)

\* Seconds past the range of a uint32_t convert to any: the cast is undefined.
Converted(time) ==
    LET wild == {i \in DOMAIN time : time[i] >= OffsetLimit}
    IN  {[i \in DOMAIN time |-> IF i \in wild THEN any[i] ELSE time[i]] :
            any \in [wild -> 0..(OffsetLimit - 1)]}

\* deserialize_pointcloud2(): a cloud without a field for time has all its
\* points at the stamp.
PointCloud2(mode, msg) ==
    LET name == FirstPresent(TimeNames, DOMAIN msg.fields)
        time == [i \in 1..Len(msg.points) |->
                    IF name = "" THEN 0
                    ELSE Offset32(mode, msg.stamp, msg.fields[name], msg.points[i].times[name])]
    IN  {[stamp |-> msg.stamp, offsets |-> offsets,
          points |-> [i \in 1..Len(msg.points) |-> msg.points[i].pos]] :
            offsets \in Converted(time)}

\* deserialize_livox_custommsg(): the timebase of the message is not read.
LivoxCustomMsg(msg) ==
    {[stamp |-> msg.stamp,
      offsets |-> [i \in 1..Len(msg.points) |-> msg.points[i].times["offset_time"]],
      points |-> [i \in 1..Len(msg.points) |-> msg.points[i].pos]]}

\* decode_cloud() of the loaders of src/io/dataset_loader.cpp.
DecodeCloud(decoder, msg) ==
    CASE decoder = "ouster" -> PointCloud2("relative", msg)
      [] decoder = "hesai"  -> PointCloud2("absolute", msg)
      [] decoder = "livox"  -> LivoxCustomMsg(msg)

-----------------------------------------------------------------------------
\* The drivers: how a sweep, its stamp and the time at which each point was
\* taken, is put on the wire.  Modelled from what the decoders expect: one that
\* counts from the stamp has no point before it and 32 bits for the rest, one
\* that tells the time has a double for it.
Late(sweep, i) == Truncated(sweep.points[i].at - Parts * sweep.stamp)

Point(decoder, sweep, i) ==
    [pos |-> sweep.points[i].pos,
     times |-> CASE decoder = "ouster" -> [t |-> Late(sweep, i) % OffsetLimit]
                 [] decoder = "hesai"  -> [timestamp |-> Rounded(sweep.points[i].at)]
                 [] decoder = "livox"  -> [offset_time |-> Late(sweep, i) % OffsetLimit]]

OnWire(decoder, sweep) ==
    [stamp |-> sweep.stamp,
     fields |-> CASE decoder = "ouster" -> [x |-> "float32", t |-> "uint32"]
                  [] decoder = "hesai"  -> [x |-> "float32", timestamp |-> "float64"]
                  [] decoder = "livox"  -> [x |-> "float32"],
     points |-> [i \in 1..Len(sweep.points) |-> Point(decoder, sweep, i)]]

\* The time since the stamp; a point before it counts as one at it.
Due(sweep, i) ==
    LET late == sweep.points[i].at - Parts * sweep.stamp IN IF late > 0 THEN late ELSE 0

\* What two roundings to a double may add or take away: less than a step.
Slack(decoder) == IF decoder = "hesai" THEN FloatStep - 1 ELSE 0

\* The offset of every point that is not past the range is its time since the
\* stamp in whole ticks, to within one step of the doubles if they are what
\* brings the time: never a time on another clock, in another unit or before
\* the stamp.  And no point overtakes one that was taken before it.
Normalized(decoder, sweep, cloud) ==
    LET slack == Slack(decoder)
        within == {i \in 1..Len(sweep.points) : Due(sweep, i) + slack < Parts * OffsetLimit}
    IN  /\ cloud.stamp = sweep.stamp
        /\ Len(cloud.offsets) = Len(sweep.points)
        /\ \A i \in within : /\ Parts * cloud.offsets[i] <= Due(sweep, i) + slack
                             /\ Due(sweep, i) - slack < Parts * (cloud.offsets[i] + 1)
        /\ \A i, j \in within : sweep.points[i].at <= sweep.points[j].at =>
                                   cloud.offsets[i] <= cloud.offsets[j]
=============================================================================
