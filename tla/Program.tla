------------------------------ MODULE Program -------------------------------
(***************************************************************************)
(* The program, src/main.cpp: it takes the parameters, makes the loader,   *)
(* opens the bag, empties the output files (src/io/result_writer.cpp), and *)
(* reads the bag with a callback that hands each message to the pipeline   *)
(* and writes what the pipeline returns.  Nothing catches an exception: it *)
(* ends the program, and with it goes what the streams had not yet put     *)
(* into the files.                                                         *)
(*                                                                         *)
(* BagReader and SlamPipeline are composed as they are.  A message is      *)
(* [op, conn, torn, data]; data is a header stamp with, for a cloud, the   *)
(* sweep the driver put on the wire.  The viewer is left out.              *)
(***************************************************************************)
EXTENDS Config, VoxelGrid, SequencesExt

CONSTANTS
    Runs,       \* the invocations: [format, there, params, dir, bag]
    InitImuCount, Offset, WrapBase, MaxScans, Horizon  \* of SlamPipeline

VARIABLES
    bag, topics, filter, reader, pos, inner, delivered,      \* of BagReader
    imu, initImu, ekf, lastRef, pending, control, accepted,
    discarded, results, windows,                             \* of SlamPipeline
    run,        \* the invocation
    stage,      \* the step main() is at, or how it ended
    params,     \* what load_params() returned
    loader,     \* what make_loader() returned
    files,      \* whether the output files were emptied, and their rows since
    clouds      \* history: the sweeps decoded for add_scan(), with their clouds

Reader == INSTANCE BagReader WITH Bags <- {r.bag : r \in Runs}

Pipeline == INSTANCE SlamPipeline WITH ImuSteps <- {}, Clouds <- {}

Formats == {"NTU_VIRAL", "HILTI_22", "FAST_LIVO2"}

\* What a message brings, if it is not torn.
Measured(m) ==
    m.op = "message" =>
        /\ m.data.stamp \in Nat
        /\ m.data.points \in Seq([at : Int, pos : {<<>>} \union [1..3 -> Int]])

\* The stamps of the IMU increase, which ImuBuffer::push() trusts.
ImuIncreases(r) ==
    LET topic == MakeLoader(r.format, r.dir).imu
        conns == {c.conn : c \in {c \in Range(r.bag.index) :
                                      c.op = "connection" /\ c.topic = topic}}
        samples == Reader!MessagesIn(r.bag, conns)
        stamp(m) == r.bag.body[m[1]].messages[m[2]].data.stamp
    IN  \A m \in samples : /\ stamp(m) > 0
                           /\ \A n \in samples : Reader!Before(m, n) => stamp(m) < stamp(n)

ASSUME ProgramAssumption ==
    /\ \A r \in Runs :
           /\ r.format \in Formats
           /\ Reader!WellFormed(r.bag)
           /\ \A c \in Range(r.bag.body) :
                  c.op = "chunk" => \A m \in Range(c.messages) : Measured(m)
           /\ ImuIncreases(r)
           /\ \A s \in DOMAIN r.params.sections :
                  r.params.sections[s].form \in {"map", "list", "scalar"}
    /\ InitImuCount \in Nat \ {0}
    /\ WrapBase \in Nat /\ Offset \in Int /\ WrapBase + Offset >= 0
    /\ MaxScans \in Nat /\ Horizon \in Nat

readerVars == <<bag, topics, filter, reader, pos, inner, delivered>>
pipelineVars == <<imu, initImu, ekf, lastRef, pending, control, accepted, discarded,
                  results, windows>>
mainVars == <<run, params, loader>>
vars == <<readerVars, pipelineVars, mainVars, stage, files, clouds>>

Init ==
    /\ Reader!Init
    /\ Pipeline!Init
    /\ run \in Runs
    /\ run.bag = bag
    /\ stage = "args"
    /\ params = [ok |-> FALSE, set |-> {}, warnings |-> {}]
    /\ loader = [ok |-> FALSE]
    /\ files = [fresh |-> FALSE, traj |-> <<>>, estimate |-> <<>>, gt |-> <<>>]
    /\ clouds = <<>>

\* An uncaught exception: of the rows of each file a prefix is left.
Fail ==
    /\ stage' = "failed"
    /\ \E traj \in 0..Len(files.traj), estimate \in 0..Len(files.estimate),
          gt \in 0..Len(files.gt) :
           files' = [files EXCEPT !.traj = SubSeq(@, 1, traj),
                                  !.estimate = SubSeq(@, 1, estimate),
                                  !.gt = SubSeq(@, 1, gt)]

-----------------------------------------------------------------------------
\* parse_args() refuses a directory or a parameter file that is not there.
ParseArgs ==
    /\ stage = "args"
    /\ stage' = IF run.there THEN "params" ELSE "refused"
    /\ UNCHANGED <<readerVars, pipelineVars, mainVars, files, clouds>>

ReadParams ==
    /\ stage = "params"
    /\ params' = LoadParams(run.params)
    /\ IF params'.ok THEN stage' = "loader" /\ UNCHANGED files ELSE Fail
    /\ UNCHANGED <<readerVars, pipelineVars, run, loader, clouds>>

Load ==
    /\ stage = "loader"
    /\ loader' = MakeLoader(run.format, run.dir)
    /\ IF loader'.ok THEN stage' = "bag" /\ UNCHANGED files ELSE Fail
    /\ UNCHANGED <<readerVars, pipelineVars, run, params, clouds>>

OpenBag ==
    /\ stage = "bag"
    /\ Reader!Open \/ Reader!Scan
    /\ IF reader' = "threw" THEN Fail
       ELSE stage' = (IF reader' = "open" THEN "outputs" ELSE "bag") /\ UNCHANGED files
    /\ UNCHANGED <<pipelineVars, mainVars, clouds>>

\* The topics of the dataset; without ground truth it has two.
Topics == {loader.imu, loader.lidar, loader.gt} \ {""}

\* ResultWriter opens, and so empties, the files; read_messages() begins.
OpenOutputs ==
    /\ stage = "outputs"
    /\ files' = [files EXCEPT !.fresh = TRUE]
    /\ stage' = "reading"
    /\ Reader!BeginRead(Topics)
    /\ UNCHANGED <<pipelineVars, mainVars, clouds>>

-----------------------------------------------------------------------------
\* The reader goes on when the callback has returned.
Reading == stage = "reading" /\ control = "idle"

ReadOn ==
    /\ Reading
    /\ Reader!Read
    /\ IF reader' = "threw" THEN Fail ELSE UNCHANGED <<stage, files>>
    /\ UNCHANGED <<pipelineVars, mainVars, clouds>>

\* The callback, for a message on each kind of topic.
Message(topic) ==
    /\ Reader!Callback
    /\ topics[Reader!Current.conn] = topic
    /\ Reader!Deliver

\* A message too short for its type; a cloud is only decoded once there is a filter.
Torn ==
    /\ Reading
    /\ \E topic \in Topics : Message(topic) /\ (topic = loader.lidar => ekf)
    /\ Reader!Current.torn
    /\ Fail
    /\ UNCHANGED <<pipelineVars, mainVars, clouds>>

OnGtOnceReady ==  \* mutant
    /\ Reading /\ Message(loader.gt)
    /\ ~Reader!Current.torn
    /\ files' = IF ekf THEN [files EXCEPT !.gt = Append(@, Reader!Current.data.stamp)] ELSE files
    /\ UNCHANGED <<pipelineVars, mainVars, stage, clouds>>

OnGt ==
    /\ Reading /\ Message(loader.gt)
    /\ ~Reader!Current.torn
    /\ files' = [files EXCEPT !.gt = Append(@, Reader!Current.data.stamp)]
    /\ UNCHANGED <<pipelineVars, mainVars, stage, clouds>>

OnImu ==
    /\ Reading /\ Message(loader.imu) /\ loader.imu # loader.gt
    /\ ~Reader!Current.torn
    /\ Pipeline!OnImu(Reader!Current.data.stamp - Pipeline!LastStamp)
    /\ UNCHANGED <<mainVars, stage, files, clouds>>

\* What the pipeline needs of a cloud: scan_time_window() takes its extremes.
Extremes(cloud) ==
    LET offsets == {cloud.offsets[i] : i \in 1..Len(cloud.offsets)}
    IN  IF offsets = {} THEN [Pipeline!NoTimes EXCEPT !.stamp = cloud.stamp]
        ELSE [timed |-> TRUE, stamp |-> cloud.stamp, lo |-> Min(offsets), hi |-> Max(offsets)]

OnLidar ==
    /\ Reading /\ Message(loader.lidar) /\ loader.lidar \notin {loader.gt, loader.imu}
    /\ IF ekf
         THEN /\ ~Reader!Current.torn
              /\ \E sweep \in {Reader!Current.data} :
                     \E cloud \in DecodeCloud(loader.decoder, OnWire(loader.decoder, sweep)) :
                         /\ Pipeline!OnCloud(Extremes(cloud))
                         /\ clouds' = Append(clouds, [sweep |-> sweep, cloud |-> cloud])
         ELSE UNCHANGED <<pipelineVars, clouds>>
    /\ UNCHANGED <<mainVars, stage, files>>

\* take_ready(), and handle_results() on what it returned.
Rows == [i \in 1..Len(results') |-> results'[i].t]

TakeReady ==
    /\ stage = "reading"
    /\ Pipeline!Drain
    /\ CASE control' = "dead" -> Fail
         [] control' = "idle" ->
              /\ files' = [files EXCEPT !.traj = Rows,
                                        !.estimate = IF loader.gt = "" THEN <<>> ELSE Rows]
              /\ UNCHANGED stage
         [] OTHER -> UNCHANGED <<files, stage>>
    /\ UNCHANGED <<readerVars, mainVars, clouds>>

Finish ==
    /\ Reading
    /\ reader = "returned"
    /\ stage' = "done"
    /\ UNCHANGED <<readerVars, pipelineVars, mainVars, files, clouds>>

Next ==
    \/ ParseArgs \/ ReadParams \/ Load \/ OpenBag \/ OpenOutputs
    \/ ReadOn \/ Torn \/ OnGt \/ OnImu \/ OnLidar \/ TakeReady \/ Finish

Spec == Init /\ [][Next]_vars

\* main() is sequential: it waits for nothing.
FairSpec == Spec /\ WF_vars(Next)

-----------------------------------------------------------------------------
Stages ==
    {"args", "refused", "params", "loader", "bag", "outputs", "reading", "done", "failed"}

TypeOK ==
    /\ Reader!TypeOK
    /\ Pipeline!TypeOK
    /\ stage \in Stages
    /\ params.set \intersect params.warnings = {}
    /\ files \in [fresh : BOOLEAN, traj : Seq(Nat), estimate : Seq(Nat), gt : Seq(Nat)]
    /\ Len(clouds) = accepted

\* The callback gets the messages of the selected topics once each and in file
\* order, and the program ends without an error only after all of them
\* (bag_reader.cpp:122-232, main.cpp:186-221).
BagReadWhole ==
    /\ Reader!MessagesWhole
    /\ stage = "done" => Reader!Delivered = Reader!MessagesOn(filter)

\* The stamps of the delivered messages on a topic, in their order.
DeliveredMessage(k) == bag.body[delivered[k][1]].messages[delivered[k][2]]

On(topic) == {k \in 1..Len(delivered) : topics[DeliveredMessage(k).conn] = topic}

Nth(places, n) == CHOOSE k \in places : Cardinality({j \in places : j <= k}) = n

StampsOn(topic) ==
    [n \in 1..Cardinality(On(topic)) |-> DeliveredMessage(Nth(On(topic), n)).data.stamp]

\* The files of an earlier run are emptied only for parameters, calibration and
\* a bag that can be read.  While the bag is read they hold a row for every scan
\* processed and, of the dataset's ground truth, every message, before and after
\* the filter starts; a failure leaves a prefix of that, which may miss scans of
\* the call that threw (main.cpp:136-210, result_writer.cpp:5-36).
FilesFollowResults ==
    LET times == [i \in 1..Len(results) |-> results[i].t]
        whole == stage # "failed" /\ control = "idle"
    IN  /\ files.fresh => /\ LoadParams(run.params).ok
                          /\ MakeLoader(run.format, run.dir).ok
                          /\ bag.version /\ bag.indexed
        /\ ~files.fresh => files.traj = <<>> /\ files.estimate = <<>> /\ files.gt = <<>>
        /\ IsPrefix(files.traj, times)
        /\ whole => files.traj = times
        /\ loader.ok => /\ IsPrefix(files.estimate, IF loader.gt = "" THEN <<>> ELSE times)
                        /\ IsPrefix(files.gt, StampsOn(loader.gt))
                        /\ stage # "failed" => files.gt = StampsOn(loader.gt)

\* When the program is done, every sweep that came after the initialization was
\* processed or dropped, or waits behind one, itself or an earlier one, that
\* ends after the last IMU sample of the bag (main.cpp:209-213).
OnlyTailUnreported ==
    stage = "done" =>
        \A id \in 1..Len(clouds) :
            \/ id \in Pipeline!ResultIds \union discarded
            \/ \E i \in 1..Len(pending) : /\ pending[i].id <= id
                                          /\ pending[i].end > Pipeline!LastStamp

Decoder == MakeLoader(run.format, run.dir).decoder

\* Whatever the format says of time, the pipeline gets the time of every point
\* since the stamp of its sweep, as precisely as the format has it, and the
\* points in their order (ros_deserializer.cpp:226-357).
SweepsNormalized ==
    \A i \in 1..Len(clouds) : Normalized(Decoder, clouds[i].sweep, clouds[i].cloud)

\* Every sweep that was processed went to the filter as one centroid for each
\* cube its points occupy (voxel_grid.cpp:21-63).
CentroidsPartition ==
    \A id \in Pipeline!ResultIds : OneCentroidPerCube(clouds[id].cloud.points)

\* A key of the parameter file is in effect in the run or is warned about,
\* "rather than being silently dropped" (params.h:43-49).  The two that are
\* neither: a key in a section written as a list, and the extrinsic of a dataset
\* that brings its own.
SettingsInEffect ==
    loader.ok =>
        \A s \in DOMAIN run.params.sections : \A k \in DOMAIN run.params.sections[s].keys :
            \/ <<s, k>> \in params.warnings /\ k \notin Schema[s]
            \/ <<s, k>> \in params.set /\ (s = "extrinsic" => loader.extrinsic = "params")
            \/ run.params.sections[s].form = "list"
            \/ s = "extrinsic" /\ run.format = "NTU_VIRAL"

\* The program ends, whatever its parameters and its bag are.
ProgramEnds == <>(stage \in {"refused", "failed", "done"})
=============================================================================
