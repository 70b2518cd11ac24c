------------------------------ MODULE MCProgram -----------------------------
(***************************************************************************)
(* One bag per format, and around each the invocations that differ from it *)
(* in one thing: the parameter file, the calibration, where the file ends, *)
(* how a chunk unpacks, a torn message, the order of the messages.         *)
(***************************************************************************)
EXTENDS Program

MCOffset == -1

-----------------------------------------------------------------------------
Yaml(keys) == [there |-> TRUE, keys |-> keys]
NoYaml == [there |-> FALSE, keys |-> <<>>]

ImuYaml == [imu_topic |-> "imu", T_Body_Imu |-> "good", accel_std |-> "good",
            accel_rw |-> "good"]
LidarYaml == [pointcloud_topic |-> "points", VERT_RES |-> "good", HORZ_RES |-> "good",
              T_Body_Lidar |-> "good"]
PrismYaml == [gndtr_topic |-> "prism", T_Body_Prism |-> "good"]

Dir(imuYaml, lidarYaml, prismYaml, bags) ==
    [imu |-> imuYaml, lidar |-> lidarYaml, prism |-> prismYaml, bags |-> bags]

NtuDir == Dir(Yaml(ImuYaml), Yaml(LidarYaml), Yaml(PrismYaml), 1)
OtherDir == Dir(NoYaml, NoYaml, NoYaml, 1)

Renamed == [pointcloud_topic |-> "points", VERT_RES |-> "good", HORZ_RES |-> "good",
            T_Body2Lidar |-> "good"]

NtuDirs ==
    {Dir(NoYaml, Yaml(LidarYaml), Yaml(PrismYaml), 1),
     Dir(Yaml([ImuYaml EXCEPT !.T_Body_Imu = "bad"]), Yaml(LidarYaml), Yaml(PrismYaml), 1),
     Dir(Yaml(ImuYaml), Yaml(Renamed), Yaml(PrismYaml), 1),
     Dir(Yaml(ImuYaml), Yaml(("T_Body_Lidar" :> "bad") @@ Renamed), Yaml(PrismYaml), 1),
     Dir(Yaml(ImuYaml), Yaml(LidarYaml), NoYaml, 1)}

-----------------------------------------------------------------------------
Section(form, keys) == [form |-> form, keys |-> keys]

File(sections) == [kind |-> "mapping", sections |-> sections]

PlainFile ==
    File([root |-> Section("map", [iekf |-> "good", extrinsic |-> "good"]),
          iekf |-> Section("map", [sigma |-> "good"]),
          extrinsic |-> Section("map", [rotation |-> "good"])])

ParamFiles ==
    {[kind |-> "list", sections |-> <<>>],
     File([root |-> Section("map", [iekf |-> "good", ikef |-> "good"]),
           iekf |-> Section("map", [sigma |-> "good", sgima |-> "good"])]),
     File([root |-> Section("map", [iekf |-> "good"]),
           iekf |-> Section("list", [sigma |-> "good"])]),
     File([root |-> Section("map", [iekf |-> "good"]), iekf |-> Section("scalar", <<>>)]),
     File([root |-> Section("map", [extrinsic |-> "good"]),
           extrinsic |-> Section("map", [translation |-> "bad"])]),
     File([root |-> Section("map", [map |-> "good", lidar_time_offset_sec |-> "good"]),
           map |-> Section("map", [crop |-> "good", voxel_leaf |-> "good"]),
           crop |-> Section("map", [enabled |-> "good", marginfactor |-> "bad"])])}

-----------------------------------------------------------------------------
Msg(conn, stamp, points) ==
    [op |-> "message", conn |-> conn, torn |-> FALSE,
     data |-> [stamp |-> stamp, points |-> points]]

Imu(t) == Msg(1, t, <<>>)
Gt(t) == Msg(3, t, <<>>)
Other == Msg(4, 9, <<>>)

P(at, place) == [at |-> at, pos |-> place]

\* Points on both sides of zero, together in a cube, at its faces and not
\* finite; taken parts of a tick apart, and one just before the stamp.
Sweep(stamp) ==
    Msg(2, stamp, <<P(Parts * stamp - 1, <<-1, 0, 0>>), P(Parts * stamp, <<1, 0, 0>>),
                    P(Parts * stamp + 1, <<>>), P(Parts * stamp + 3, <<0, 1, -4>>),
                    P(Parts * stamp + 2, <<-2, 0, 0>>), P(Parts * stamp + 2, <<2, 0, 3>>)>>)

\* A sweep with a point past the range of the offsets, one past the range of
\* the keys, one longer than the IMU history, and one without points.
Drifted(stamp) == Msg(2, stamp, <<P(Parts * stamp, <<0, 0, 0>>), P(Parts * stamp + 13, <<0, 0, 0>>)>>)
Distant(stamp) == Msg(2, stamp, <<P(Parts * stamp, <<-3, 0, 0>>), P(Parts * stamp, <<5, 0, 0>>)>>)
Long(stamp) == Msg(2, stamp, <<P(Parts * stamp, <<0, 0, 0>>), P(Parts * stamp + 8, <<0, 0, 0>>)>>)
Empty(stamp) == Msg(2, stamp, <<>>)

Inner(conn) == [op |-> "connection", conn |-> conn]

Chunk(messages, unpacks) == [op |-> "chunk", unpacks |-> unpacks, messages |-> messages]

IndexData == [op |-> "index_data"]

Conn(conn, topic) == [op |-> "connection", conn |-> conn, topic |-> topic]

IndexSection(t) ==
    <<Conn(1, t[1]), Conn(2, t[2]), Conn(3, t[3]), Conn(4, "camera"), [op |-> "chunk_info"]>>

Bag(t, body) ==
    [version |-> TRUE, indexed |-> TRUE, body |-> body, index |-> IndexSection(t),
     whole |-> Len(body) + 5, rest |-> "none"]

First == <<Inner(1), Imu(1), Gt(1), Sweep(1), Imu(2), Other>>
Second == <<Sweep(3), Imu(3), Gt(4), Imu(4), Empty(4), Imu(5), Sweep(5), Sweep(4), Imu(6)>>

Body == <<Chunk(First, "sound"), IndexData, Chunk(Second, "sound")>>

Bodies ==
    {<<Chunk(First, "sound"), Chunk(<<Imu(3), Distant(3), Drifted(4), Imu(5), Imu(6)>>, "sound")>>,
     <<Chunk(First, "sound"), Chunk(<<Imu(3), Imu(4), Sweep(4), Gt(4)>>, "short")>>,
     <<Chunk(First, "sound"), Chunk(Second, "bad")>>,
     <<Chunk(First, "sound"), Chunk(<<Imu(3), Sweep(3), Imu(7), Sweep(6), Sweep(4)>>, "sound")>>,
     <<Chunk(<<Imu(1), Imu(2), Sweep(3), Long(1), Imu(4)>>, "sound")>>,
     <<Chunk(First, "sound"), Chunk(<<Sweep(3), Sweep(7), Imu(4), Sweep(5), Imu(6)>>, "sound")>>}
    \union {<<Chunk(First, "sound"), Chunk([Second EXCEPT ![i].torn = TRUE], "sound")>> :
                i \in {1, 3, 6}}

\* After the start, every order of IMU samples, an early and a late sweep, and
\* ground truth.
Mixed ==
    {<<Chunk(First, "sound"),
       Chunk([i \in 1..4 |-> CASE kinds[i] = "imu"   -> Imu(i + 2)
                               [] kinds[i] = "early" -> Sweep(3)
                               [] kinds[i] = "late"  -> Sweep(5)
                               [] kinds[i] = "gt"    -> Gt(i)], "sound")>> :
        kinds \in [1..4 -> {"imu", "early", "late", "gt"}]}

NtuTopics == <<"imu", "points", "prism">>
HiltiTopics == <<"/alphasense/imu", "/hesai/pandar", "prism">>
LivoxTopics == <<"/livox/imu", "/livox/lidar", "prism">>

\* The ends of a file: every record, and inside its header and its data.
Cuts(b) ==
    {[b EXCEPT !.whole = w, !.rest = rest] :
        w \in 0..(Len(b.body) + 4), rest \in {"none", "header", "data"}}

-----------------------------------------------------------------------------
Run(format, file, dir, b) ==
    [format |-> format, there |-> TRUE, params |-> file, dir |-> dir, bag |-> b]

Ntu == Run("NTU_VIRAL", PlainFile, NtuDir, Bag(NtuTopics, Body))
Hilti == Run("HILTI_22", PlainFile, OtherDir, Bag(HiltiTopics, Body))
Livox == Run("FAST_LIVO2", PlainFile, OtherDir, Bag(LivoxTopics, Body))

MCRuns ==
    {Ntu, Hilti, Livox, [Ntu EXCEPT !.there = FALSE],
     [Ntu EXCEPT !.bag.version = FALSE], [Ntu EXCEPT !.bag.indexed = FALSE]}
    \union {[Hilti EXCEPT !.dir.bags = n] : n \in {0, 2}}
    \union {[Ntu EXCEPT !.dir = d] : d \in NtuDirs}
    \union {[Hilti EXCEPT !.params = f] : f \in ParamFiles}
    \union {[Ntu EXCEPT !.bag = b] : b \in Cuts(Ntu.bag)}
    \union {[Ntu EXCEPT !.bag.body = body, !.bag.whole = Len(body) + 5] :
                body \in Bodies \union Mixed}
    \union {[Hilti EXCEPT !.bag.body = body, !.bag.whole = Len(body) + 5] : body \in Bodies}
=============================================================================
