------------------------------- MODULE Config -------------------------------
(***************************************************************************)
(* What the program is told before it reads the bag: the parameter file of *)
(* src/io/params.cpp, the calibration files of src/io/calibration.cpp, and *)
(* the loaders of src/io/dataset_loader.cpp that put them together.        *)
(*                                                                         *)
(* A parameter file is its kind and its sections.  A section has a form,   *)
(* as YAML sees it, and keys, whose values are "good" or "bad" (of another *)
(* type, or of another number of elements).  A calibration file is whether *)
(* it is there and its keys; the value of a topic is its name.             *)
(***************************************************************************)
EXTENDS CloudDecoder

\* The keys that load_params() looks for, by section.
Schema ==
    [root        |-> {"lidar_time_offset_sec", "preprocess", "init", "imu_noise", "iekf",
                      "association", "map", "estimator", "extrinsic"},
     preprocess  |-> {"scan_voxel_leaf"},
     init        |-> {"imu_count", "gravity_magnitude", "max_accel_var", "max_gyro_var",
                      "theta_std", "pos_std", "vel_std", "bias_gyro_std",
                      "bias_accel_std", "gravity_std", "ext_rot_std", "ext_trans_std"},
     imu_noise   |-> {"gyro_noise_std", "accel_noise_std", "gyro_rw_std", "accel_rw_std"},
     iekf        |-> {"sigma", "max_iterations", "convergence_tol", "reject_outliers",
                      "outlier_chi2"},
     association |-> {"num_neighbors", "max_neighbor_dist2", "max_plane_dist",
                      "min_quality"},
     map         |-> {"voxel_on_insert", "voxel_leaf", "crop"},
     crop        |-> {"enabled", "sensor_range", "margin_factor", "keep_factor"},
     estimator   |-> {"enable_extrinsic_estimation"},
     extrinsic   |-> {"translation", "rotation"}]

KeysOf(file, forms) ==
    {e \in UNION {{s} \X DOMAIN file.sections[s].keys : s \in DOMAIN file.sections} :
        file.sections[e[1]].form \in forms}

\* set_if(): of a section that is a mapping, the keys it looks for.
Recognized(file) == {e \in KeysOf(file, {"map"}) : e[2] \in Schema[e[1]]}

\* collect_unknown(): of the same sections, the others.
UnknownAtTop(file) ==  \* mutant
    {e \in KeysOf(file, {"map"}) : e[1] = "root" /\ e[2] \notin Schema[e[1]]}

UnknownUnchecked(file) == KeysOf(file, {"map"})  \* mutant

Unknown(file) == {e \in KeysOf(file, {"map"}) : e[2] \notin Schema[e[1]]}

\* load_params().  A lookup in a scalar throws, one in a list or in nothing
\* finds nothing.
LoadParams(file) ==
    [ok |-> /\ file.kind = "mapping"
            /\ \A s \in DOMAIN file.sections : file.sections[s].form # "scalar"
            /\ \A e \in Recognized(file) : file.sections[e[1]].keys[e[2]] = "good",
     set |-> Recognized(file),
     warnings |-> Unknown(file)]

-----------------------------------------------------------------------------
Good(yaml, keys) ==
    \A k \in keys : k \in DOMAIN yaml.keys /\ yaml.keys[k] # "bad"

\* parse_transform_aliased(): only the first name that is there counts.
Aliased(yaml, names) == Good(yaml, {FirstPresent(names, DOMAIN yaml.keys)})

Topic(yaml, key) == IF yaml.there /\ Good(yaml, {key}) THEN yaml.keys[key] ELSE ""

\* load_imu_calibration(), or the default of NtuViralLoader.
ImuCalibrated(yaml) ==
    ~yaml.there \/ Good(yaml, {"imu_topic", "T_Body_Imu", "accel_std", "accel_rw"})

ImuTopic(yaml) == IF yaml.there THEN Topic(yaml, "imu_topic") ELSE "/imu/imu"

\* load_lidar_calibration() and load_prism_calibration().
LidarCalibrated(yaml) ==
    /\ yaml.there
    /\ Good(yaml, {"pointcloud_topic", "VERT_RES", "HORZ_RES"})
    /\ Aliased(yaml, <<"T_Body_Lidar", "T_Body2Lidar">>)

PrismCalibrated(yaml) ==
    /\ yaml.there
    /\ Good(yaml, {"gndtr_topic"})
    /\ Aliased(yaml, <<"T_Body_Prism", "T_Body2Imu">>)

\* make_loader(): dir is the number of bags and the calibration files.
MakeLoader(format, dir) ==
    CASE format = "NTU_VIRAL" ->
           [ok |-> /\ ImuCalibrated(dir.imu)
                   /\ LidarCalibrated(dir.lidar)
                   /\ PrismCalibrated(dir.prism),
            imu |-> ImuTopic(dir.imu), lidar |-> Topic(dir.lidar, "pointcloud_topic"),
            gt |-> Topic(dir.prism, "gndtr_topic"),
            decoder |-> "ouster", extrinsic |-> "calibration"]
      [] format = "HILTI_22" ->
           [ok |-> dir.bags = 1, imu |-> "/alphasense/imu", lidar |-> "/hesai/pandar",
            gt |-> "", decoder |-> "hesai", extrinsic |-> "params"]
      [] format = "FAST_LIVO2" ->
           [ok |-> dir.bags = 1, imu |-> "/livox/imu", lidar |-> "/livox/lidar",
            gt |-> "", decoder |-> "livox", extrinsic |-> "params"]
=============================================================================
