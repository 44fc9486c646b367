----------------------------- MODULE ImuProcess -----------------------------
(***************************************************************************)
(* FAST_LIO_ROS2/src/IMU_Processing.hpp on top of the buffers of LioSync:  *)
(* which stretches of time the filter is propagated over, the poses kept   *)
(* at the IMU samples, and the backward loop that moves the points of a    *)
(* scan to its end.  A sample is its stamp, a point the time of its scan   *)
(* at which it was taken; what is computed from an interval is left out,   *)
(* which intervals are used is kept.                                       *)
(***************************************************************************)
EXTENDS LioSync, FiniteSetsExt, SequencesExt

CONSTANTS
  Garbage,       \* what last_lidar_end_time_, never initialised, may hold
  MaxWaiting,    \* bound: scans in their buffer
  MaxSamples     \* bound: IMU samples in theirs

ASSUME ImuAssumption ==
  Garbage \subseteq Nat /\ MaxWaiting \in Nat \ {0} /\ MaxSamples \in Nat \ {0}

VARIABLES
  last_imu_,             \* the last sample of the package before
  last_lidar_end_time_,
  IMUpose,               \* offset times of the poses kept for the last scan
  filter_time            \* history: the time that the state of the filter is of

imuVars == <<last_imu_, last_lidar_end_time_, IMUpose, filter_time>>
allVars == <<vars, imuVars>>

-----------------------------------------------------------------------------
(* The samples of a package with the last one of the package before.       *)
v_imu(m) == <<last_imu_>> \o m.imu

(* The samples that are not before the end of the last scan, each of which *)
(* closes an interval.                                                     *)
Tails(m) == {i \in 2..Len(v_imu(m)) : v_imu(m)[i] >= last_lidar_end_time_}

DtFromSample(m, i) == v_imu(m)[i] - v_imu(m)[i - 1]    \* mutant

(* How long the filter is propagated to reach a sample: from the sample    *)
(* before, or from the end of the last scan when that is later.            *)
Dt(m, i) ==
  IF v_imu(m)[i - 1] < last_lidar_end_time_
  THEN v_imu(m)[i] - last_lidar_end_time_
  ELSE v_imu(m)[i] - v_imu(m)[i - 1]

(* From the last sample to the end of the scan; the sign of the difference *)
(* is taken away.                                                          *)
DtToEnd(m, end) ==
  LET imu_end_time == Last(v_imu(m))
      note == IF end > imu_end_time THEN 1 ELSE -1
  IN note * (end - imu_end_time)

(* The part of UndistortPcl that looks forward.                            *)
Propagate(m, end) ==
  /\ filter_time' = filter_time + MapThenSumSet(LAMBDA i : Dt(m, i), Tails(m))
                      + DtToEnd(m, end)
  /\ IMUpose' = <<0>> \o [k \in 1..Cardinality(Tails(m)) |->
                   v_imu(m)[Len(v_imu(m)) - Cardinality(Tails(m)) + k] - m.beg]
  /\ last_imu_' = Last(m.imu)
  /\ last_lidar_end_time_' = end

(* The part of UndistortPcl that goes back over the points, sorted by      *)
(* time: for every interval, from the last to the first, the points later  *)
(* than the head of the interval are moved.  The loop stands still on the  *)
(* first point.  The result is, for each point, the intervals used for it. *)
BackTo(points, head, walk, k) ==
  LET earlier == {j \in 1..walk.at : points[j] <= head}
      stop == IF earlier = {} THEN 0 ELSE Max(earlier)
  IN [at |-> IF stop = 0 THEN 1 ELSE stop,
      used |-> [j \in DOMAIN points |->
                  IF j \in stop + 1..walk.at THEN Append(walk.used[j], k)
                  ELSE walk.used[j]]]

(* mutant: an interval starts at its tail *)
CompensatedFromTail(points, poses) ==
  FoldRightDomain(LAMBDA k, walk : BackTo(points, poses[k + 1], walk, k + 1),
                  Front(poses),
                  [at |-> Len(points), used |-> [j \in DOMAIN points |-> <<>>]]).used

Compensated(points, poses) ==
  FoldRightDomain(LAMBDA k, walk : BackTo(points, poses[k], walk, k + 1),
                  Front(poses),
                  [at |-> Len(points), used |-> [j \in DOMAIN points |-> <<>>]]).used

-----------------------------------------------------------------------------
(* ImuProcess::Process for a package that has just been released: not      *)
(* called for the first scan, nothing without samples, then initialisation *)
(* until enough of them were seen, then undistortion.                      *)
Initialise(m) ==
  /\ last_imu_' = Last(m.imu)
  /\ filter_time' = Last(m.imu)
  /\ UNCHANGED <<last_lidar_end_time_, IMUpose>>

Released == lidar_buffer' # lidar_buffer

ProcessImu ==
  IF ~Released \/ flg_first_scan \/ meas'.imu = <<>> THEN UNCHANGED imuVars
  ELSE IF init_iter_num <= InitCount THEN Initialise(meas')
  ELSE Propagate(meas', lidar_end_time')

Callback ==
  /\ \/ Len(lidar_buffer) < MaxWaiting /\ \E s \in Scans : PclCbk(s)
     \/ Len(imu_buffer) < MaxSamples /\ \E t \in Times : ImuCbk(t)
  /\ UNCHANGED imuVars

Timer == TimerCallback /\ ProcessImu

InitImu == /\ Init
           /\ last_imu_ = 0
           /\ last_lidar_end_time_ \in Garbage
           /\ IMUpose = <<>>
           /\ filter_time = 0

NextImu == Callback \/ Timer

SpecImu == InitImu /\ [][NextImu]_allVars

(* The timer fires again and again.                                        *)
FairSpecImu == SpecImu /\ WF_allVars(Timer)
=============================================================================
