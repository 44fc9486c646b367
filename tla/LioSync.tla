------------------------------ MODULE LioSync ------------------------------
(***************************************************************************)
(* FAST_LIO_ROS2/src/laserMapping.cpp: the buffers between the lidar and   *)
(* IMU callbacks and the 100 Hz timer, sync_packages which matches a scan  *)
(* with its IMU samples, and the part of timer_callback and of             *)
(* ImuProcess::Process that decides which cloud is registered.             *)
(*                                                                         *)
(* The node spins on one thread, so the callbacks are atomic.  time_sync_en*)
(* is off and time_diff_lidar_to_imu is zero, as in the configuration that *)
(* the robot uses.  A scan has a stamp and is timed (it lasts Duration),   *)
(* untimed (its points do not tell how long it lasts) or empty (it has     *)
(* hardly any); stamps are natural numbers, one IMU period being 1.        *)
(***************************************************************************)
EXTENDS Integers, Sequences

CONSTANTS
  Duration,     \* duration of a timed scan, in IMU periods
  InitCount,    \* MAX_INI_COUNT
  MaxGap,       \* bound: time between two IMU samples, 1 when none is lost
  MaxLoops,     \* bound: times the clock of the data jumps back
  MaxTime,      \* bound: stamps
  LoopTimes,    \* bound: stamps once the clock has jumped back
  None

ASSUME LioAssumption ==
  /\ Duration \in Nat \ {0, 1} /\ InitCount \in Nat
  /\ MaxGap \in Nat \ {0}
  /\ MaxLoops \in Nat /\ MaxTime \in Nat

VARIABLES
  lidar_buffer,
  time_buffer,
  imu_buffer,
  last_timestamp_lidar,  \* -1 stands for is_first_lidar
  last_timestamp_imu,
  lidar_pushed,          \* is a scan taken that waits for its IMU samples?
  lidar_end_time,
  lidar_mean_scantime,   \* 0, or Duration once a timed scan was taken
  meas,                  \* Measures: scan, its begin time, its IMU samples
  flg_first_scan,
  init_iter_num,         \* IMU samples seen by IMU_init, 0 before the first
  feats_undistort,       \* the scan the undistorted cloud is of, or None
  tree,                  \* has the ikd-tree been built?
  registered,            \* what the last timer step registered and published
  loops                  \* bound: jumps back so far

bufferVars == <<lidar_buffer, time_buffer, imu_buffer>>
stampVars  == <<last_timestamp_lidar, last_timestamp_imu, loops>>
syncVars   == <<lidar_pushed, lidar_end_time, lidar_mean_scantime, meas>>
filterVars == <<flg_first_scan, init_iter_num, feats_undistort, tree, registered>>
vars == <<bufferVars, stampVars, syncVars, filterVars>>

-----------------------------------------------------------------------------
Times == 0..MaxTime
Scans == [stamp : Times, kind : {"timed", "untimed", "empty"}]

(* External: the data come in the order of their stamps, scans one after   *)
(* the other, until the source starts over (a bag that is played in a      *)
(* loop, a clock that is set back).                                        *)
InOrder(last, t, step) ==
  /\ last = -1 \/ t >= last + step
  /\ loops = 0 \/ t \in LoopTimes
JumpsBack(last, t) ==
  /\ last # -1 /\ t < last
  /\ loops < MaxLoops /\ t \in LoopTimes

(* External: a lidar that gives the times of its points gives them from    *)
(* the first scan on, so an untimed scan has a timed one before it.        *)
TimesAreKnown(s) ==
  s.kind = "untimed" =>
    \/ lidar_mean_scantime # 0
    \/ /\ s.stamp >= last_timestamp_lidar
       /\ \E i \in DOMAIN lidar_buffer : lidar_buffer[i].kind = "timed"

(* Mutant of PclCbk: a jump back clears the times as well, too late.       *)
PclCbkClearsLate(s) ==
  /\ InOrder(last_timestamp_lidar, s.stamp, Duration)
       \/ JumpsBack(last_timestamp_lidar, s.stamp)
  /\ TimesAreKnown(s)
  /\ IF s.stamp < last_timestamp_lidar
     THEN lidar_buffer' = <<s>> /\ time_buffer' = <<>> /\ loops' = loops + 1
     ELSE /\ lidar_buffer' = Append(lidar_buffer, s)
          /\ time_buffer' = Append(time_buffer, s.stamp)
          /\ UNCHANGED loops
  /\ last_timestamp_lidar' = s.stamp
  /\ UNCHANGED <<imu_buffer, last_timestamp_imu, syncVars, filterVars>>

(* livox_pcl_cbk and standard_pcl_cbk.  A jump back clears the scans, and  *)
(* leaves their times.                                                     *)
PclCbk(s) ==
  /\ InOrder(last_timestamp_lidar, s.stamp, Duration)
       \/ JumpsBack(last_timestamp_lidar, s.stamp)
  /\ TimesAreKnown(s)
  /\ IF s.stamp < last_timestamp_lidar
     THEN lidar_buffer' = <<s>> /\ loops' = loops + 1
     ELSE lidar_buffer' = Append(lidar_buffer, s) /\ UNCHANGED loops
  /\ time_buffer' = Append(time_buffer, s.stamp)
  /\ last_timestamp_lidar' = s.stamp
  /\ UNCHANGED <<imu_buffer, last_timestamp_imu, syncVars, filterVars>>

(* imu_cbk *)
ImuCbk(t) ==
  /\ \/ InOrder(last_timestamp_imu, t, 1) /\ t <= last_timestamp_imu + MaxGap
     \/ JumpsBack(last_timestamp_imu, t)
  /\ IF t < last_timestamp_imu
     THEN imu_buffer' = <<t>> /\ loops' = loops + 1
     ELSE imu_buffer' = Append(imu_buffer, t) /\ UNCHANGED loops
  /\ last_timestamp_imu' = t
  /\ UNCHANGED <<lidar_buffer, time_buffer, last_timestamp_lidar, syncVars, filterVars>>

-----------------------------------------------------------------------------
(* sync_packages.                                                          *)

(* The scan at the front is taken unless one is already; its end is its    *)
(* begin plus its own duration, or the mean one when it has none.          *)
Taken ==
  IF lidar_pushed
  THEN [lidar |-> meas.lidar, beg |-> meas.beg, end |-> lidar_end_time,
        mean |-> lidar_mean_scantime]
  ELSE LET s == Head(lidar_buffer)
           mean == IF s.kind = "timed" THEN Duration ELSE lidar_mean_scantime
       IN [lidar |-> s, beg |-> Head(time_buffer),
           end |-> Head(time_buffer) + mean, mean |-> mean]

(* Has the IMU gone past the end of the scan?                              *)
ImuArrivedLate(end) == last_timestamp_imu > end    \* mutant
ImuArrived(end) == last_timestamp_imu >= end

(* How many samples the loop over the IMU buffer takes: all up to the end  *)
(* of the scan, but none when the first one is already there, because the  *)
(* loop looks at the time of the sample before.                            *)
ImuCount(end) ==
  IF imu_buffer[1] >= end THEN 0
  ELSE CHOOSE n \in 1..Len(imu_buffer) :
         /\ \A i \in 1..n : imu_buffer[i] <= end
         /\ \A i \in 1..n - 1 : imu_buffer[i] < end
         /\ n = Len(imu_buffer) \/ imu_buffer[n] = end \/ imu_buffer[n + 1] > end

(* The scan in hand leaves both of its buffers.                            *)
PopScan == lidar_buffer' = Tail(lidar_buffer) /\ time_buffer' = Tail(time_buffer)

(* mutant: an empty scan is not looked at *)
UndistortSkipsEmpty(m, count) ==
  IF count = 0 THEN UNCHANGED <<init_iter_num, feats_undistort>>
  ELSE IF init_iter_num <= InitCount
       THEN /\ init_iter_num' = (IF init_iter_num = 0 THEN 1 ELSE init_iter_num) + count
            /\ UNCHANGED feats_undistort
       ELSE /\ feats_undistort' = IF m.lidar.kind # "empty" THEN m.lidar ELSE feats_undistort
            /\ UNCHANGED init_iter_num

(* Which cloud ImuProcess::Process leaves in feats_undistort, and how many *)
(* samples its initialisation has seen: no samples, no change at all.      *)
Undistort(m, count) ==
  IF count = 0 THEN UNCHANGED <<init_iter_num, feats_undistort>>
  ELSE IF init_iter_num <= InitCount
       THEN /\ init_iter_num' = (IF init_iter_num = 0 THEN 1 ELSE init_iter_num) + count
            /\ UNCHANGED feats_undistort
       ELSE /\ feats_undistort' = m.lidar
            /\ UNCHANGED init_iter_num

(* The messages for a scan: its pose, as odometry, transform and path, and *)
(* its points, in the frames of the world and of the IMU.  Their stamp is  *)
(* a global that sync_packages sets.  (The timer of the map, off in the    *)
(* robot's configuration, is left out.)                                    *)
Odometry(m) == [scan |-> m.lidar, stamp |-> lidar_end_time']
Frame == [cloud |-> feats_undistort', stamp |-> lidar_end_time']

(* The rest of timer_callback: an empty cloud is skipped, the              *)
(* first one becomes the map, any other is registered and added to it.     *)
Register(m) ==
  IF feats_undistort' = None \/ feats_undistort'.kind = "empty"
  THEN registered' = None /\ UNCHANGED tree
  ELSE /\ tree' = TRUE
       /\ registered' = IF tree THEN [odometry |-> Odometry(m), frame |-> Frame]
                        ELSE None

Process(m, count) ==
  IF flg_first_scan
  THEN /\ flg_first_scan' = FALSE
       /\ registered' = None
       /\ UNCHANGED <<init_iter_num, feats_undistort, tree>>
  ELSE /\ Undistort(m, count)
       /\ Register(m)
       /\ UNCHANGED flg_first_scan

(* timer_callback.                                                         *)
TimerCallback ==
  /\ lidar_buffer # <<>> /\ imu_buffer # <<>>
  /\ LET p == Taken IN
     /\ lidar_end_time' = p.end
     /\ lidar_mean_scantime' = p.mean
     /\ IF ~ImuArrived(p.end)
        THEN /\ lidar_pushed' = TRUE
             /\ meas' = [meas EXCEPT !.lidar = p.lidar, !.beg = p.beg]
             /\ registered' = None
             /\ UNCHANGED <<bufferVars, flg_first_scan, init_iter_num,
                            feats_undistort, tree>>
        ELSE LET count == ImuCount(p.end) IN
             /\ meas' = [lidar |-> p.lidar, beg |-> p.beg,
                         imu |-> SubSeq(imu_buffer, 1, count)]
             /\ imu_buffer' = SubSeq(imu_buffer, count + 1, Len(imu_buffer))
             /\ PopScan
             /\ lidar_pushed' = FALSE
             /\ Process(meas', count)
  /\ UNCHANGED stampVars

-----------------------------------------------------------------------------
Init ==
  /\ lidar_buffer = <<>> /\ time_buffer = <<>> /\ imu_buffer = <<>>
  /\ last_timestamp_lidar = -1 /\ last_timestamp_imu = -1
  /\ lidar_pushed = FALSE
  /\ lidar_end_time = 0 /\ lidar_mean_scantime = 0
  /\ meas = [lidar |-> None, beg |-> 0, imu |-> <<>>]
  /\ flg_first_scan = TRUE
  /\ init_iter_num = 0
  /\ feats_undistort = None
  /\ tree = FALSE
  /\ registered = None
  /\ loops = 0

Next == \/ \E s \in Scans : PclCbk(s)
        \/ \E t \in Times : ImuCbk(t)
        \/ TimerCallback

Spec == Init /\ [][Next]_vars
=============================================================================
