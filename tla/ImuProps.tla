------------------------------ MODULE ImuProps ------------------------------
(***************************************************************************)
(* What ImuProcess promises about time.                                    *)
(***************************************************************************)
EXTENDS ImuProcess, LioProps

(* From the second undistorted scan on the filter is propagated by exactly *)
(* the time between the ends of two scans, over however many packages,     *)
(* lost samples and skipped scans: DtToEnd drops the sign, so this rests   *)
(* on sync_packages leaving the samples after the end to the next package. *)
(* It ends with the first jump back of the stamps.                         *)
PropagatedToEnd ==
  [][loops = 0 /\ last_lidar_end_time_' # last_lidar_end_time_ /\ IMUpose # <<>> =>
       filter_time' - filter_time = last_lidar_end_time_' - last_lidar_end_time_]_allVars

(* The points of a scan, sorted by time: a scan that tells times has one   *)
(* at its end, one that does not has none in its second half.              *)
Ascending ==
  {points \in UNION {[1..n -> 0..Duration] : n \in 0..Duration + 1} :
     \A j \in 2..Len(points) : points[j - 1] < points[j]}

PointsOf(s) ==
  CASE s.kind = "timed" -> {points \in Ascending : points # <<>> /\ Last(points) = Duration}
    [] s.kind = "untimed" -> {points \in Ascending : \A j \in DOMAIN points : 2 * points[j] < Duration}
    [] s.kind = "empty" -> {points \in Ascending : Len(points) <= 1}

(* Every point later than the beginning of its scan is moved once, with    *)
(* the interval between samples that holds its time, and with the last one *)
(* when it is after all of them.  The first point of a scan is left out:   *)
(* the loop stands still on it and moves it again for every interval that  *)
(* begins before it.  Also left out is a scan with no pose at a sample, as *)
(* the first one has if last_lidar_end_time_ happens to start late.        *)
MovedOnce ==
  Len(IMUpose) > 1 =>
    \A points \in PointsOf(feats_undistort) :
      \A j \in 2..Len(points) :
        \E k \in 2..Len(IMUpose) :
          /\ Compensated(points, IMUpose)[j] = <<k>>
          /\ IMUpose[k - 1] < points[j]
          /\ \A i \in k..Len(IMUpose) - 1 : IMUpose[i] >= points[j]
=============================================================================
