------------------------------ MODULE LioProps ------------------------------
(***************************************************************************)
(* What LioSync promises about scans and their IMU samples.                *)
(***************************************************************************)
EXTENDS LioSync, SequencesExt

(* Every waiting scan has its time in the other deque, at the place that   *)
(* counts from the end: the deques are filled, emptied and cleared by      *)
(* three functions, and sync_packages pops both.  A jump back of the stamps*)
(* clears one of them only; what is left of the other then keeps           *)
(* standing in front, but the pop never meets an empty deque.              *)
ScansHaveTimes ==
  LET older == Len(time_buffer) - Len(lidar_buffer)
  IN /\ older >= 0
     /\ loops = 0 => older = 0
     /\ \A i \in DOMAIN lidar_buffer : time_buffer[older + i] = lidar_buffer[i].stamp

(* The cloud that is registered is the one of the scan in hand, so no scan *)
(* is put twice into the map; and what is published of it carries the time *)
(* of its end, whether its own points tell that or those of an earlier one;*)
(* as long as the stamps have not jumped back, which unpairs the deques.   *)
RegisteredInHand ==
  registered # None =>
    LET odometry == registered.odometry
        frame    == registered.frame
    IN /\ frame.cloud = odometry.scan
       /\ odometry.stamp = odometry.scan.stamp + Duration
       /\ frame.stamp = odometry.stamp

RegistersCurrentScan == loops = 0 => RegisteredInHand

(* Scans whose last IMU sample has come do not stay in the buffer, until   *)
(* the stamps jump back.                                                   *)
SamplesAreThere ==
  loops = 0 /\ lidar_buffer # <<>> /\ last_timestamp_imu >= Head(lidar_buffer).stamp + Duration
NoScanStuck == SamplesAreThere ~> ~SamplesAreThere

-----------------------------------------------------------------------------
(* The following is what a message says and the code does not do.          *)

(* laserMapping.cpp:293: "lidar loop back, clear buffer": after a jump back*)
(* too, a scan and the time at the same place belong to each other.        *)
Aligned ==
  /\ Len(time_buffer) = Len(lidar_buffer)
  /\ \A i \in 1..Len(lidar_buffer) : time_buffer[i] = lidar_buffer[i].stamp
=============================================================================
