------------------------- MODULE DistributionProps -------------------------
(***************************************************************************)
(* What LidarDistribution promises: nothing that is stored is forgotten.   *)
(***************************************************************************)
EXTENDS LidarDistribution

(* Every variable has its type.  The semaphore never counts above one:     *)
(* there is one signalling thread, and it looks at the count before.       *)
TypeOK ==
  /\ stream \in {"points", "imu"}
  /\ transfer_format_ \in Formats
  /\ queue \in [Lidars -> Seq(Nat)]
  /\ stream = "points" => \A l \in Lidars : Used(l) <= Capacity
  /\ newest \in [Lidars -> Nat] /\ published \in [Topics -> Nat]
  /\ sampling \in [Lidars -> BOOLEAN]
  /\ count \in {0, 1}
  /\ producer \in {"idle", "stored", "count", "signal"}
  /\ target \in Nat \ {0}
  /\ frames \in 0..MaxFrames
  /\ poller \in {"top", "wait", "visit", "poll", "drain", "future", "stopped"}
  /\ lidar_id \in 1..LidarCount + 1
  /\ request_exit \in BOOLEAN /\ exit_signal \in BOOLEAN
  /\ owed \subseteq Lidars /\ late \in BOOLEAN

(* The producer is on its way to a signal, or to seeing that one is out.   *)
Signalling(l) == producer \in {"count", "signal"} \/ (producer = "stored" /\ target = l)

(* The poll thread has still to look at the queue of l in this round.      *)
StillToVisit(l) ==
  \/ poller = "visit" /\ lidar_id <= l
  \/ poller \in {"poll", "drain"} /\ lidar_id <= l

(* No lost wake-up: a lidar that got a frame while it was sampling and has *)
(* not been drained since is one the poll thread will come to, because the *)
(* semaphore is up, or about to be, or because the thread is on its way    *)
(* (until the node is asked to exit).  The count is read without its       *)
(* mutex, between the push and the signal.                                 *)
NoLostWakeup ==
  \A l \in owed : request_exit \/ count > 0 \/ Signalling(l) \/ StillToVisit(l)

(* Every frame stored while its lidar is sampling is published, unless the *)
(* node is asked to exit.  The format that ROS 2 has no messages for is    *)
(* left out: with it the poll thread goes round the first queue for ever.  *)
Publishes == stream = "imu" \/ transfer_format_ # "PclPxyzi"
StoredIsPublished ==
  \A l \in Lidars : Publishes /\ l \in owed ~> (l \notin owed \/ request_exit)

(* Who reads a topic of one lidar gets its messages in the order of their  *)
(* stamps and none twice, whatever was dropped: FAST-LIO clears its        *)
(* buffers when a stamp goes back.  On a topic that lidars share the       *)
(* stamps do go back, as a round drains one queue after the other.         *)
OneLidarEach == use_multi_topic_ \/ LidarCount = 1
PublishedInOrder ==
  [][OneLidarEach =>
       \A t \in Topics : published'[t] # published[t] => published'[t] > published[t]]_vars

(* The poll thread ends after a request to exit if one more frame comes in *)
(* for any lidar, sampling or not, its queue full or not: the thread may   *)
(* be in its wait, which has no other way out.                             *)
OneFrameEndsIt == late ~> poller = "stopped"
=============================================================================
