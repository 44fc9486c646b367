------------------------- MODULE LidarDistribution -------------------------
(***************************************************************************)
(* livox_ros_driver2 from the storage of data to their publication: a      *)
(* thread stores frames in one queue per lidar and signals a semaphore, a  *)
(* poll thread waits for it and publishes what the queues hold, the        *)
(* destructor of the node asks it to end.  The two threads share the       *)
(* queues, the count of the semaphore (read without its mutex) and two     *)
(* flags.  There are two such streams: points, stored by the thread of the *)
(* pub handler, and samples of the IMU, stored by a thread of the SDK.     *)
(* They share nothing but the state of the lidars and the flags, which may *)
(* change at any time here, so a behaviour shows one of them.              *)
(*                                                                         *)
(* A frame, of points or one sample, is its stamp here: the frames of one  *)
(* lidar come with rising stamps.  A queue is the sequence of the stamps   *)
(* in it; PacketQueue is the ring behind that of the points, that of the   *)
(* samples is a list with a mutex.  A frame has points: the pub handler    *)
(* collects no empty one.  Memory is sequentially consistent.              *)
(***************************************************************************)
EXTENDS Naturals, Sequences

CONSTANTS
  LidarCount, \* lidar_count_
  Capacity,   \* frames a queue of points holds
  Formats,    \* values of xfer_format: "PointCloud2", "Custom", "PclPxyzi"
  use_multi_topic_,
  MaxFrames   \* bound: frames handed to the driver in a behaviour

ASSUME DistributionAssumption ==
  /\ LidarCount \in Nat /\ Capacity \in Nat \ {0}
  /\ Formats \subseteq {"PointCloud2", "Custom", "PclPxyzi"}
  /\ use_multi_topic_ \in BOOLEAN
  /\ MaxFrames \in Nat

Lidars == 1..LidarCount

VARIABLES
  stream,       \* "points" or "imu", for good
  transfer_format_,
  queue,        \* stamps of the frames stored for each lidar
  sampling,     \* is the lidar's connect_state kConnectStateSampling?
  count,        \* count_ of pcd_semaphore_ or imu_semaphore_
  producer,     \* where the storing thread is
  target,       \* the lidar whose frame it is storing
  poller,       \* where the poll thread is
  lidar_id,     \* the lidar it is looking at
  request_exit, \* request_exit_ of Lds
  exit_signal,  \* has exit_signal_ been set?
  frames,       \* bound: frames so far
  owed,         \* history: lidars that got a frame while sampling, not
                \* drained since
  late,         \* history: has a frame come after exit_signal was set?
  newest,       \* history: stamp of the last frame of each lidar, or 0
  published     \* per topic: stamp of its last message, 0 without a publisher

storeVars    == <<queue, published>>
frameVars    == <<target, frames, newest>>
producerVars == <<producer, frameVars>>
pollerVars   == <<poller, lidar_id>>
configVars   == <<stream, transfer_format_>>
nodeVars     == <<configVars, request_exit, exit_signal>>
historyVars  == <<owed, late>>
vars == <<storeVars, sampling, count, producerVars, pollerVars, nodeVars, historyVars>>

Used(l) == Len(queue[l])

-----------------------------------------------------------------------------
(* A frame of l is handed over; what is owed is kept for the properties.   *)
Receive(l) ==
  /\ producer = "idle" /\ frames < MaxFrames
  /\ frames' = frames + 1
  /\ newest' = [newest EXCEPT ![l] = @ + 1]
  /\ target' = l
  /\ owed' = IF sampling[l] THEN owed \cup {l} ELSE owed
  /\ late' = (late \/ exit_signal)
  /\ UNCHANGED <<published, sampling, count, pollerVars, nodeVars>>

Stored(l) == [queue EXCEPT ![l] = Append(@, newest[l] + 1)]

(* Mutant of Push: a frame that is dropped wakes nobody.                   *)
PushDropsSilently(l) ==
  /\ stream = "points"
  /\ Receive(l)
  /\ IF Used(l) < Capacity
     THEN queue' = Stored(l) /\ producer' = "stored"
     ELSE UNCHANGED <<queue, producer>>

(* PushLidarData.  A frame that does not fit is dropped; the poll thread   *)
(* is woken all the same.                                                  *)
Push(l) ==
  /\ stream = "points"
  /\ Receive(l)
  /\ IF Used(l) < Capacity
     THEN queue' = Stored(l) /\ producer' = "stored"
     ELSE producer' = "count" /\ UNCHANGED queue

(* LidarImuDataQueue: a list that takes every sample.                      *)
ImuPush(l) == Stored(l)
ImuPop(l)  == IF Used(l) = 0 THEN queue ELSE [queue EXCEPT ![l] = Tail(@)]

StorageImuData(l) ==
  /\ stream = "imu"
  /\ Receive(l)
  /\ queue' = ImuPush(l)
  /\ producer' = "stored"

(* Mutant of CheckStored: only the first frame of a queue wakes the poll   *)
(* thread.                                                                 *)
CheckFirstStored ==
  /\ producer = "stored"
  /\ producer' = IF Used(target) # 1 THEN "idle" ELSE "count"
  /\ UNCHANGED <<storeVars, sampling, count, frameVars, pollerVars, nodeVars, historyVars>>

(* The queue is looked at again after the push: nobody need be woken for a *)
(* frame that is gone already.                                             *)
CheckStored ==
  /\ producer = "stored"
  /\ producer' = IF Used(target) = 0 THEN "idle" ELSE "count"
  /\ UNCHANGED <<storeVars, sampling, count, frameVars, pollerVars, nodeVars, historyVars>>

(* GetCount reads the count without the mutex.                             *)
ReadCount ==
  /\ producer = "count"
  /\ producer' = IF count > 0 THEN "idle" ELSE "signal"
  /\ UNCHANGED <<storeVars, sampling, count, frameVars, pollerVars, nodeVars, historyVars>>

Signal ==
  /\ producer = "signal"
  /\ producer' = "idle"
  /\ count' = count + 1
  /\ UNCHANGED <<storeVars, sampling, frameVars, pollerVars, nodeVars, historyVars>>

-----------------------------------------------------------------------------
(* PointCloudDataPollThread and DistributePointCloudData, which            *)
(* ImuDataPollThread and DistributeImuData repeat for the samples.         *)

(* The request to exit is looked at before the wait.                       *)
BeginRound ==
  /\ poller = "top"
  /\ poller' = IF request_exit THEN "future" ELSE "wait"
  /\ UNCHANGED <<storeVars, sampling, count, producerVars, lidar_id, nodeVars, historyVars>>

Wait ==
  /\ poller = "wait" /\ count > 0
  /\ count' = count - 1
  /\ poller' = "visit"
  /\ lidar_id' = 1
  /\ UNCHANGED <<storeVars, sampling, producerVars, nodeVars, historyVars>>

(* Mutant of Visit: a lidar that is not sampling ends the round.           *)
VisitReturns ==
  /\ poller = "visit"
  /\ IF lidar_id > LidarCount \/ ~sampling[lidar_id]
     THEN poller' = "future"
     ELSE poller' = "poll"
  /\ UNCHANGED <<storeVars, sampling, count, producerVars, lidar_id, nodeVars, historyVars>>

(* Lidars that are not sampling are passed over.                           *)
Visit ==
  /\ poller = "visit"
  /\ IF lidar_id > LidarCount
     THEN poller' = "future" /\ UNCHANGED lidar_id
     ELSE IF sampling[lidar_id]
          THEN poller' = "poll" /\ UNCHANGED lidar_id
          ELSE lidar_id' = lidar_id + 1 /\ UNCHANGED poller
  /\ UNCHANGED <<storeVars, sampling, count, producerVars, nodeVars, historyVars>>

(* PollingLidarPointCloudData: the outer loop ends when the queue is       *)
(* empty or on a request to exit.                                          *)
Poll ==
  /\ poller = "poll"
  /\ IF ~request_exit /\ Used(lidar_id) > 0
     THEN poller' = "drain" /\ UNCHANGED lidar_id
     ELSE poller' = "visit" /\ lidar_id' = lidar_id + 1
  /\ UNCHANGED <<storeVars, sampling, count, producerVars, nodeVars, historyVars>>

(* GetCurrentPublisher and GetCurrentImuPublisher: every lidar has its own *)
(* topic, or all share one.                                                *)
Topic(l) == IF use_multi_topic_ THEN l ELSE 0
Topics == IF use_multi_topic_ THEN Lidars ELSE {0}

(* A message carries the stamp of its frame, and gives its points relative *)
(* to it or with their own times.                                          *)
Message(l) == Head(queue[l])
Publish(l) == published' = [published EXCEPT ![Topic(l)] = Message(l)]

LastOut(l) == owed' = IF Used(l) = 1 THEN owed \ {l} ELSE owed

(* Mutant of Pop: the frame that came last leaves first.                   *)
PopNewest(l) ==
  /\ queue' = [queue EXCEPT ![l] = SubSeq(@, 1, Len(@) - 1)]
  /\ published' = [published EXCEPT ![Topic(l)] = queue[l][Len(queue[l])]]
  /\ LastOut(l)

Pop(l) == queue' = [queue EXCEPT ![l] = Tail(@)] /\ Publish(l) /\ LastOut(l)

(* PublishPointcloud2, PublishCustomPointcloud: the inner loop pops and    *)
(* publishes until the queue is empty.                                     *)
Drain ==
  /\ stream = "points" /\ transfer_format_ # "PclPxyzi"
  /\ poller = "drain"
  /\ IF Used(lidar_id) = 0
     THEN poller' = "poll" /\ UNCHANGED <<storeVars, owed>>
     ELSE Pop(lidar_id) /\ UNCHANGED poller
  /\ UNCHANGED <<sampling, count, producerVars, lidar_id, nodeVars, late>>

(* In ROS 2 this returns at once, and the outer loop calls it again.       *)
PublishPclMsg ==
  /\ stream = "points" /\ transfer_format_ = "PclPxyzi"
  /\ poller = "drain"
  /\ poller' = "poll"
  /\ UNCHANGED <<storeVars, sampling, count, producerVars, lidar_id, nodeVars, historyVars>>

(* PublishImuData: one sample at a time, then the request to exit is       *)
(* looked at again.                                                        *)
PublishImuData ==
  /\ stream = "imu"
  /\ poller = "drain"
  /\ queue' = ImuPop(lidar_id)
  /\ IF Used(lidar_id) = 0 THEN UNCHANGED <<published, owed>>
                           ELSE Publish(lidar_id) /\ LastOut(lidar_id)
  /\ poller' = "poll"
  /\ UNCHANGED <<sampling, count, producerVars, lidar_id, nodeVars, late>>

EndRound ==
  /\ poller = "future"
  /\ poller' = IF exit_signal THEN "stopped" ELSE "top"
  /\ UNCHANGED <<storeVars, sampling, count, producerVars, lidar_id, nodeVars, historyVars>>

-----------------------------------------------------------------------------
(* A lidar's configuration is complete: livox_lidar_callback.cpp sets the  *)
(* state and never takes it back.                                          *)
StartSampling(l) ==
  /\ ~sampling[l]
  /\ sampling' = [sampling EXCEPT ![l] = TRUE]
  /\ UNCHANGED <<storeVars, count, producerVars, pollerVars, nodeVars, historyVars>>

(* ~DriverNode: request_exit_, then the promise, then the joins.           *)
RequestExit ==
  /\ ~request_exit
  /\ request_exit' = TRUE
  /\ UNCHANGED <<storeVars, sampling, count, producerVars, pollerVars, configVars, exit_signal, historyVars>>

SetExitSignal ==
  /\ request_exit /\ ~exit_signal
  /\ exit_signal' = TRUE
  /\ UNCHANGED <<storeVars, sampling, count, producerVars, pollerVars, configVars, request_exit, historyVars>>

-----------------------------------------------------------------------------
Init ==
  /\ stream \in {"points", "imu"} /\ transfer_format_ \in Formats
  /\ queue = [l \in Lidars |-> <<>>]
  /\ newest = [l \in Lidars |-> 0] /\ published = [t \in Topics |-> 0]
  /\ sampling = [l \in Lidars |-> FALSE]
  /\ count = 0
  /\ producer = "idle" /\ target = 1 /\ frames = 0
  /\ poller = "top" /\ lidar_id = 1
  /\ request_exit = FALSE /\ exit_signal = FALSE
  /\ owed = {} /\ late = FALSE

Store == \E l \in Lidars : Push(l) \/ StorageImuData(l)

Producer == Store \/ CheckStored \/ ReadCount \/ Signal

Poller == \/ BeginRound \/ Wait \/ Visit \/ Poll
          \/ Drain \/ PublishPclMsg \/ PublishImuData
          \/ EndRound

Next == \/ Producer
        \/ Poller
        \/ \E l \in Lidars : StartSampling(l)
        \/ RequestExit
        \/ SetExitSignal

Spec == Init /\ [][Next]_vars

(* The operating system schedules both threads and the destructor goes on  *)
(* once it has begun.  Nothing makes a lidar send a frame, nothing makes   *)
(* the node be destroyed.                                                  *)
FairSpec == /\ Spec
            /\ WF_vars(CheckStored \/ ReadCount \/ Signal)
            /\ WF_vars(Poller)
            /\ WF_vars(SetExitSignal)
=============================================================================
