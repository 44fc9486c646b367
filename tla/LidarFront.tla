----------------------------- MODULE LidarFront -----------------------------
(***************************************************************************)
(* livox_ros_driver2/src/comm/pub_handler.cpp beside LidarConfig: a thread *)
(* of the SDK queues the packets of all lidars, the process thread collects*)
(* them and from time to time cuts what it has into a frame, which         *)
(* Lds::StoragePointData hands on lidar by lidar (to Push of               *)
(* LidarDistribution), if cache_index_ knows the lidar.                    *)
(*                                                                         *)
(* The points of a packet stay together and are one number, counted per    *)
(* lidar.  Whether the interval of a frame is over is left open.           *)
(***************************************************************************)
EXTENDS LidarConfig, Sequences, SequencesExt

VARIABLES
  raw_packet_queue_,
  is_timestamp_sync_,
  points_clouds_,    \* of each lidar: collected since the last frame
  points_,           \* of each lidar: those of the last frame
  processor,         \* where the process thread is
  raw_data,          \* the packet in its hand
  frame_,            \* what of the frame is to be stored
  first,             \* has the timer of unsynchronised frames not started?
  is_quit_,
  sent,              \* external: packets of each lidar so far
  stored,            \* history: points of each lidar handed to PushLidarData
  dropped            \* history: points of each lidar while it had no index

threadVars == <<points_clouds_, points_, processor, raw_data, frame_, first>>
pubVars == <<raw_packet_queue_, is_timestamp_sync_, threadVars, is_quit_, sent, stored, dropped>>

-----------------------------------------------------------------------------
(* OnLivoxLidarPointCloudCallback; the observer is removed before the end. *)
Packet(l, sync) ==
  /\ ~is_quit_ /\ inputs < MaxInputs
  /\ inputs' = inputs + 1
  /\ sent' = [sent EXCEPT ![l] = @ + 1]
  /\ is_timestamp_sync_' = sync
  /\ raw_packet_queue_' = Append(raw_packet_queue_, [lidar |-> l, point |-> sent[l] + 1])
  /\ UNCHANGED <<threadVars, is_quit_, stored, dropped>>

(* A packet of the IMU goes straight to StorageImuData (LidarDistribution);*)
(* what it leaves here is its say on the time synchronisation.             *)
ImuPacket(sync) ==
  /\ ~is_quit_ /\ inputs < MaxInputs
  /\ inputs' = inputs + 1
  /\ is_timestamp_sync_' = sync
  /\ UNCHANGED <<raw_packet_queue_, threadVars, is_quit_, sent, stored, dropped>>

(* RawDataProcess: the wait for a packet ends after 500 ms at the latest.  *)
CheckQuit ==
  /\ processor = "top"
  /\ processor' = IF is_quit_ THEN "stopped" ELSE "take"
  /\ UNCHANGED <<raw_packet_queue_, is_timestamp_sync_, points_clouds_, points_,
                 raw_data, frame_, first, is_quit_, sent, stored, dropped>>

TakePacket ==
  /\ processor = "take"
  /\ IF raw_packet_queue_ = <<>>
     THEN processor' = "top" /\ UNCHANGED <<raw_packet_queue_, raw_data>>
     ELSE /\ processor' = "process"
          /\ raw_data' = Head(raw_packet_queue_)
          /\ raw_packet_queue_' = Tail(raw_packet_queue_)
  /\ UNCHANGED <<is_timestamp_sync_, points_clouds_, points_, frame_, first, is_quit_, sent, stored, dropped>>

(* ProcessCartesianHighPoint and the other three: the points of a packet,  *)
(* converted (and each with a second one, of double echo), are appended.   *)
Collected(p) == Append(points_clouds_[p.lidar], p.point)

(* PointCloudProcess.                                                      *)
ProcessPacket ==
  /\ processor = "process"
  /\ processor' = "timer"
  /\ points_clouds_' = [points_clouds_ EXCEPT ![raw_data.lidar] = Collected(raw_data)]
  /\ UNCHANGED <<raw_packet_queue_, is_timestamp_sync_, points_, raw_data, frame_, first, is_quit_, sent, stored, dropped>>

(* Mutant of Swap: the points of the last frame are not cleared before.    *)
SwapUncleared(ls) ==
  /\ points_' = [l \in Lidars |-> IF l \in ls THEN points_clouds_[l] ELSE points_[l]]
  /\ points_clouds_' = [l \in Lidars |-> IF l \in ls THEN points_[l] ELSE points_clouds_[l]]

(* The points of the last frame are cleared and change places with the     *)
(* collected ones.                                                         *)
Swap(ls) ==
  /\ points_' = [l \in Lidars |-> IF l \in ls THEN points_clouds_[l] ELSE points_[l]]
  /\ points_clouds_' = [l \in Lidars |-> IF l \in ls THEN <<>> ELSE points_clouds_[l]]

(* GetLidarBaseTime.                                                       *)
BaseTime(l) == IF points_clouds_[l] = <<>> THEN 0 ELSE points_clouds_[l][1]

(* One entry per lidar that has points, with its base time; their order    *)
(* does not matter.                                                        *)
Frame(ls) ==
  LET Entry(l) == [lidar |-> l, base |-> BaseTime(l), points |-> points_clouds_[l]]
  IN SetToSeq({Entry(l) : l \in {k \in ls : points_clouds_[k] # <<>>}})

(* CheckTimer: with synchronised stamps the lidar of the packet has its own*)
(* frame, without them all lidars have one, from a timer that the first    *)
(* call starts.                                                            *)
CheckTimer(due) ==
  /\ processor = "timer"
  /\ first' = (first /\ is_timestamp_sync_)
  /\ IF due /\ (is_timestamp_sync_ \/ ~first)
     THEN LET ls == IF is_timestamp_sync_ THEN {raw_data.lidar} ELSE Lidars
          IN Swap(ls) /\ frame_' = Frame(ls) /\ processor' = "store"
     ELSE processor' = "top" /\ UNCHANGED <<points_clouds_, points_, frame_>>
  /\ UNCHANGED <<raw_packet_queue_, is_timestamp_sync_, raw_data, is_quit_, sent, stored, dropped>>

(* StoragePointData, lidar by lidar.                                       *)
StorePoints ==
  /\ processor = "store"
  /\ IF frame_ = <<>>
     THEN processor' = "top" /\ UNCHANGED <<frame_, stored, dropped>>
     ELSE LET e == Head(frame_) IN
          /\ frame_' = Tail(frame_)
          /\ IF e.lidar \in indexed
             THEN /\ stored' = [stored EXCEPT ![e.lidar] = @ \o e.points]
                  /\ UNCHANGED dropped
             ELSE /\ dropped' = [dropped EXCEPT ![e.lidar] = @ \cup ToSet(e.points)]
                  /\ UNCHANGED stored
          /\ UNCHANGED processor
  /\ UNCHANGED <<raw_packet_queue_, is_timestamp_sync_, points_clouds_, points_,
                 raw_data, first, is_quit_, sent>>

(* Uninit, up to the join.                                                 *)
Uninit ==
  /\ ~is_quit_
  /\ is_quit_' = TRUE
  /\ UNCHANGED <<raw_packet_queue_, is_timestamp_sync_, threadVars, sent, stored, dropped>>

-----------------------------------------------------------------------------
PubInit ==
  /\ raw_packet_queue_ = <<>>
  /\ is_timestamp_sync_ = FALSE
  /\ points_clouds_ = [l \in Lidars |-> <<>>]
  /\ points_ = [l \in Lidars |-> <<>>]
  /\ processor = "top" /\ raw_data = None
  /\ frame_ = <<>> /\ first = TRUE
  /\ is_quit_ = FALSE
  /\ sent = [l \in Lidars |-> 0]
  /\ stored = [l \in Lidars |-> <<>>]
  /\ dropped = [l \in Lidars |-> {}]

Process == \/ CheckQuit
           \/ TakePacket
           \/ ProcessPacket
           \/ \E due \in BOOLEAN : CheckTimer(due)
           \/ StorePoints

vars == <<configVars, pubVars>>

(* The lidars are brought up while others send already; a packet counts as *)
(* an input.                                                               *)
FrontNext ==
  \/ Next /\ UNCHANGED pubVars
  \/ \E sync \in BOOLEAN :
       /\ ImuPacket(sync) \/ \E l \in Lidars : Packet(l, sync)
       /\ UNCHANGED <<indexed, mutexVars, lidarVars, inflight, historyVars, troubles>>
  \/ Process /\ UNCHANGED configVars
  \/ Uninit /\ UNCHANGED configVars

FrontInit == Init /\ PubInit

FrontSpec == FrontInit /\ [][FrontNext]_vars

(* The thread that announces goes on, and the SDK answers every command,   *)
(* at the latest with a timeout.                                           *)
FairFrontSpec ==
  /\ FrontSpec
  /\ WF_vars((SendSetting \/ EndSettings) /\ UNCHANGED pubVars)
  /\ \A l \in Lidars, c \in Commands : WF_vars(Answer(l, c) /\ UNCHANGED pubVars)
=============================================================================
