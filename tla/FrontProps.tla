----------------------------- MODULE FrontProps -----------------------------
(***************************************************************************)
(* What LidarFront promises: a lidar samples as the user set it up, sooner *)
(* or later, and no point is lost on the way to its frame.                 *)
(***************************************************************************)
EXTENDS LidarFront, ConfigProps

(* The points of a lidar after the first a, up to b, in the order in which *)
(* they were sent.                                                         *)
Run(a, b) == [i \in 1..b - a |-> a + i]

Ascending(s) == \A i, j \in DOMAIN s : i < j => s[i] < s[j]

(* Up to a: each point stored, in order, or else dropped.                  *)
HandedOn(l, a) ==
  /\ Ascending(stored[l])
  /\ ToSet(stored[l]) = (1..a) \ dropped[l]
  /\ dropped[l] \subseteq 1..a
  /\ l \in DOMAIN UserConfig => dropped[l] = {}

(* Up to b: in the frame that is being stored, with the time of the first. *)
Framed(l, a, b) ==
  /\ \A i \in DOMAIN frame_ :
       frame_[i].lidar = l => a < b /\ frame_[i].base = a + 1 /\ frame_[i].points = Run(a, b)
  /\ \A i, j \in DOMAIN frame_ : frame_[i].lidar = l /\ frame_[j].lidar = l => i = j
  /\ a = b \/ \E i \in DOMAIN frame_ : frame_[i].lidar = l

(* The point after c, if it is of the packet in the hand.                  *)
InHand(l) == processor = "process" /\ raw_data.lidar = l

Taken(l, c) == IF InHand(l) THEN c + 1 ELSE c

(* After t: still queued, between those of the other lidars.               *)
Queued(l, t) ==
  LET mine == {i \in DOMAIN raw_packet_queue_ : raw_packet_queue_[i].lidar = l}
  IN /\ {raw_packet_queue_[i].point : i \in mine} = t + 1..sent[l]
     /\ \A i, j \in mine : i < j => raw_packet_queue_[i].point < raw_packet_queue_[j].point

(* The points of l on their way, cut in three places.                      *)
InPlace(l, a, b, c) ==
  /\ a <= b /\ b <= c
  /\ HandedOn(l, a)
  /\ Framed(l, a, b)
  /\ points_clouds_[l] = Run(b, c)
  /\ InHand(l) => raw_data.point = c + 1
  /\ Taken(l, c) <= sent[l]
  /\ Queued(l, Taken(l, c))

(* The vectors that collect points change places, the time synchronisation *)
(* comes and goes, lidars are added: still every point that was sent is    *)
(* stored or on its way, once and in order.  Only a lidar that was not     *)
(* announced yet, and is not in the user's file, loses points.  A frame    *)
(* has the time of its first point.                                        *)
EveryPointOnce == \A l \in Lidars : \E a, b, c \in 0..sent[l] : InPlace(l, a, b, c)
=============================================================================
