---------------------------- MODULE ConfigProps ----------------------------
(***************************************************************************)
(* What LidarConfig promises: a lidar samples once it is set up, not       *)
(* before, and no setting is forgotten.                                    *)
(***************************************************************************)
EXTENDS LidarConfig

(* Every variable has its type.                                            *)
ConfigTypeOK ==
  /\ indexed \subseteq Lidars
  /\ announcing \in Lidars \cup {None}
  /\ todo \subseteq Settings
  /\ set_bits \in [Lidars -> SUBSET Settings]
  /\ sampling \subseteq Lidars
  /\ inflight \in [Lidars -> [Commands -> Nat]]
  /\ normal \subseteq Lidars
  /\ confirmed \in [Lidars -> SUBSET Settings]
  /\ failed \in [Lidars -> SUBSET Commands]
  /\ inputs \in 0..MaxInputs /\ troubles \in 0..MaxTroubles

(* A lidar samples only when it has confirmed every setting it was to get. *)
(* The answers come on another thread while the settings are still being   *)
(* sent, and a second announcement mixes its answers with those of the     *)
(* first.                                                                  *)
SamplesConfigured == \A l \in sampling : Wanted(l) \subseteq confirmed[l]

(* A bit of set_bits does not stay for good without a command that can     *)
(* take it away, unless the lidar refused the setting.                     *)
NoBitForgotten ==
  \A l \in Lidars : \A s \in set_bits[l] : inflight[l][s] > 0 \/ s \in failed[l]

(* A lidar that was announced samples in the end, unless it refuses a      *)
(* setting.                                                                *)
AnnouncedSamples ==
  \A l \in Lidars :
    announcing = l ~> (l \in sampling \/ failed[l] \cap Settings # {})
=============================================================================
