---------------------------- MODULE LidarConfig ----------------------------
(***************************************************************************)
(* livox_ros_driver2/src/call_back/livox_lidar_callback.cpp: how the driver*)
(* brings a lidar to sampling.  When the SDK announces a lidar, one thread *)
(* sends it the settings of the user's file, each with a bit of set_bits,  *)
(* under config_mutex_.  The answers come on another thread, in any order; *)
(* each takes its bit away, and the last one makes the lidar sample.  A    *)
(* command that times out is sent again.                                   *)
(*                                                                         *)
(* Settings are the bits of LivoxLidarConfigCodeBit, in the order in which *)
(* they are sent.  The commands for the attitude and the IMU are left out: *)
(* their callbacks change nothing, they print or send the command again.   *)
(* What the SDK and the lidars do is external.                             *)
(***************************************************************************)
EXTENDS Naturals, FiniteSets

CONSTANTS
  Lidars,       \* handles
  SettingCount, \* bits of set_bits
  UserConfig,   \* the settings that the user's file has for the lidars in it,
                \* those that got an index
  MaxSource,    \* kMaxSourceLidar
  MaxInputs,    \* bound: announcements (and packets) of lidars
  MaxTroubles,  \* bound: commands that time out or fail
  None

Settings == 1..SettingCount
WorkMode == SettingCount + 1
Commands == 1..SettingCount + 1

ASSUME ConfigAssumption ==
  /\ IsFiniteSet(Lidars)
  /\ SettingCount \in Nat /\ MaxSource \in Nat
  /\ MaxInputs \in Nat /\ MaxTroubles \in Nat
  /\ UserConfig \in [DOMAIN UserConfig -> SUBSET Settings]
  /\ DOMAIN UserConfig \subseteq Lidars
  /\ None \notin Lidars

VARIABLES
  indexed,    \* lidars that cache_index_ knows
  announcing, \* the lidar whose announcement holds config_mutex_, or None
  todo,       \* the settings it has still to send
  set_bits,   \* of each lidar
  sampling,   \* lidars whose connect_state is kConnectStateSampling
  inflight,   \* of each lidar: commands sent and not answered
  normal,     \* external: lidars that changed to the Normal work mode
  confirmed,  \* history: settings that each lidar confirmed
  failed,     \* history: commands that each lidar refused
  inputs,     \* bound: announcements (and packets) so far
  troubles    \* bound: timeouts and failures so far

mutexVars   == <<announcing, todo>>
lidarVars   == <<set_bits, sampling>>
historyVars == <<normal, confirmed, failed>>
configVars == <<indexed, mutexVars, lidarVars, inflight, historyVars, inputs, troubles>>

-----------------------------------------------------------------------------
(* The settings a lidar is sent.  One that is not in the user's file has a *)
(* livox_config of zeros, and only -1 means that a setting is left alone.  *)
Wanted(l) == IF l \in DOMAIN UserConfig THEN UserConfig[l] ELSE Settings

Send(l, c) == inflight' = [inflight EXCEPT ![l][c] = @ + 1]

(* LidarInfoChangeCallback up to the lock: a lidar without an index gets   *)
(* one if there is one, and no settings.                                   *)
Announce(l) ==
  /\ announcing = None /\ inputs < MaxInputs
  /\ inputs' = inputs + 1
  /\ IF l \in indexed
     THEN announcing' = l /\ todo' = Wanted(l) /\ UNCHANGED <<indexed, inflight>>
     ELSE /\ UNCHANGED mutexVars
          /\ IF Cardinality(indexed) < MaxSource
             THEN indexed' = indexed \cup {l} /\ Send(l, WorkMode)
             ELSE UNCHANGED <<indexed, inflight>>
  /\ UNCHANGED <<lidarVars, historyVars, troubles>>

(* Under the lock: the bit of the next setting, then its command.          *)
SendSetting ==
  /\ announcing # None
  /\ \E s \in todo :
       /\ \A r \in todo : s <= r
       /\ set_bits' = [set_bits EXCEPT ![announcing] = @ \cup {s}]
       /\ Send(announcing, s)
       /\ todo' = todo \ {s}
  /\ UNCHANGED <<indexed, announcing, sampling, historyVars, inputs, troubles>>

(* Nothing to set: sampling at once.  The other commands go out after the  *)
(* lock is given back.                                                     *)
EndSettings ==
  /\ announcing # None /\ todo = {}
  /\ sampling' = IF set_bits[announcing] = {} THEN sampling \cup {announcing} ELSE sampling
  /\ Send(announcing, WorkMode)
  /\ announcing' = None
  /\ UNCHANGED <<indexed, todo, set_bits, historyVars, inputs, troubles>>

-----------------------------------------------------------------------------
Answered(l, c) ==
  inflight[l][c] > 0 /\ inflight' = [inflight EXCEPT ![l][c] = @ - 1]

(* Mutant of Confirm: the bits are not locked.                             *)
ConfirmUnlocked(l, s) ==
  /\ Answered(l, s)
  /\ set_bits' = [set_bits EXCEPT ![l] = @ \ {s}]
  /\ sampling' = IF set_bits'[l] = {} THEN sampling \cup {l} ELSE sampling
  /\ confirmed' = [confirmed EXCEPT ![l] = @ \cup {s}]
  /\ UNCHANGED <<indexed, mutexVars, normal, failed, inputs, troubles>>

(* SetDataTypeCallback and the other three, on success.                    *)
Confirm(l, s) ==
  /\ announcing = None
  /\ Answered(l, s)
  /\ set_bits' = [set_bits EXCEPT ![l] = @ \ {s}]
  /\ sampling' = IF set_bits'[l] = {} THEN sampling \cup {l} ELSE sampling
  /\ confirmed' = [confirmed EXCEPT ![l] = @ \cup {s}]
  /\ UNCHANGED <<indexed, mutexVars, normal, failed, inputs, troubles>>

(* WorkModeChangedCallback, on success.                                    *)
WorkModeChanged(l) ==
  /\ Answered(l, WorkMode)
  /\ normal' = normal \cup {l}
  /\ UNCHANGED <<indexed, mutexVars, lidarVars, confirmed, failed, inputs, troubles>>

(* Mutant of TimeOut: only the work mode is sent again.                    *)
TimeOutGivesUp(l, c) ==
  /\ troubles < MaxTroubles
  /\ troubles' = troubles + 1
  /\ IF c = WorkMode THEN inflight[l][c] > 0 /\ UNCHANGED inflight
     ELSE Answered(l, c)
  /\ UNCHANGED <<indexed, mutexVars, lidarVars, historyVars, inputs>>

(* All callbacks send the command again after a timeout, without the lock. *)
TimeOut(l, c) ==
  /\ troubles < MaxTroubles
  /\ troubles' = troubles + 1
  /\ inflight[l][c] > 0
  /\ UNCHANGED <<indexed, mutexVars, lidarVars, inflight, historyVars, inputs>>

(* Of the commands that fail otherwise only the work mode is sent again.   *)
Fail(l, c) ==
  /\ troubles < MaxTroubles
  /\ troubles' = troubles + 1
  /\ IF c = WorkMode THEN inflight[l][c] > 0 /\ UNCHANGED inflight
     ELSE Answered(l, c)
  /\ failed' = [failed EXCEPT ![l] = @ \cup {c}]
  /\ UNCHANGED <<indexed, mutexVars, lidarVars, normal, confirmed, inputs>>

-----------------------------------------------------------------------------
(* InitLivoxLidar gives the lidars of the user's file their indices before *)
(* the SDK may announce any.                                               *)
Init ==
  /\ indexed = DOMAIN UserConfig
  /\ announcing = None /\ todo = {}
  /\ set_bits = [l \in Lidars |-> {}]
  /\ sampling = {}
  /\ inflight = [l \in Lidars |-> [c \in Commands |-> 0]]
  /\ normal = {}
  /\ confirmed = [l \in Lidars |-> {}]
  /\ failed = [l \in Lidars |-> {}]
  /\ inputs = 0 /\ troubles = 0

Answer(l, c) == \/ c \in Settings /\ Confirm(l, c)
                \/ c = WorkMode /\ WorkModeChanged(l)
                \/ TimeOut(l, c)
                \/ Fail(l, c)

Next == \/ \E l \in Lidars : Announce(l)
        \/ SendSetting
        \/ EndSettings
        \/ \E l \in Lidars, c \in Commands : Answer(l, c)

Spec == Init /\ [][Next]_configVars
=============================================================================
