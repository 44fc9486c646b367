---------------------------- MODULE PatrolProps ----------------------------
(***************************************************************************)
(* What the mission of PatrolManager promises.                             *)
(***************************************************************************)
EXTENDS PatrolManager

(* Every variable has its type: idx never passes the end of the queue, the *)
(* failure counter never passes the limit at which the node gives up.      *)
TypeOK ==
  /\ state \in {"IDLE", "RUNNING", "DOCKING", "LOW_BATTERY", "CHARGING",
                "DONE", "CANCELLED"}
  /\ sub \in {"IDLE", "NAV", "AIM", "WAIT_GIMBAL", "PHOTO"}
  /\ queue \in Seq(Points)
  /\ idx \in 0..Len(queue)
  /\ return_dock \in BOOLEAN
  /\ battery \in {"low", "mid", "full"}
  /\ pending_photo \in {None} \cup [point : Points, steady : BOOLEAN]
  /\ nav_fail_cnt \in 0..FailLimit
  /\ nav_goal_handle \in {None} \cup GoalIds
  /\ retry_timers \subseteq Targets
  /\ goals \in [GoalIds -> {None} \cup Goal]
  /\ robotAt \in Targets \cup {"moving"}
  /\ gimbal \in {"off", "turning", "settled"}
  /\ frame \in {None} \cup [settled : BOOLEAN, fresh : BOOLEAN]
  /\ halted \in BOOLEAN
  /\ cmds \in 0..MaxCmds

(* A running mission has a current point: tick and _nav_result_cb index    *)
(* queue[idx] without a check, and no order of late results, stale photos, *)
(* skipped points and new missions makes that index fall off the queue.    *)
RunningHasPoint == state = "RUNNING" => HasPoint

(* A mission that waits for the robot has something that will wake it: a   *)
(* goal in flight or a retry timer.  tick does nothing in sub-state NAV,   *)
(* so losing both would leave the mission hanging for ever.                *)
NavNeverOrphaned ==
  (state \in DrivingStates /\ sub = "NAV") =>
     \/ \E g \in GoalIds : goals[g] # None
     \/ retry_timers # {}

(* While a mission waits in sub-state PHOTO a photo is pending and it is   *)
(* the photo of the current point: without a pending photo neither img_cb  *)
(* nor the 8 s timeout would ever move on, with another one the photo gets *)
(* the wrong name.                                                         *)
PhotoWaitIsArmed ==
  sub = "PHOTO" => /\ state = "RUNNING"
                   /\ pending_photo # None
                   /\ pending_photo.point = Point

(* The low-battery branch of tick is dead: it asks for sub-state IDLE,     *)
(* which a running mission never has, so LOW_BATTERY and CHARGING are      *)
(* never entered.                                                          *)
LowBatteryUnreachable == state \notin {"LOW_BATTERY", "CHARGING"}

(* The time-stamp rule of the module docstring: when the photo was armed   *)
(* with the gimbal settled and the robot has not driven off since, the     *)
(* frame saved shows the settled gimbal, however late it is delivered.     *)
SavedPhotoIsSteady ==
  [][/\ pending_photo # None /\ pending_photo' = None
     /\ frame # None /\ frame' = None
     /\ pending_photo.steady
     => frame.settled]_vars

(* A mission always ends: every point is photographed, given up after the  *)
(* timeouts or skipped after the failures, whatever Nav2 answers and       *)
(* however stale goals and timers of earlier missions interfere.           *)
MissionEnds == state = "RUNNING" ~> state # "RUNNING"

-----------------------------------------------------------------------------
(* The following are what the documentation says and the code does not do. *)

(* patrol_manager.py:316: a cancelled mission ignores late callbacks: the   *)
(* node sends no goal until the operator gives another command.            *)
CancelSticks ==
  [][state = "CANCELLED" /\ cmds' = cmds =>
       \A g \in GoalIds : goals[g] = None => goals'[g] = None]_vars

(* web/index.html:159: after the stop button is pressed the node sends no  *)
(* goal until the operator asks for one.                                   *)
EmergencyStopHolds ==
  [][halted /\ cmds' = cmds =>
       \A g \in GoalIds : goals[g] = None => goals'[g] = None]_vars
=============================================================================
