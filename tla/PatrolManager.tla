--------------------------- MODULE PatrolManager ---------------------------
(***************************************************************************)
(* The inspection mission of robot_sim/patrol_manager.py, with the parts   *)
(* of its environment whose ordering it depends on: the NavigateToPose     *)
(* action server of Nav2, the gimbal and the camera, and the operator at   *)
(* the web console.                                                        *)
(*                                                                         *)
(* The node runs on a single-threaded executor, so every callback is one   *)
(* step.  What interleaves is what crosses a topic, an action or a timer:  *)
(* goals, goal responses, results, retry timers, frames and commands.      *)
(*                                                                         *)
(* Time is not modelled: a timer may fire and a timeout may have expired   *)
(* at any later step.  A start that the 0.5 s debounce ignores is a        *)
(* stuttering step, so Start stands for the ones that are not ignored.     *)
(***************************************************************************)
EXTENDS Naturals, Sequences, FiniteSets

CONSTANTS
  Points,        \* the inspection points (keys of scenario.POINT_MAP)
  Charger,       \* the approach pose of the charger
  Missions,      \* the point lists a start command may carry
  BatteryLevels, \* the battery readings that can arrive
  FailLimit,     \* consecutive navigation failures tolerated (5 in the code)
  MaxGoals,      \* bound: goals in flight between the node and Nav2
  MaxCmds,       \* bound: operator inputs in a behaviour
  None

ASSUME PatrolAssumption ==
  /\ Charger \notin Points
  /\ Missions \subseteq Seq(Points) \ {<<>>}
  /\ BatteryLevels \subseteq {"low", "mid", "full"}
  /\ FailLimit \in Nat \ {0}
  /\ MaxGoals \in Nat \ {0}
  /\ MaxCmds \in Nat

VARIABLES
  state,           \* the mission state
  sub,             \* the step at the current point
  queue,           \* the points of the mission
  idx,             \* how many of them are behind (saturates at Len(queue))
  return_dock,     \* go back to the charger at the end?
  battery,         \* the last reading, against low_battery and resume_battery
  pending_photo,   \* the photo being waited for, or None
  nav_fail_cnt,    \* consecutive failures (saturates at FailLimit)
  nav_goal_handle, \* the goal a cancel would reach, or None
  retry_timers,    \* the targets of the retry timers that are running
  goals,           \* external: the goals in flight to and from Nav2
  robotAt,         \* external: the place the robot stands at, or "moving"
  gimbal,          \* external: towards north, "off", "turning" or "settled"
  frame,           \* external: the camera frame in transit, or None
  halted,          \* history: was the last operator input a stop?
  cmds             \* bound: operator inputs so far

missionVars == <<state, sub, queue, idx, return_dock>>
navVars     == <<goals, nav_goal_handle, nav_fail_cnt, retry_timers>>
cameraVars  == <<pending_photo, gimbal, frame>>
operatorVars == <<halted, cmds>>
vars == <<missionVars, navVars, cameraVars, operatorVars, battery, robotAt>>

-----------------------------------------------------------------------------
GoalIds == 1..MaxGoals
Targets == Points \cup {Charger}

Outcomes == {"succeeded", "aborted", "canceled"}
Goal == [target    : Targets,
         server    : {"sent", "active", "rejected"} \cup Outcomes,
         known     : BOOLEAN,   \* has the goal response been delivered?
         cancelReq : BOOLEAN]

(* None is neither a goal, nor the name of one, nor any other value.       *)
ASSUME NoneAssumption ==
  /\ None \notin Goal \cup GoalIds
  /\ None \notin [point : Points, steady : BOOLEAN]

(* The states in which the node wants the robot to drive.                  *)
DrivingStates == {"RUNNING", "DOCKING", "LOW_BATTERY"}

Point == queue[idx + 1]
HasPoint == idx < Len(queue)
FreeIds(gs) == {g \in GoalIds : gs[g] = None}
NewGoal(t) == [target |-> t, server |-> "sent", known |-> FALSE, cancelReq |-> FALSE]

(* The goal ids that cancelling the current handle touches.  A handle      *)
(* whose goal has ended reaches nothing.                                   *)
Cancelled(gs) ==
  IF nav_goal_handle # None /\ gs[nav_goal_handle] # None
  THEN [gs EXCEPT ![nav_goal_handle].cancelReq = TRUE]
  ELSE gs

(* _nav_to: forget the current handle, then send the goal asynchronously.  *)
(* gs is the goals after what the caller has already done to them.         *)
NavTo(gs, t) ==
  /\ FreeIds(gs) # {}
  /\ goals' = [gs EXCEPT ![CHOOSE g \in FreeIds(gs) : TRUE] = NewGoal(t)]
  /\ nav_goal_handle' = None

(* _next_point: drive to the next point, or end the mission.               *)
NextPoint(gs) ==
  IF idx + 1 < Len(queue)
  THEN /\ idx' = idx + 1
       /\ sub' = "NAV"
       /\ NavTo(gs, queue[idx + 2])
       /\ UNCHANGED state
  ELSE /\ idx' = Len(queue)
       /\ IF return_dock
          THEN /\ state' = "DOCKING"
               /\ sub' = "NAV"
               /\ NavTo(gs, Charger)
          ELSE /\ state' = "DONE"
               /\ sub' = "IDLE"
               /\ goals' = gs
               /\ UNCHANGED nav_goal_handle

-----------------------------------------------------------------------------
(* Operator inputs: cmd_cb, and the stop button of the web page.           *)

Command(stops) ==
  /\ cmds < MaxCmds
  /\ cmds' = cmds + 1
  /\ halted' = stops

(* Mutant of Start: the index of the previous mission is not reset.        *)
StartKeepsIdx(names, dock) ==
  /\ Command(FALSE)
  /\ queue' = names
  /\ return_dock' = dock
  /\ state' = "RUNNING"
  /\ sub' = "NAV"
  /\ NavTo(goals, names[1])
  /\ UNCHANGED <<idx, nav_fail_cnt, retry_timers, cameraVars, battery, robotAt>>

Start(names, dock) ==
  /\ Command(FALSE)
  /\ queue' = names
  /\ idx' = 0
  /\ return_dock' = dock
  /\ state' = "RUNNING"
  /\ sub' = "NAV"
  /\ NavTo(goals, names[1])
  /\ UNCHANGED <<nav_fail_cnt, retry_timers, cameraVars, battery, robotAt>>

Cancel ==
  /\ Command(TRUE)
  /\ goals' = Cancelled(goals)
  /\ nav_goal_handle' = None
  /\ state' = "CANCELLED"
  /\ sub' = "IDLE"
  /\ UNCHANGED <<queue, idx, return_dock, nav_fail_cnt, retry_timers,
                 cameraVars, battery, robotAt>>

ReturnDock ==
  /\ state \in {"IDLE", "DONE", "CANCELLED"}
  /\ Command(FALSE)
  /\ state' = "DOCKING"
  /\ sub' = "NAV"
  /\ NavTo(goals, Charger)
  /\ UNCHANGED <<queue, idx, return_dock, nav_fail_cnt, retry_timers,
                 cameraVars, battery, robotAt>>

(* The page cancels every goal of the action server, behind the node's     *)
(* back.                                                                   *)
EmergencyStop ==
  /\ \E g \in GoalIds : goals[g] # None /\ goals[g].server = "active"
  /\ Command(TRUE)
  /\ goals' = [g \in GoalIds |->
                 IF goals[g] # None /\ goals[g].server = "active"
                 THEN [goals[g] EXCEPT !.cancelReq = TRUE]
                 ELSE goals[g]]
  /\ UNCHANGED <<missionVars, nav_goal_handle, nav_fail_cnt, retry_timers,
                 cameraVars, battery, robotAt>>

-----------------------------------------------------------------------------
(* The 10 Hz state machine: tick.  expired says whether the timeout of the *)
(* current step, counted from t_sub0, has passed.                          *)

(* Low battery: cancel the goal and drive to the charger.                  *)
AbortToDock ==
  /\ state' = "LOW_BATTERY"
  /\ sub' = "NAV"
  /\ NavTo(Cancelled(goals), Charger)
  /\ UNCHANGED <<queue, idx, return_dock, nav_fail_cnt, retry_timers, cameraVars>>

(* Aim north; the gimbal starts to turn unless it is there already.        *)
Aim ==
  /\ sub' = "WAIT_GIMBAL"
  /\ gimbal' = IF gimbal = "off" THEN "turning" ELSE gimbal
  /\ UNCHANGED <<state, queue, idx, return_dock, navVars, pending_photo, frame>>

(* Arm the photo: frames stamped before t_settle + 0.3 s are too old, the  *)
(* one in transit included.                                                *)
ArmPhoto ==
  /\ sub' = "PHOTO"
  /\ pending_photo' = [point |-> Point, steady |-> gimbal = "settled"]
  /\ frame' = IF frame = None THEN None ELSE [frame EXCEPT !.fresh = FALSE]
  /\ UNCHANGED <<state, queue, idx, return_dock, navVars, gimbal>>

(* No frame came within 8 s: go on without the photo.                      *)
GiveUpPhoto ==
  /\ pending_photo' = None
  /\ NextPoint(goals)
  /\ UNCHANGED <<queue, return_dock, nav_fail_cnt, retry_timers, gimbal, frame>>

(* Mutant of TickRunning: the photo has no timeout.                        *)
TickRunningNoTimeout(expired) ==
  IF battery = "low" /\ sub = "IDLE" THEN AbortToDock
  ELSE \/ sub = "AIM" /\ Aim
       \/ sub = "WAIT_GIMBAL" /\ (gimbal = "settled" \/ expired) /\ ArmPhoto

TickRunning(expired) ==
  IF battery = "low" /\ sub = "IDLE" THEN AbortToDock
  ELSE \/ sub = "AIM" /\ Aim
       \/ sub = "WAIT_GIMBAL" /\ (gimbal = "settled" \/ expired) /\ ArmPhoto
       \/ sub = "PHOTO" /\ expired /\ pending_photo # None /\ GiveUpPhoto

(* Charged enough at the charger: resume the mission.                      *)
TickCharging ==
  /\ robotAt = Charger /\ battery = "full"
  /\ state' = "RUNNING"
  /\ sub' = "NAV"
  /\ NavTo(goals, Point)
  /\ UNCHANGED <<queue, idx, return_dock, nav_fail_cnt, retry_timers, cameraVars>>

Tick(expired) ==
  /\ IF state = "CHARGING" THEN TickCharging
     ELSE state = "RUNNING" /\ TickRunning(expired)
  /\ UNCHANGED <<battery, robotAt, operatorVars>>

-----------------------------------------------------------------------------
(* Answers of Nav2 and the retry timer.                                    *)

(* _goal_response_cb.  An accepted goal becomes the current handle         *)
(* whatever the state is by now.                                           *)
GoalResponse(g) ==
  /\ goals[g] # None /\ ~goals[g].known /\ goals[g].server # "sent"
  /\ IF goals[g].server = "rejected"
     THEN LET gs == [goals EXCEPT ![g] = None] IN
          IF state \in DrivingStates
          THEN NextPoint(gs)
          ELSE goals' = gs /\ UNCHANGED <<state, sub, idx, nav_goal_handle>>
     ELSE /\ goals' = [goals EXCEPT ![g].known = TRUE]
          /\ nav_goal_handle' = g
          /\ UNCHANGED <<state, sub, idx>>
  /\ UNCHANGED <<queue, return_dock, nav_fail_cnt, retry_timers, cameraVars,
                 battery, robotAt, operatorVars>>

(* SUCCEEDED, for whichever goal it is.                                    *)
Arrived(gs) ==
  /\ nav_fail_cnt' = 0
  /\ goals' = gs
  /\ state' = CASE state = "DOCKING"     -> "DONE"
                [] state = "LOW_BATTERY" -> "CHARGING"
                [] OTHER                 -> state
  /\ sub' = CASE state = "RUNNING" -> "AIM"
              [] state = "DOCKING" -> "IDLE"
              [] OTHER             -> sub
  /\ UNCHANGED <<idx, nav_goal_handle, retry_timers>>

(* Too many failures: skip the point, or stop when driving to the charger. *)
GiveUpNav(gs) ==
  /\ IF state = "RUNNING"
     THEN /\ nav_fail_cnt' = 0
          /\ NextPoint(gs)
     ELSE /\ nav_fail_cnt' = FailLimit
          /\ goals' = Cancelled(gs)
          /\ nav_goal_handle' = None
          /\ state' = "CANCELLED"
          /\ sub' = "IDLE"
          /\ UNCHANGED idx
  /\ UNCHANGED retry_timers

(* The timer keeps the target that was current when the failure came in.   *)
ScheduleRetry(gs) ==
  /\ nav_fail_cnt' = nav_fail_cnt + 1
  /\ retry_timers' = retry_timers \cup
       (IF state # "RUNNING" THEN {Charger} ELSE IF HasPoint THEN {Point} ELSE {})
  /\ goals' = gs
  /\ UNCHANGED <<state, sub, idx, nav_goal_handle>>

NavFailed(gs) ==
  IF state \notin DrivingStates
  THEN /\ goals' = gs
       /\ UNCHANGED <<state, sub, idx, nav_goal_handle, nav_fail_cnt, retry_timers>>
  ELSE IF nav_fail_cnt + 1 >= FailLimit
       THEN GiveUpNav(gs)
       ELSE ScheduleRetry(gs)

(* _nav_result_cb.  The callback does not know which goal it is about.     *)
NavResult(g) ==
  /\ goals[g] # None /\ goals[g].known /\ goals[g].server \in Outcomes
  /\ LET gs == [goals EXCEPT ![g] = None] IN
     IF goals[g].server = "succeeded" THEN Arrived(gs) ELSE NavFailed(gs)
  /\ UNCHANGED <<queue, return_dock, cameraVars, battery, robotAt, operatorVars>>

(* Mutant of RetryNav: only a running mission resends its goal.            *)
RetryNavRunningOnly(t) ==
  /\ t \in retry_timers
  /\ retry_timers' = {}
  /\ IF state = "RUNNING"
     THEN NavTo(goals, t)
     ELSE UNCHANGED <<goals, nav_goal_handle>>
  /\ UNCHANGED <<missionVars, nav_fail_cnt, cameraVars, battery, robotAt, operatorVars>>

(* _retry_nav: the first timer to fire cancels the others.                 *)
RetryNav(t) ==
  /\ t \in retry_timers
  /\ retry_timers' = {}
  /\ IF state \in DrivingStates
     THEN NavTo(goals, t)
     ELSE UNCHANGED <<goals, nav_goal_handle>>
  /\ UNCHANGED <<missionVars, nav_fail_cnt, cameraVars, battery, robotAt, operatorVars>>

(* Mutant of ImgCb: the photo is disarmed before the time stamp is checked.*)
ImgCbDisarmsFirst ==
  /\ frame # None
  /\ frame' = None
  /\ pending_photo' = None
  /\ IF pending_photo = None \/ ~frame.fresh
     THEN UNCHANGED <<missionVars, goals, nav_goal_handle>>
     ELSE NextPoint(goals) /\ UNCHANGED <<queue, return_dock>>
  /\ UNCHANGED <<nav_fail_cnt, retry_timers, gimbal, battery, robotAt, operatorVars>>

(* Mutant of ImgCb: any frame will do.                                     *)
ImgCbAnyFrame ==
  /\ frame # None
  /\ frame' = None
  /\ IF pending_photo = None
     THEN UNCHANGED <<pending_photo, missionVars, goals, nav_goal_handle>>
     ELSE /\ pending_photo' = None
          /\ NextPoint(goals)
          /\ UNCHANGED <<queue, return_dock>>
  /\ UNCHANGED <<nav_fail_cnt, retry_timers, gimbal, battery, robotAt, operatorVars>>

(* img_cb: a frame that is fresh enough is the photo, in any state.        *)
ImgCb ==
  /\ frame # None
  /\ frame' = None
  /\ IF pending_photo = None \/ ~frame.fresh
     THEN UNCHANGED <<pending_photo, missionVars, goals, nav_goal_handle>>
     ELSE /\ pending_photo' = None
          /\ NextPoint(goals)
          /\ UNCHANGED <<queue, return_dock>>
  /\ UNCHANGED <<nav_fail_cnt, retry_timers, gimbal, battery, robotAt, operatorVars>>

BatCb(b) ==
  /\ battery # b
  /\ battery' = b
  /\ UNCHANGED <<missionVars, navVars, cameraVars, operatorVars, robotAt>>

-----------------------------------------------------------------------------
(* External: the action server runs one goal; a goal it accepts aborts the *)
(* one that is running.  The robot leaves its place, so the gimbal no      *)
(* longer points north.                                                    *)
NavAccept(g) ==
  /\ goals[g] # None /\ goals[g].server = "sent"
  /\ goals' = [h \in GoalIds |->
                 IF h = g THEN [goals[h] EXCEPT !.server = "active"]
                 ELSE IF goals[h] # None /\ goals[h].server = "active"
                      THEN [goals[h] EXCEPT !.server = "aborted"]
                      ELSE goals[h]]
  /\ robotAt' = "moving"
  /\ gimbal' = "off"
  /\ pending_photo' = IF pending_photo = None THEN None
                      ELSE [pending_photo EXCEPT !.steady = FALSE]
  /\ UNCHANGED <<missionVars, nav_goal_handle, nav_fail_cnt, retry_timers,
                 frame, operatorVars, battery>>

NavReject(g) ==
  /\ goals[g] # None /\ goals[g].server = "sent"
  /\ goals' = [goals EXCEPT ![g].server = "rejected"]
  /\ UNCHANGED <<missionVars, nav_goal_handle, nav_fail_cnt, retry_timers,
                 cameraVars, operatorVars, battery, robotAt>>

(* A goal ends: reached, given up, or cancelled on request.                *)
NavEnd(g, outcome) ==
  /\ goals[g] # None /\ goals[g].server = "active"
  /\ outcome = "canceled" => goals[g].cancelReq
  /\ goals' = [goals EXCEPT ![g].server = outcome]
  /\ robotAt' = IF outcome = "succeeded" THEN goals[g].target ELSE robotAt
  /\ UNCHANGED <<missionVars, nav_goal_handle, nav_fail_cnt, retry_timers,
                 cameraVars, operatorVars, battery>>

GimbalSettles ==
  /\ gimbal = "turning"
  /\ gimbal' = "settled"
  /\ UNCHANGED <<missionVars, navVars, pending_photo, frame, operatorVars,
                 battery, robotAt>>

(* A frame is rendered; it may be lost or overtaken by a later one.  Only  *)
(* the frames that can matter are kept: img_cb drops the others.           *)
CaptureFrame(fresh) ==
  /\ sub = "WAIT_GIMBAL" \/ pending_photo # None
  /\ fresh => pending_photo # None
  /\ frame' = [settled |-> gimbal = "settled", fresh |-> fresh]
  /\ frame' # frame
  /\ UNCHANGED <<missionVars, navVars, pending_photo, gimbal, operatorVars,
                 battery, robotAt>>

-----------------------------------------------------------------------------
Init ==
  /\ state = "IDLE" /\ sub = "IDLE"
  /\ queue = <<>> /\ idx = 0
  /\ return_dock = TRUE
  /\ battery = "full"
  /\ pending_photo = None
  /\ nav_fail_cnt = 0
  /\ nav_goal_handle = None
  /\ retry_timers = {}
  /\ goals = [g \in GoalIds |-> None]
  /\ robotAt = Charger
  /\ gimbal = "off"
  /\ frame = None
  /\ halted = FALSE
  /\ cmds = 0

Operator ==
  \/ \E names \in Missions, dock \in BOOLEAN : Start(names, dock)
  \/ Cancel
  \/ ReturnDock
  \/ EmergencyStop

Node ==
  \/ \E expired \in BOOLEAN : Tick(expired)
  \/ \E g \in GoalIds : GoalResponse(g)
  \/ \E g \in GoalIds : NavResult(g)
  \/ \E t \in Targets : RetryNav(t)
  \/ ImgCb

Environment ==
  \/ \E g \in GoalIds : NavAccept(g)
  \/ \E g \in GoalIds : NavReject(g)
  \/ \E g \in GoalIds, outcome \in Outcomes : NavEnd(g, outcome)
  \/ GimbalSettles
  \/ \E fresh \in BOOLEAN : CaptureFrame(fresh)
  \/ \E b \in BatteryLevels : BatCb(b)

Next == Operator \/ Node \/ Environment

Spec == Init /\ [][Next]_vars

(***************************************************************************)
(* Fairness.  The executor keeps serving callbacks and timers, Nav2        *)
(* answers every goal and ends every goal it runs (its controller and its  *)
(* recoveries are bounded in time).  Nothing is assumed of the operator,   *)
(* the camera or the gimbal: the timeouts are there for them.              *)
(***************************************************************************)
Fairness ==
  /\ WF_vars(Tick(TRUE))
  /\ \A g \in GoalIds : WF_vars(GoalResponse(g)) /\ WF_vars(NavResult(g))
  /\ \A t \in Targets : WF_vars(RetryNav(t))
  /\ \A g \in GoalIds : /\ WF_vars(NavAccept(g) \/ NavReject(g))
                        /\ WF_vars(\E outcome \in Outcomes : NavEnd(g, outcome))

FairSpec == Spec /\ Fairness
=============================================================================
