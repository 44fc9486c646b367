---------------------------- MODULE RobotProofs ----------------------------
(***************************************************************************)
(* The two nodes of the robot that decide, proved apart, as they share no  *)
(* variable.                                                               *)
(* The mission: its safety for every set of points, every mission, every   *)
(* failure limit and any number of goals in flight and operator inputs.    *)
(* The map node: its types, and that votes, maps, topics and archives stay *)
(* in agreement, for every set of cells and scans, every threshold and     *)
(* limit, and any number of scans, saves, loads and kills.                 *)
(***************************************************************************)
EXTENDS PatrolProps, MapProps, FiniteSetTheorems, TLAPS

GoalTable == [GoalIds -> {None} \cup Goal]

(* A running mission is never in sub-state IDLE: this is what keeps the    *)
(* low-battery branch of tick shut.                                        *)
RunningIsBusy == state = "RUNNING" => sub # "IDLE"

(* Why a saved photo is steady: the gimbal cannot leave its place without  *)
(* the robot driving off, and a frame fresh for the photo was taken after. *)
SteadyPhoto ==
  (pending_photo # None /\ pending_photo.steady) =>
     /\ gimbal = "settled"
     /\ (frame # None /\ frame.fresh) => frame.settled

(* The inductive invariant.  No part is inductive alone: the types of the  *)
(* retry targets need RunningHasPoint, RunningHasPoint needs the branches  *)
(* to RUNNING from CHARGING shut, and those need RunningIsBusy.            *)
IInv ==
  /\ TypeOK
  /\ RunningHasPoint
  /\ NavNeverOrphaned
  /\ PhotoWaitIsArmed
  /\ LowBatteryUnreachable
  /\ RunningIsBusy
  /\ SteadyPhoto

-----------------------------------------------------------------------------
(* Sending a goal puts one in flight and forgets the handle.               *)
LEMMA NavToSends ==
  ASSUME NEW gs \in GoalTable, NEW t \in Targets, NavTo(gs, t)
  PROVE  /\ goals' \in GoalTable
         /\ nav_goal_handle' = None
         /\ \E g \in GoalIds : goals'[g] # None
<1> DEFINE free == CHOOSE g \in FreeIds(gs) : TRUE
<1>1. free \in GoalIds
  BY DEF NavTo, FreeIds
<1>2. NewGoal(t) \in Goal
  BY DEF NewGoal, Goal
<1>3. NewGoal(t) # None
  BY <1>2, NoneAssumption
<1>4. goals' = [gs EXCEPT ![free] = NewGoal(t)] /\ nav_goal_handle' = None
  BY DEF NavTo
<1> HIDE DEF free
<1>5. goals'[free] = NewGoal(t)
  BY <1>1, <1>4 DEF GoalTable
<1>6. goals' \in GoalTable
  BY <1>1, <1>2, <1>4 DEF GoalTable
<1> QED BY <1>1, <1>3, <1>4, <1>5, <1>6

(* Cancelling the handle keeps the table of goals well typed.              *)
LEMMA CancelledType ==
  ASSUME NEW gs \in GoalTable
  PROVE  Cancelled(gs) \in GoalTable
<1>1. CASE nav_goal_handle # None /\ gs[nav_goal_handle] # None
  <2>1. ASSUME nav_goal_handle \in GoalIds
        PROVE  [gs[nav_goal_handle] EXCEPT !.cancelReq = TRUE] \in Goal
    BY <1>1, <2>1 DEF GoalTable, Goal
  <2> QED BY <1>1, <2>1 DEF Cancelled, GoalTable
<1> QED BY <1>1 DEF Cancelled

(* What a call of _next_point leaves behind, from a state in which the     *)
(* branches to the charger for low battery are shut.                       *)
LEMMA NextPointKeeps ==
  ASSUME IInv, NEW gs \in GoalTable, NextPoint(gs), UNCHANGED <<queue, return_dock>>
  PROVE  /\ state' \in {"IDLE", "RUNNING", "DOCKING", "DONE", "CANCELLED"}
         /\ sub' \in {"NAV", "IDLE"}
         /\ state' = "RUNNING" => sub' = "NAV" /\ idx' < Len(queue')
         /\ idx' \in 0..Len(queue')
         /\ goals' \in GoalTable
         /\ nav_goal_handle' \in {None} \cup GoalIds
         /\ sub' = "NAV" => \E g \in GoalIds : goals'[g] # None
<1> USE DEF IInv, TypeOK, LowBatteryUnreachable
<1>1. CASE idx + 1 < Len(queue)
  <2>1. queue[idx + 2] \in Targets
    BY <1>1 DEF Targets
  <2>2. NavTo(gs, queue[idx + 2]) /\ state' = state /\ sub' = "NAV" /\ idx' = idx + 1
    BY <1>1 DEF NextPoint
  <2> QED BY <1>1, <2>1, <2>2, NavToSends
<1>2. CASE ~(idx + 1 < Len(queue)) /\ return_dock
  <2>1. NavTo(gs, Charger) /\ state' = "DOCKING" /\ sub' = "NAV" /\ idx' = Len(queue)
    BY <1>2 DEF NextPoint
  <2> QED BY <2>1, NavToSends DEF Targets
<1>3. CASE ~(idx + 1 < Len(queue)) /\ ~return_dock
  BY <1>3 DEF NextPoint
<1> QED BY <1>1, <1>2, <1>3

-----------------------------------------------------------------------------
(* An active goal can be marked for cancellation.                          *)
LEMMA CancelReqType ==
  ASSUME NEW x \in Goal
  PROVE  [x EXCEPT !.cancelReq = TRUE] \in Goal
  BY DEF Goal

LEMMA InitEstablishes == Init => IInv
<1> SUFFICES ASSUME Init PROVE IInv
  OBVIOUS
<1>1. queue \in Seq(Points) /\ Len(queue) = 0
  BY DEF Init
<1>2. goals \in [GoalIds -> {None} \cup Goal]
  BY DEF Init
<1>3. idx \in 0..Len(queue) /\ nav_fail_cnt \in 0..FailLimit /\ cmds \in 0..MaxCmds
  BY <1>1, PatrolAssumption DEF Init
<1>4. TypeOK
  BY <1>1, <1>2, <1>3 DEF Init, TypeOK, Targets
<1> QED
  BY <1>4 DEF Init, IInv, RunningHasPoint, NavNeverOrphaned, PhotoWaitIsArmed,
     LowBatteryUnreachable, RunningIsBusy, SteadyPhoto, DrivingStates

(* Operator inputs.                                                        *)
LEMMA OperatorKeeps == IInv /\ Operator => IInv'
<1> SUFFICES ASSUME IInv, Operator PROVE IInv'
  OBVIOUS
<1> USE PatrolAssumption DEF IInv, TypeOK, RunningHasPoint, NavNeverOrphaned,
        PhotoWaitIsArmed, LowBatteryUnreachable, RunningIsBusy, SteadyPhoto, DrivingStates,
        HasPoint, Point, Command, cameraVars
<1>1. ASSUME NEW names \in Missions, NEW dock \in BOOLEAN, Start(names, dock)
      PROVE  IInv'
  <2>1. names \in Seq(Points) /\ Len(names) > 0
    OBVIOUS
  <2>2. names[1] \in Targets
    BY <2>1 DEF Targets
  <2>3. NavTo(goals, names[1])
    BY <1>1 DEF Start
  <2>4. /\ goals' \in GoalTable
        /\ nav_goal_handle' = None
        /\ \E g \in GoalIds : goals'[g] # None
    BY <2>2, <2>3, NavToSends DEF GoalTable
  <2>5. cmds' \in 0..MaxCmds /\ halted' = FALSE
    BY <1>1 DEF Start
  <2>6. /\ queue' = names /\ idx' = 0 /\ return_dock' = dock
        /\ state' = "RUNNING" /\ sub' = "NAV"
        /\ UNCHANGED <<nav_fail_cnt, retry_timers, pending_photo, gimbal, frame,
                       battery, robotAt>>
    BY <1>1 DEF Start
  <2>7. TypeOK'
    <3>1. idx' \in 0..Len(queue') /\ queue' \in Seq(Points)
      BY <2>1, <2>6
    <3>2. goals' \in [GoalIds -> {None} \cup Goal] /\ nav_goal_handle' \in {None} \cup GoalIds
      BY <2>4 DEF GoalTable
    <3> QED BY <2>5, <2>6, <3>1, <3>2
  <2>8. NavNeverOrphaned'
    BY <2>4
  <2> QED BY <2>1, <2>6, <2>7, <2>8
<1>2. ASSUME Cancel PROVE IInv'
  <2>1. goals' \in GoalTable
    BY <1>2, CancelledType DEF Cancel, GoalTable
  <2> QED BY <1>2, <2>1 DEF Cancel, GoalTable
<1>3. ASSUME ReturnDock PROVE IInv'
  <2>1. /\ goals' \in GoalTable
        /\ nav_goal_handle' = None
        /\ \E g \in GoalIds : goals'[g] # None
    BY <1>3, NavToSends DEF ReturnDock, GoalTable, Targets
  <2>2. TypeOK'
    <3>1. cmds' \in 0..MaxCmds /\ halted' = FALSE
      BY <1>3 DEF ReturnDock
    <3>2. state' = "DOCKING" /\ sub' = "NAV"
      BY <1>3 DEF ReturnDock
    <3> QED BY <1>3, <2>1, <3>1, <3>2 DEF ReturnDock, GoalTable
  <2>3. NavNeverOrphaned'
    BY <2>1
  <2> QED BY <1>3, <2>2, <2>3 DEF ReturnDock
<1>4. ASSUME EmergencyStop PROVE IInv'
  <2>1. ASSUME NEW g \in GoalIds, goals[g] # None
        PROVE  [goals[g] EXCEPT !.cancelReq = TRUE] \in Goal
    BY <2>1, CancelReqType
  <2>2. goals' \in GoalTable /\ \A g \in GoalIds : goals[g] # None => goals'[g] # None
    BY <1>4, <2>1, NoneAssumption DEF EmergencyStop, GoalTable
  <2> QED BY <1>4, <2>2 DEF EmergencyStop, GoalTable, missionVars
<1> QED BY <1>1, <1>2, <1>3, <1>4 DEF Operator

(* The state machine: the charger branches are shut, the others move the   *)
(* sub-state on.                                                           *)
LEMMA TickKeeps == ASSUME IInv, NEW expired \in BOOLEAN, Tick(expired) PROVE IInv'
<1> USE DEF IInv, TypeOK, RunningHasPoint, NavNeverOrphaned, PhotoWaitIsArmed,
        LowBatteryUnreachable, RunningIsBusy, SteadyPhoto, DrivingStates, HasPoint, Point
<1>1. state = "RUNNING" /\ TickRunning(expired)
  BY DEF Tick
<1>2. UNCHANGED <<battery, robotAt, operatorVars>>
  BY DEF Tick
<1>3. sub # "IDLE"
  BY <1>1
<1>4. CASE sub = "AIM" /\ Aim
  BY <1>1, <1>2, <1>4 DEF Aim, navVars, operatorVars
<1>5. CASE sub = "WAIT_GIMBAL" /\ ArmPhoto
  <2>1. Point \in Points
    BY <1>1
  <2>2. pending_photo' \in [point : Points, steady : BOOLEAN]
    BY <1>5, <2>1 DEF ArmPhoto
  <2>3. frame' \in {None} \cup [settled : BOOLEAN, fresh : BOOLEAN]
    BY <1>5 DEF ArmPhoto
  <2>4. pending_photo'.point = Point' /\ pending_photo' # None
    BY <1>5, <2>2, NoneAssumption DEF ArmPhoto
  <2> QED BY <1>1, <1>2, <1>5, <2>2, <2>3, <2>4 DEF ArmPhoto, navVars, operatorVars
<1>6. CASE sub = "PHOTO" /\ GiveUpPhoto
  <2>1. /\ NextPoint(goals) /\ UNCHANGED <<queue, return_dock>>
        /\ UNCHANGED <<nav_fail_cnt, retry_timers, gimbal, frame>>
        /\ pending_photo' = None
    BY <1>6 DEF GiveUpPhoto
  <2>2. goals \in GoalTable
    BY DEF GoalTable
  <2> QED BY <1>2, <2>1, <2>2, NextPointKeeps DEF GoalTable, operatorVars
<1> QED BY <1>1, <1>3, <1>4, <1>5, <1>6 DEF TickRunning

(* Answers of Nav2.                                                        *)
LEMMA GoalResponseKeeps ==
  ASSUME IInv, NEW g \in GoalIds, GoalResponse(g) PROVE IInv'
<1> USE DEF IInv, TypeOK, RunningHasPoint, NavNeverOrphaned, PhotoWaitIsArmed,
        LowBatteryUnreachable, RunningIsBusy, SteadyPhoto, DrivingStates,
        HasPoint, Point
<1> DEFINE gs == [goals EXCEPT ![g] = None]
<1>1. gs \in GoalTable
  BY DEF GoalTable
<1>2. UNCHANGED <<queue, return_dock, nav_fail_cnt, retry_timers, pending_photo,
                  gimbal, frame, battery, robotAt, halted, cmds>>
  BY DEF GoalResponse, cameraVars, operatorVars
<1> HIDE DEF gs
<1>3. CASE goals[g].server = "rejected" /\ state \in DrivingStates
  <2>1. NextPoint(gs)
    BY <1>3 DEF GoalResponse, gs
  <2> QED BY <1>1, <1>2, <2>1, NextPointKeeps DEF GoalTable
<1>4. CASE goals[g].server = "rejected" /\ state \notin DrivingStates
  <2>1. goals' = gs /\ UNCHANGED <<state, sub, idx, nav_goal_handle>>
    BY <1>4 DEF GoalResponse, gs
  <2> QED BY <1>1, <1>2, <1>4, <2>1 DEF GoalTable
<1>5. CASE goals[g].server # "rejected"
  <2>1. goals[g] \in Goal
    BY DEF GoalResponse
  <2>2. [goals[g] EXCEPT !.known = TRUE] \in Goal
    BY <2>1 DEF Goal
  <2>3. /\ goals' = [goals EXCEPT ![g] = [goals[g] EXCEPT !.known = TRUE]]
        /\ nav_goal_handle' = g
        /\ UNCHANGED <<state, sub, idx>>
    BY <1>5 DEF GoalResponse
  <2>4. goals' \in GoalTable /\ goals'[g] # None
    BY <2>2, <2>3, NoneAssumption DEF GoalTable
  <2> QED BY <1>2, <2>3, <2>4 DEF GoalTable
<1> QED BY <1>3, <1>4, <1>5

LEMMA NavResultKeeps ==
  ASSUME IInv, NEW g \in GoalIds, NavResult(g) PROVE IInv'
<1> USE DEF IInv, TypeOK, RunningHasPoint, NavNeverOrphaned, PhotoWaitIsArmed,
        LowBatteryUnreachable, RunningIsBusy, SteadyPhoto, DrivingStates,
        HasPoint, Point
<1> DEFINE gs == [goals EXCEPT ![g] = None]
<1>1. gs \in GoalTable
  BY DEF GoalTable
<1>2. UNCHANGED <<queue, return_dock, pending_photo, gimbal, frame, battery,
                  robotAt, halted, cmds>>
  BY DEF NavResult, cameraVars, operatorVars
<1>3. Arrived(gs) \/ NavFailed(gs)
  BY DEF NavResult
<1> HIDE DEF gs
<1>4. CASE Arrived(gs)
  <2>1. nav_fail_cnt' \in 0..FailLimit
    BY <1>4, PatrolAssumption DEF Arrived
  <2>2. goals' = gs /\ UNCHANGED <<idx, nav_goal_handle, retry_timers>>
    BY <1>4 DEF Arrived
  <2>3. CASE state = "RUNNING"
    <3>1. state' = "RUNNING" /\ sub' = "AIM"
      BY <1>4, <2>3 DEF Arrived
    <3> QED BY <1>1, <1>2, <2>1, <2>2, <2>3, <3>1 DEF GoalTable
  <2>4. CASE state = "DOCKING"
    <3>1. state' = "DONE" /\ sub' = "IDLE"
      BY <1>4, <2>4 DEF Arrived
    <3> QED BY <1>1, <1>2, <2>1, <2>2, <3>1 DEF GoalTable
  <2>5. CASE state \notin {"RUNNING", "DOCKING"}
    <3>1. state' = state /\ sub' = sub
      BY <1>4, <2>5 DEF Arrived
    <3> QED BY <1>1, <1>2, <2>1, <2>2, <2>5, <3>1 DEF GoalTable
  <2> QED BY <2>3, <2>4, <2>5
<1>5. CASE NavFailed(gs) /\ state \notin DrivingStates
  <2>1. goals' = gs
        /\ UNCHANGED <<state, sub, idx, nav_goal_handle, nav_fail_cnt, retry_timers>>
    BY <1>5 DEF NavFailed
  <2> QED BY <1>1, <1>2, <1>5, <2>1 DEF GoalTable
<1>6. CASE NavFailed(gs) /\ state \in DrivingStates /\ nav_fail_cnt + 1 >= FailLimit
  <2>1. GiveUpNav(gs)
    BY <1>6 DEF NavFailed
  <2>2. nav_fail_cnt' \in 0..FailLimit /\ retry_timers' = retry_timers
    BY <2>1, PatrolAssumption DEF GiveUpNav
  <2>3. CASE state = "RUNNING"
    <3>1. NextPoint(gs)
      BY <2>1, <2>3 DEF GiveUpNav
    <3> QED BY <1>1, <1>2, <2>2, <3>1, NextPointKeeps DEF GoalTable
  <2>4. CASE state # "RUNNING"
    <3>1. /\ goals' = Cancelled(gs) /\ nav_goal_handle' = None
          /\ state' = "CANCELLED" /\ sub' = "IDLE" /\ idx' = idx
      BY <2>1, <2>4 DEF GiveUpNav
    <3>2. goals' \in GoalTable
      BY <1>1, <3>1, CancelledType
    <3>3. nav_goal_handle' \in {None} \cup GoalIds
      BY <3>1
    <3> QED BY <1>2, <2>2, <3>1, <3>2, <3>3 DEF GoalTable
  <2> QED BY <2>3, <2>4
<1>7. CASE NavFailed(gs) /\ state \in DrivingStates /\ ~(nav_fail_cnt + 1 >= FailLimit)
  <2>1. ScheduleRetry(gs)
    BY <1>7 DEF NavFailed
  <2>2. nav_fail_cnt' \in 0..FailLimit
    BY <1>7, <2>1, PatrolAssumption DEF ScheduleRetry
  <2>3. goals' = gs /\ UNCHANGED <<state, sub, idx, nav_goal_handle>>
    BY <2>1 DEF ScheduleRetry
  <2>4. CASE state = "RUNNING"
    <3>1. Point \in Targets
      BY <2>4 DEF Targets
    <3>2. retry_timers' = retry_timers \cup {Point}
      BY <2>1, <2>4 DEF ScheduleRetry
    <3> QED BY <1>1, <1>2, <2>2, <2>3, <2>4, <3>1, <3>2 DEF GoalTable
  <2>5. CASE state # "RUNNING"
    <3>1. retry_timers' = retry_timers \cup {Charger}
      BY <2>1, <2>5 DEF ScheduleRetry
    <3> QED BY <1>1, <1>2, <2>2, <2>3, <2>5, <3>1 DEF GoalTable, Targets
  <2> QED BY <2>4, <2>5
<1> QED BY <1>3, <1>4, <1>5, <1>6, <1>7

(* The retry timer, the camera and the rest of the environment.            *)
LEMMA RetryNavKeeps ==
  ASSUME IInv, NEW t \in Targets, RetryNav(t) PROVE IInv'
<1> USE DEF IInv, TypeOK, RunningHasPoint, NavNeverOrphaned, PhotoWaitIsArmed,
        LowBatteryUnreachable, RunningIsBusy, SteadyPhoto, DrivingStates,
        HasPoint, Point
<1>1. /\ UNCHANGED <<state, sub, queue, idx, return_dock, nav_fail_cnt, pending_photo,
                     gimbal, frame, battery, robotAt, halted, cmds>>
      /\ retry_timers' = {}
  BY DEF RetryNav, missionVars, cameraVars, operatorVars
<1>2. CASE state \in DrivingStates
  <2>1. NavTo(goals, t)
    BY <1>2 DEF RetryNav
  <2>2. goals \in GoalTable
    BY DEF GoalTable
  <2> QED BY <1>1, <2>1, <2>2, NavToSends DEF GoalTable
<1>3. CASE state \notin DrivingStates
  <2>1. UNCHANGED <<goals, nav_goal_handle>>
    BY <1>3 DEF RetryNav
  <2> QED BY <1>1, <1>3, <2>1
<1> QED BY <1>2, <1>3

LEMMA ImgCbKeeps == ASSUME IInv, ImgCb PROVE IInv'
<1> USE DEF IInv, TypeOK, RunningHasPoint, NavNeverOrphaned, PhotoWaitIsArmed,
        LowBatteryUnreachable, RunningIsBusy, SteadyPhoto, DrivingStates,
        HasPoint, Point
<1>1. /\ UNCHANGED <<nav_fail_cnt, retry_timers, gimbal, battery, robotAt, halted, cmds>>
      /\ frame' = None
  BY DEF ImgCb, operatorVars
<1>2. CASE pending_photo = None \/ ~frame.fresh
  <2>1. UNCHANGED <<pending_photo, state, sub, queue, idx, return_dock, goals,
                    nav_goal_handle>>
    BY <1>2 DEF ImgCb, missionVars
  <2> QED BY <1>1, <2>1
<1>3. CASE ~(pending_photo = None \/ ~frame.fresh)
  <2>1. pending_photo' = None /\ NextPoint(goals) /\ UNCHANGED <<queue, return_dock>>
    BY <1>3 DEF ImgCb
  <2>2. goals \in GoalTable
    BY DEF GoalTable
  <2> QED BY <1>1, <2>1, <2>2, NextPointKeeps DEF GoalTable
<1> QED BY <1>2, <1>3

LEMMA EnvironmentKeeps == IInv /\ Environment => IInv'
<1> SUFFICES ASSUME IInv, Environment PROVE IInv'
  OBVIOUS
<1> USE DEF IInv, TypeOK, RunningHasPoint, NavNeverOrphaned, PhotoWaitIsArmed,
        LowBatteryUnreachable, RunningIsBusy, SteadyPhoto, DrivingStates,
        HasPoint, Point, missionVars, navVars, cameraVars, operatorVars
<1> DEFINE SameGoals == /\ goals' \in GoalTable
                       /\ \A h \in GoalIds : goals[h] # None => goals'[h] # None
<1>1. ASSUME NEW x \in Goal,
             NEW s \in {"sent", "active", "rejected"} \cup Outcomes
      PROVE  [x EXCEPT !.server = s] \in Goal
  BY <1>1 DEF Goal
<1>2. ASSUME NEW g \in GoalIds, NavAccept(g) PROVE IInv'
  <2>1. SameGoals
    <3>1. \A h \in GoalIds :
            goals'[h] \in {goals[h], [goals[h] EXCEPT !.server = "active"],
                          [goals[h] EXCEPT !.server = "aborted"]}
      BY <1>2 DEF NavAccept
    <3>2. ASSUME NEW h \in GoalIds PROVE goals[h] = None => goals'[h] = None
      BY <1>2 DEF NavAccept
    <3>3. ASSUME NEW h \in GoalIds, goals[h] # None PROVE goals'[h] \in Goal
      <4>1. goals[h] \in Goal
        BY <3>3
      <4>2. /\ [goals[h] EXCEPT !.server = "active"] \in Goal
            /\ [goals[h] EXCEPT !.server = "aborted"] \in Goal
        BY <4>1, <1>1 DEF Outcomes
      <4> QED BY <3>1, <4>1, <4>2
    <3>4. goals' = [h \in GoalIds |-> goals'[h]]
      BY <1>2 DEF NavAccept
    <3> QED BY <3>2, <3>3, <3>4, NoneAssumption DEF GoalTable
  <2>2. /\ pending_photo' \in {None} \cup [point : Points, steady : BOOLEAN]
        /\ pending_photo # None => /\ pending_photo' # None
                                   /\ pending_photo'.point = pending_photo.point
                                   /\ pending_photo'.steady = FALSE
        /\ pending_photo = None => pending_photo' = None
    <3>1. CASE pending_photo = None
      BY <1>2, <3>1 DEF NavAccept
    <3>2. CASE pending_photo # None
      <4>1. pending_photo \in [point : Points, steady : BOOLEAN]
        BY <3>2
      <4>2. pending_photo' = [pending_photo EXCEPT !.steady = FALSE]
        BY <1>2, <3>2 DEF NavAccept
      <4>3. pending_photo' \in [point : Points, steady : BOOLEAN]
        BY <4>1, <4>2
      <4> QED BY <4>1, <4>2, <4>3, NoneAssumption
    <3> QED BY <3>1, <3>2
  <2>3. /\ robotAt' = "moving" /\ gimbal' = "off"
        /\ UNCHANGED <<missionVars, nav_goal_handle, nav_fail_cnt, retry_timers,
                       frame, operatorVars, battery>>
    BY <1>2 DEF NavAccept
  <2> QED BY <2>1, <2>2, <2>3 DEF GoalTable
<1>3. ASSUME NEW g \in GoalIds, NavReject(g) PROVE IInv'
  <2>1. goals[g] \in Goal
    BY <1>3 DEF NavReject
  <2>2. goals' = [goals EXCEPT ![g] = [goals[g] EXCEPT !.server = "rejected"]]
    BY <1>3 DEF NavReject
  <2>3. SameGoals
    <3>1. [goals[g] EXCEPT !.server = "rejected"] \in Goal
      BY <1>1, <2>1
    <3> QED BY <2>2, <3>1, NoneAssumption DEF GoalTable
  <2> QED BY <1>3, <2>3 DEF NavReject, GoalTable
<1>4. ASSUME NEW g \in GoalIds, NEW outcome \in Outcomes, NavEnd(g, outcome)
      PROVE  IInv'
  <2>1. goals[g] \in Goal
    BY <1>4 DEF NavEnd
  <2>2. goals' = [goals EXCEPT ![g] = [goals[g] EXCEPT !.server = outcome]]
    BY <1>4 DEF NavEnd
  <2>3. SameGoals
    BY <1>1, <2>1, <2>2, NoneAssumption DEF GoalTable
  <2>4. robotAt' \in Targets \cup {"moving"}
    BY <1>4, <2>1 DEF NavEnd, Goal
  <2> QED BY <1>4, <2>3, <2>4 DEF NavEnd, GoalTable
<1>5. CASE GimbalSettles
  BY <1>5 DEF GimbalSettles
<1>6. ASSUME NEW fresh \in BOOLEAN, CaptureFrame(fresh) PROVE IInv'
  <2>1. frame' = [settled |-> gimbal = "settled", fresh |-> fresh]
    BY <1>6 DEF CaptureFrame
  <2>2. frame' \in [settled : BOOLEAN, fresh : BOOLEAN]
    BY <2>1
  <2>3. frame'.settled = (gimbal = "settled")
    BY <2>1
  <2> QED BY <1>6, <2>2, <2>3 DEF CaptureFrame
<1>7. ASSUME NEW b \in BatteryLevels, BatCb(b) PROVE IInv'
  BY <1>7, PatrolAssumption DEF BatCb
<1> QED BY <1>2, <1>3, <1>4, <1>5, <1>6, <1>7 DEF Environment

-----------------------------------------------------------------------------
LEMMA IInvIsInductive == IInv /\ [Next]_vars => IInv'
<1> SUFFICES ASSUME IInv, [Next]_vars PROVE IInv'
  OBVIOUS
<1>1. CASE Operator
  BY <1>1, OperatorKeeps
<1>2. CASE Node
  BY <1>2, TickKeeps, GoalResponseKeeps, NavResultKeeps, RetryNavKeeps, ImgCbKeeps DEF Node
<1>3. CASE Environment
  BY <1>3, EnvironmentKeeps
<1>4. CASE UNCHANGED vars
  BY <1>4 DEF vars, missionVars, navVars, cameraVars, operatorVars, IInv, TypeOK,
     RunningHasPoint, NavNeverOrphaned, PhotoWaitIsArmed, LowBatteryUnreachable,
     RunningIsBusy, SteadyPhoto, HasPoint, Point
<1> QED BY <1>1, <1>2, <1>3, <1>4 DEF Next

LEMMA IInvHolds == Spec => []IInv
  BY InitEstablishes, IInvIsInductive, PTL DEF Spec

(* Every variable of the mission keeps its type.                           *)
THEOREM TypeCorrect == Spec => []TypeOK
<1>1. IInv => TypeOK
  BY DEF IInv
<1> QED BY <1>1, IInvHolds, PTL

(* tick and _nav_result_cb never index past the end of the queue.          *)
THEOREM NoIndexError == Spec => []RunningHasPoint
<1>1. IInv => RunningHasPoint
  BY DEF IInv
<1> QED BY <1>1, IInvHolds, PTL

(* A mission that waits for the robot always has a goal in flight or a     *)
(* retry timer to wake it.                                                 *)
THEOREM NeverOrphaned == Spec => []NavNeverOrphaned
<1>1. IInv => NavNeverOrphaned
  BY DEF IInv
<1> QED BY <1>1, IInvHolds, PTL

(* A mission that waits for a photo waits for the photo of its point.      *)
THEOREM PhotoArmed == Spec => []PhotoWaitIsArmed
<1>1. IInv => PhotoWaitIsArmed
  BY DEF IInv
<1> QED BY <1>1, IInvHolds, PTL

(* The low-battery branch of the state machine is dead code, whatever the  *)
(* battery reads.                                                          *)
THEOREM LowBatteryIsDead == Spec => []LowBatteryUnreachable
<1>1. IInv => LowBatteryUnreachable
  BY DEF IInv
<1> QED BY <1>1, IInvHolds, PTL

(* The time-stamp rule: only img_cb both takes a frame and clears the      *)
(* pending photo, and then the frame is fresh, so SteadyPhoto applies.     *)
THEOREM TimestampRule == Spec => SavedPhotoIsSteady
<1> DEFINE Saved == /\ pending_photo # None /\ pending_photo' = None
                   /\ frame # None /\ frame' = None
                   /\ pending_photo.steady
<1>1. ASSUME IInv, [Next]_vars, Saved
      PROVE  frame.settled
  <2>1. CASE Operator
    BY <1>1, <2>1 DEF Operator, cameraVars, Start, Cancel, ReturnDock, EmergencyStop
  <2>2. ASSUME NEW expired \in BOOLEAN, Tick(expired) PROVE FALSE
    <3>1. sub = "WAIT_GIMBAL" /\ ArmPhoto
      BY <1>1, <2>2 DEF IInv, LowBatteryUnreachable, RunningIsBusy, Tick, TickRunning,
         Aim, GiveUpPhoto
    <3>2. pending_photo' \in [point : Points, steady : BOOLEAN]
      BY <1>1, <2>2, <3>1 DEF IInv, TypeOK, RunningHasPoint, HasPoint, Point, Tick,
         LowBatteryUnreachable, ArmPhoto
    <3> QED BY <1>1, <3>2, NoneAssumption
  <2>3. CASE Node
    <3>1. ImgCb
      BY <1>1, <2>2, <2>3 DEF Node, cameraVars, GoalResponse, NavResult, RetryNav
    <3>2. frame.fresh
      BY <1>1, <3>1 DEF ImgCb
    <3> QED BY <1>1, <3>2 DEF IInv, SteadyPhoto
  <2>4. CASE Environment
    <3>1. CASE \E g \in GoalIds : NavAccept(g)
      BY <1>1, <3>1 DEF NavAccept
    <3>2. CASE \E fresh \in BOOLEAN : CaptureFrame(fresh)
      BY <1>1, <3>2 DEF CaptureFrame
    <3>3. CASE GimbalSettles \/ \E b \in BatteryLevels : BatCb(b)
      BY <1>1, <3>3 DEF GimbalSettles, BatCb, cameraVars
    <3>4. CASE \E g \in GoalIds : NavReject(g) \/ \E o \in Outcomes : NavEnd(g, o)
      BY <1>1, <3>4 DEF NavReject, NavEnd, cameraVars
    <3> QED BY <2>4, <3>1, <3>2, <3>3, <3>4 DEF Environment
  <2>5. CASE UNCHANGED vars
    BY <1>1, <2>5 DEF vars, cameraVars
  <2> QED BY <1>1, <2>1, <2>3, <2>4, <2>5 DEF Next
<1>2. IInv /\ [Next]_vars => [Saved => frame.settled]_vars
  BY <1>1
<1> QED BY <1>2, IInvHolds, PTL DEF Spec, SavedPhotoIsSteady

-----------------------------------------------------------------------------
(***************************************************************************)
(* The map node.                                                           *)
(***************************************************************************)
(* Points of a scan are left over in mapping mode only, and a file that is *)
(* being written is not complete.                                          *)
RestIsMapping == rest # <<>> /\ up => mode = "mapping"
SavingIsOpen ==
  up /\ saving # Absent => archive[saving] \in Archived /\ archive[saving].complete = FALSE

(* Between the two publications the node runs, and what it will send as    *)
(* the navigation map is the loaded map it has sent.                       *)
HalfSentIsLoaded ==
  publishing => /\ up
                /\ map_msg # Absent /\ map_msg.mode = "loaded"
                     => nav_grid = map_msg.occupied

MapInv ==
  /\ MapTypes
  /\ RestIsMapping
  /\ SavingIsOpen
  /\ MappedHasNoVotes
  /\ LoadedMapIsNavMap
  /\ DisplayMatchesNav
  /\ HalfSentIsLoaded

-----------------------------------------------------------------------------
LEMMA MapInitInv == MapInit => MapInv
<1> SUFFICES ASSUME MapInit
             PROVE  MapInv
  OBVIOUS
<1> USE MapAssumption
<1>1. /\ up \in BOOLEAN /\ mode \in {"mapping", "loaded", "unset"}
      /\ voxels \subseteq Cells /\ free_grid \subseteq Cells
      /\ nav_grid = Absent
  BY DEF MapInit
<1>2. /\ pending \in [Cells -> {Absent} \cup Entry]
      /\ last_seen \in [Cells -> {Absent} \cup (0..MaxFrames)]
      /\ hitAt \in [Cells -> {Absent} \cup (0..MaxFrames)]
      /\ free_cnt \in [Cells -> Nat]
  BY DEF MapInit
<1>3. /\ frame_cnt \in 0..MaxFrames /\ rest \in Seq(Cells)
      /\ archive \in [Names -> {Absent} \cup Archived]
      /\ saving = Absent /\ clock \in Names
      /\ map_msg = Absent /\ nav_msg = Absent
      /\ crashes \in 0..MaxCrashes
  BY DEF MapInit, Names
<1>4. /\ publishing \in BOOLEAN /\ ~publishing
      /\ torn \in BOOLEAN
  <2>1. publishing = FALSE /\ torn = FALSE
    BY DEF MapInit
  <2>2. publishing \in BOOLEAN
    BY ONLY <2>1
  <2>3. torn \in BOOLEAN
    BY ONLY <2>1
  <2>4. ~publishing
    BY ONLY <2>1
  <2> QED
    BY <2>2, <2>3, <2>4
<1>5. MapTypes
  BY <1>1, <1>2, <1>3, <1>4 DEF MapTypes
<1>6. RestIsMapping /\ SavingIsOpen /\ MappedHasNoVotes /\ LoadedMapIsNavMap
  BY DEF MapInit, RestIsMapping, SavingIsOpen, MappedHasNoVotes, LoadedMapIsNavMap
<1>7. DisplayMatchesNav /\ HalfSentIsLoaded
  BY <1>3, <1>4 DEF DisplayMatchesNav, HalfSentIsLoaded
<1> QED
  BY <1>5, <1>6, <1>7 DEF MapInv

-----------------------------------------------------------------------------
(* What a file that can be loaded holds.                                   *)
LEMMA LoadableIsArchived ==
  ASSUME MapTypes, NEW n \in Loadable
  PROVE  n \in Names /\ archive[n] \in Archived /\ archive[n].cells \subseteq Cells
<1>1. n \in Names /\ archive[n] # Absent
  BY DEF Loadable, Newest
<1>2. archive[n] \in Archived
  BY <1>1 DEF MapTypes
<1> QED
  BY <1>1, <1>2 DEF Archived

(* The services that choose the mode.                                      *)
LEMMA ModesKeepInv ==
  ASSUME MapInv, StartMapping \/ LoadLatest
  PROVE  MapInv'
<1> USE DEF archiveVars, topicVars, voteVars
<1>1. CASE StartMapping
  <2>1. /\ voxels' = {} /\ free_grid' = {} /\ mode' = "mapping" /\ Idle
        /\ UNCHANGED <<up, nav_grid, pending, last_seen, free_cnt, frame_cnt, hitAt,
                       rest, archive, saving, clock, map_msg, nav_msg, publishing, torn, crashes>>
    BY <1>1 DEF StartMapping, EnterMapping
  <2>2. MapTypes'
    BY <2>1 DEF MapInv, MapTypes
  <2>3. RestIsMapping' /\ SavingIsOpen' /\ MappedHasNoVotes' /\ LoadedMapIsNavMap'
      /\ DisplayMatchesNav' /\ HalfSentIsLoaded'
    BY <2>1 DEF MapInv, Idle, RestIsMapping, SavingIsOpen, MappedHasNoVotes, LoadedMapIsNavMap,
                DisplayMatchesNav, HalfSentIsLoaded, Pending
  <2> QED
    BY <2>2, <2>3 DEF MapInv
<1>2. CASE LoadLatest
  <2> PICK n \in Loadable : LoadFile(n)
    BY <1>2 DEF LoadLatest
  <2>1. /\ voxels' = archive[n].cells /\ nav_grid' = archive[n].cells /\ free_grid' = Cells
        /\ mode' = "loaded" /\ Idle
        /\ UNCHANGED <<up, pending, last_seen, free_cnt, frame_cnt, hitAt,
                       rest, archive, saving, clock, map_msg, nav_msg, publishing, torn, crashes>>
    BY <1>2 DEF LoadLatest, LoadFile
  <2>2. MapTypes'
    BY <2>1, LoadableIsArchived DEF MapInv, MapTypes
  <2>3. RestIsMapping' /\ SavingIsOpen' /\ MappedHasNoVotes' /\ LoadedMapIsNavMap'
      /\ DisplayMatchesNav' /\ HalfSentIsLoaded'
    BY <2>1 DEF MapInv, Idle, RestIsMapping, SavingIsOpen, MappedHasNoVotes, LoadedMapIsNavMap,
                DisplayMatchesNav, HalfSentIsLoaded
  <2> QED
    BY <2>2, <2>3 DEF MapInv
<1> QED
  BY <1>1, <1>2

(* save_cb, from the opening of the file to its end.                       *)
LEMMA SavesKeepInv ==
  ASSUME MapInv, SaveOpen \/ (\E part \in SUBSET Cells : SaveFlush(part)) \/ SaveClose
  PROVE  MapInv'
<1> USE DEF archiveVars, topicVars, voteVars, mapVars
<1>1. /\ UNCHANGED <<up, mode, voxels, free_grid, nav_grid, pending, last_seen, free_cnt,
                     frame_cnt, hitAt, rest, clock, map_msg, nav_msg, publishing, torn, crashes>>
      /\ up
  BY DEF SaveOpen, SaveFlush, SaveClose, Idle
<1>2. /\ archive' \in [Names -> {Absent} \cup Archived]
      /\ saving' \in {Absent} \cup Names
      /\ saving' # Absent => archive'[saving'] \in Archived /\ archive'[saving'].complete = FALSE
  <2>1. CASE SaveOpen
    BY <2>1 DEF SaveOpen, MapInv, MapTypes, Archived
  <2>2. CASE \E part \in SUBSET Cells : SaveFlush(part)
    <3> PICK part \in SUBSET Cells : SaveFlush(part)
      BY <2>2
    <3>1. /\ saving \in Names /\ saving' = saving
          /\ archive[saving] \in Archived /\ archive[saving].complete = FALSE
          /\ archive' = [archive EXCEPT ![saving].cells = part]
          /\ archive \in [Names -> {Absent} \cup Archived]
      BY DEF SaveFlush, MapInv, MapTypes, SavingIsOpen
    <3>2. [archive[saving] EXCEPT !.cells = part] \in Archived
      BY <3>1 DEF Archived
    <3>3. archive'[saving] = [archive[saving] EXCEPT !.cells = part]
      BY <3>1
    <3>4. archive'[saving].complete = FALSE
      BY <3>1, <3>3 DEF Archived
    <3> QED
      BY <3>1, <3>2, <3>3, <3>4
  <2>3. CASE SaveClose
    BY <2>3 DEF SaveClose, MapInv, MapTypes, Archived
  <2> QED
    BY <2>1, <2>2, <2>3
<1>3. MapTypes'
  BY <1>1, <1>2 DEF MapInv, MapTypes
<1>4. SavingIsOpen'
  BY <1>1, <1>2 DEF SavingIsOpen
<1>5. RestIsMapping' /\ MappedHasNoVotes' /\ LoadedMapIsNavMap'
      /\ DisplayMatchesNav' /\ HalfSentIsLoaded'
  BY <1>1 DEF MapInv, RestIsMapping, MappedHasNoVotes, LoadedMapIsNavMap, DisplayMatchesNav, HalfSentIsLoaded, Pending
<1> QED
  BY <1>3, <1>4, <1>5 DEF MapInv

(* cloud_cb up to the end of the carving.                                  *)
LEMMA CarveTypes ==
  ASSUME MapTypes, NEW now \in 0..MaxFrames, NEW pierced, Carve(now, pierced)
  PROVE  /\ voxels' \subseteq voxels
         /\ last_seen' \in [Cells -> {Absent} \cup (0..MaxFrames)]
         /\ free_cnt' \in [Cells -> Nat]
<1>1. voxels' \subseteq voxels
  BY DEF Carve
<1>2. last_seen' \in [Cells -> {Absent} \cup (0..MaxFrames)]
  BY DEF Carve, MapTypes
<1>3. free_cnt' \in [Cells -> Nat]
  BY DEF Carve, MapTypes
<1> QED
  BY <1>1, <1>2, <1>3

(* The start of cloud_cb: what it carves leaves votes and map apart.       *)
LEMMA ScanKeepsInv ==
  ASSUME MapInv, NEW s \in Scans, Scan(s)
  PROVE  MapInv'
<1>1. /\ UNCHANGED <<up, mode, nav_grid, pending, hitAt, archive, saving, clock,
                     map_msg, nav_msg, publishing, torn, crashes>>
      /\ mode = "mapping" /\ saving = Absent
      /\ frame_cnt' = frame_cnt + 1 /\ frame_cnt' \in 0..MaxFrames
      /\ rest' = s.points
      /\ free_grid' = free_grid \cup s.pierced \cup {s.points[i] : i \in DOMAIN s.points}
  BY MapAssumption DEF Scan, Idle, MapInv, MapTypes, archiveVars, topicVars
<1>2. s.points \in Seq(Cells) /\ s.pierced \subseteq Cells
  BY MapAssumption
<1>3. rest' \in Seq(Cells) /\ free_grid' \subseteq Cells
  BY <1>1, <1>2 DEF MapInv, MapTypes
<1>4. /\ voxels' \subseteq voxels
      /\ last_seen' \in [Cells -> {Absent} \cup (0..MaxFrames)]
      /\ free_cnt' \in [Cells -> Nat]
  <2>1. CASE (frame_cnt + 1) % CarveEvery = 0
    <3>1. Carve(frame_cnt + 1, s.pierced)
      BY <2>1 DEF Scan
    <3> QED
      BY <1>1, <3>1, CarveTypes DEF MapInv
  <2>2. CASE (frame_cnt + 1) % CarveEvery # 0
    BY <2>2 DEF Scan, MapInv, MapTypes
  <2> QED
    BY <2>1, <2>2
<1>5. MapTypes'
  <2>1. /\ voxels' \subseteq Cells
        /\ rest' \in Seq(Cells) /\ free_grid' \subseteq Cells
        /\ last_seen' \in [Cells -> {Absent} \cup (0..MaxFrames)]
        /\ free_cnt' \in [Cells -> Nat]
        /\ frame_cnt' \in 0..MaxFrames
    BY <1>1, <1>3, <1>4 DEF MapInv, MapTypes
  <2>2. UNCHANGED <<up, mode, nav_grid, pending, hitAt, archive, saving, clock,
                    map_msg, nav_msg, publishing, torn, crashes>>
    BY <1>1
  <2> QED
    BY <2>1, <2>2 DEF MapInv, MapTypes
<1>6. RestIsMapping' /\ SavingIsOpen' /\ MappedHasNoVotes' /\ LoadedMapIsNavMap'
      /\ DisplayMatchesNav' /\ HalfSentIsLoaded'
  BY <1>1, <1>4 DEF MapInv, RestIsMapping, SavingIsOpen, MappedHasNoVotes, LoadedMapIsNavMap,
                    DisplayMatchesNav, HalfSentIsLoaded, Pending
<1> QED
  BY <1>5, <1>6 DEF MapInv

(* An entry that is kept has fewer votes than elect a cell.                *)
LEMMA VotedIsEntry ==
  ASSUME MapTypes, NEW k \in Cells, ~Elected(k)
  PROVE  Voted(k) \in Entry
<1> USE MapAssumption DEF MapTypes, Entry, MaxVotes
<1>1. CASE pending[k] = Absent \/ frame_cnt > pending[k].last + VoteWindow
  BY <1>1 DEF Voted
<1>2. CASE ~(pending[k] = Absent \/ frame_cnt > pending[k].last + VoteWindow)
  <2>1. pending[k] \in Entry /\ pending[k] # Absent
    BY <1>2
  <2>2. Voted(k) = [votes |-> pending[k].votes + 1, last |-> frame_cnt]
    BY <1>2 DEF Voted
  <2>3. ~(pending[k].votes + 1 >= InsertVotes)
    BY <2>1, <2>2 DEF Elected
  <2> QED
    BY <2>1, <2>2, <2>3
<1> QED
  BY <1>1, <1>2

(* The pool of votes keeps its type, and loses entries only.               *)
LEMMA BoundedTypes ==
  ASSUME NEW p \in [Cells -> {Absent} \cup Entry]
  PROVE  /\ Bounded(p) \in [Cells -> {Absent} \cup Entry]
         /\ Pending(Bounded(p)) \subseteq Pending(p)
  BY DEF Bounded, Pending

(* Writing one entry of the pool.                                          *)
LEMMA OneVote ==
  ASSUME NEW p \in [Cells -> {Absent} \cup Entry], NEW k \in Cells, NEW e \in {Absent} \cup Entry
  PROVE  /\ [p EXCEPT ![k] = e] \in [Cells -> {Absent} \cup Entry]
         /\ Pending([p EXCEPT ![k] = e]) \subseteq Pending(p) \cup {k}
         /\ e = Absent => Pending([p EXCEPT ![k] = e]) = Pending(p) \ {k}
  BY DEF Pending

(* The pool after a point is the one that the point leaves, or what the    *)
(* limit leaves of it.                                                     *)
LEMMA PoolTypes ==
  ASSUME NEW p \in [Cells -> {Absent} \cup Entry], NEW q \in {p, Bounded(p)}
  PROVE  q \in [Cells -> {Absent} \cup Entry] /\ Pending(q) \subseteq Pending(p)
  BY BoundedTypes

(* The same for the pool that a point leaves alone.                        *)
LEMMA PoolHere ==
  ASSUME pending \in [Cells -> {Absent} \cup Entry], pending' \in {pending, Bounded(pending)}
  PROVE  pending' \in [Cells -> {Absent} \cup Entry] /\ Pending(pending') \subseteq Pending(pending)
<1>1. CASE pending' = pending
  BY <1>1
<1>2. CASE pending' = Bounded(pending)
  BY <1>2, BoundedTypes
<1> QED
  BY <1>1, <1>2

(* cloud_cb, point by point.                                               *)
LEMMA PointsKeepInv ==
  ASSUME MapInv, HitKnown \/ StopAtCap \/ Vote
  PROVE  MapInv'
<1> DEFINE k == Head(rest)
<1>1. /\ UNCHANGED <<up, mode, free_grid, nav_grid, frame_cnt, archive, saving, clock,
                     map_msg, nav_msg, publishing, torn, crashes>>
      /\ rest # <<>> /\ up
  BY DEF HitKnown, StopAtCap, Vote, archiveVars, topicVars, mapVars
<1>2. /\ mode = "mapping"
      /\ rest \in Seq(Cells) /\ k \in Cells /\ Tail(rest) \in Seq(Cells) /\ <<>> \in Seq(Cells)
      /\ frame_cnt \in 0..MaxFrames
      /\ voxels \subseteq Cells /\ voxels \cap Pending(pending) = {}
      /\ pending \in [Cells -> {Absent} \cup Entry]
      /\ last_seen \in [Cells -> {Absent} \cup (0..MaxFrames)]
      /\ hitAt \in [Cells -> {Absent} \cup (0..MaxFrames)]
      /\ free_cnt \in [Cells -> Nat]
  BY <1>1 DEF MapInv, MapTypes, RestIsMapping, MappedHasNoVotes
<1>3. /\ rest' \in Seq(Cells)
      /\ pending' \in [Cells -> {Absent} \cup Entry]
      /\ voxels' \subseteq Cells
      /\ voxels' \cap Pending(pending') = {}
      /\ last_seen' \in [Cells -> {Absent} \cup (0..MaxFrames)]
      /\ hitAt' \in [Cells -> {Absent} \cup (0..MaxFrames)]
      /\ free_cnt' \in [Cells -> Nat]
  <2>1. CASE HitKnown
    <3>1. /\ rest' = Tail(rest) /\ pending' \in {pending, Bounded(pending)}
          /\ voxels' = voxels
          /\ last_seen' = [last_seen EXCEPT ![k] = frame_cnt]
          /\ hitAt' = [hitAt EXCEPT ![k] = frame_cnt]
          /\ free_cnt' = [free_cnt EXCEPT ![k] = 0]
      BY <2>1 DEF HitKnown, NextPoints, mapVars
    <3>2. pending' \in [Cells -> {Absent} \cup Entry] /\ Pending(pending') \subseteq Pending(pending)
      BY <1>2, <3>1, PoolHere
    <3> HIDE DEF k
    <3> QED
      BY <1>2, <3>1, <3>2
  <2>2. CASE StopAtCap
    <3>1. /\ rest' = <<>> /\ pending' \in {pending, Bounded(pending)}
          /\ UNCHANGED <<voxels, last_seen, free_cnt>>
          /\ hitAt' = [c \in Cells |-> IF \E i \in DOMAIN rest : rest[i] = c
                                       THEN frame_cnt ELSE hitAt[c]]
      BY <2>2 DEF StopAtCap, NextPoints, mapVars
    <3>2. pending' \in [Cells -> {Absent} \cup Entry] /\ Pending(pending') \subseteq Pending(pending)
      BY <1>2, <3>1, PoolHere
    <3> QED
      BY <1>2, <3>1, <3>2
  <2>3. CASE Vote /\ Elected(k)
    <3> DEFINE p == [pending EXCEPT ![k] = Absent]
    <3>1. /\ rest' = Tail(rest) /\ pending' \in {p, Bounded(p)}
          /\ voxels' = voxels \cup {k}
          /\ last_seen' = [last_seen EXCEPT ![k] = frame_cnt]
          /\ hitAt' = [hitAt EXCEPT ![k] = frame_cnt]
          /\ free_cnt' = [free_cnt EXCEPT ![k] = 0]
      BY <2>3 DEF Vote, NextPoints
    <3> HIDE DEF k
    <3>2. p \in [Cells -> {Absent} \cup Entry] /\ Pending(p) = Pending(pending) \ {k}
      BY <1>2, OneVote
    <3> HIDE DEF p
    <3>3. pending' \in [Cells -> {Absent} \cup Entry] /\ Pending(pending') \subseteq Pending(p)
      BY <3>1, <3>2, PoolTypes
    <3> QED
      BY <1>2, <3>1, <3>2, <3>3
  <2>4. CASE Vote /\ ~Elected(k)
    <3> DEFINE p == [pending EXCEPT ![k] = Voted(k)]
    <3>1. /\ rest' = Tail(rest) /\ pending' \in {p, Bounded(p)}
          /\ k \notin voxels
          /\ UNCHANGED <<voxels, last_seen, free_cnt>>
          /\ hitAt' = [hitAt EXCEPT ![k] = frame_cnt]
      BY <2>4 DEF Vote, NextPoints
    <3>2. Voted(k) \in Entry
      BY <1>2, <2>4, VotedIsEntry DEF MapInv
    <3> HIDE DEF k
    <3>3. p \in [Cells -> {Absent} \cup Entry] /\ Pending(p) \subseteq Pending(pending) \cup {k}
      BY <1>2, <3>2, OneVote
    <3> HIDE DEF p
    <3>4. pending' \in [Cells -> {Absent} \cup Entry] /\ Pending(pending') \subseteq Pending(p)
      BY <3>1, <3>3, PoolTypes
    <3> QED
      BY <1>2, <3>1, <3>3, <3>4
  <2> QED
    BY <2>1, <2>2, <2>3, <2>4
<1>4. MapTypes'
  BY <1>1, <1>3 DEF MapInv, MapTypes
<1>5. RestIsMapping' /\ SavingIsOpen' /\ MappedHasNoVotes' /\ LoadedMapIsNavMap'
      /\ DisplayMatchesNav' /\ HalfSentIsLoaded'
  BY <1>1, <1>2, <1>3 DEF MapInv, RestIsMapping, SavingIsOpen, MappedHasNoVotes, LoadedMapIsNavMap,
                          DisplayMatchesNav, HalfSentIsLoaded
<1> QED
  BY <1>4, <1>5 DEF MapInv

-----------------------------------------------------------------------------
(* publish_maps, the clock, and the end and start of the process.          *)
LEMMA OthersKeepInv ==
  ASSUME MapInv, PublishMap \/ PublishNav \/ Second \/ Kill \/ ScanWithoutMode
  PROVE  MapInv'
<1> USE DEF archiveVars, topicVars, voteVars, mapVars
<1>1. CASE PublishMap \/ PublishNav
  <2>1. UNCHANGED <<up, mode, voxels, free_grid, nav_grid, pending, last_seen, free_cnt,
                    frame_cnt, hitAt, rest, archive, saving, clock, crashes>>
    BY <1>1 DEF PublishMap, PublishNav
  <2>2. CASE PublishMap
    <3>1. /\ up /\ voxels \subseteq Cells /\ free_grid \subseteq Cells
          /\ mode \in {"mapping", "loaded", "unset"}
          /\ map_msg' = [mode |-> mode, occupied |-> voxels,
                         free |-> (IF mode = "mapping" THEN free_grid ELSE Cells) \ voxels]
          /\ publishing' = (nav_grid # Absent) /\ torn' = FALSE /\ nav_msg' = nav_msg
      BY <2>2 DEF PublishMap, Idle, MapInv, MapTypes
    <3>2. map_msg' \in {Absent} \cup [mode : {"mapping", "loaded", "unset"},
                                      occupied : SUBSET Cells, free : SUBSET Cells]
      BY <3>1
    <3>3. MapTypes'
      BY <2>1, <3>1, <3>2 DEF MapInv, MapTypes
    <3>4. mode = "loaded" => nav_grid = voxels /\ nav_grid # Absent
      BY <3>1, MapAssumption DEF MapInv, LoadedMapIsNavMap
    <3>5. DisplayMatchesNav' /\ HalfSentIsLoaded'
      BY <2>1, <3>1, <3>4 DEF DisplayMatchesNav, HalfSentIsLoaded
    <3> QED
      BY <2>1, <3>3, <3>5 DEF MapInv, RestIsMapping, SavingIsOpen, MappedHasNoVotes,
                              LoadedMapIsNavMap, Pending
  <2>3. CASE PublishNav
    <3>1. /\ up /\ publishing /\ publishing' = FALSE /\ nav_msg' = nav_grid
          /\ UNCHANGED <<map_msg, torn>>
      BY <2>3 DEF PublishNav
    <3>2. MapTypes'
      BY <2>1, <3>1 DEF MapInv, MapTypes
    <3>3. DisplayMatchesNav' /\ HalfSentIsLoaded'
      BY <2>1, <3>1 DEF MapInv, DisplayMatchesNav, HalfSentIsLoaded
    <3> QED
      BY <2>1, <3>2, <3>3 DEF MapInv, RestIsMapping, SavingIsOpen, MappedHasNoVotes,
                              LoadedMapIsNavMap, Pending
  <2> QED
    BY <1>1, <2>2, <2>3
<1>2. CASE Second
  <2>1. /\ clock' \in Names
        /\ UNCHANGED <<up, mode, voxels, free_grid, nav_grid, pending, last_seen, free_cnt,
                       frame_cnt, hitAt, rest, archive, saving, map_msg, nav_msg, publishing, torn, crashes>>
    BY <1>2, MapAssumption DEF Second, MapInv, MapTypes, Names
  <2>2. MapTypes'
    BY <2>1 DEF MapInv, MapTypes
  <2> QED
    BY <2>1, <2>2 DEF MapInv, RestIsMapping, SavingIsOpen, MappedHasNoVotes, LoadedMapIsNavMap,
                      DisplayMatchesNav, HalfSentIsLoaded, Pending
<1>3. CASE Kill \/ ScanWithoutMode
  <2>1. /\ up' = FALSE /\ crashes' \in 0..MaxCrashes
        /\ publishing' = FALSE /\ torn' = (torn \/ publishing)
        /\ UNCHANGED <<mode, voxels, free_grid, nav_grid, pending, last_seen, free_cnt,
                       frame_cnt, hitAt, rest, archive, saving, clock, map_msg, nav_msg>>
    <3>1. CASE Kill
      BY <3>1, MapAssumption DEF Kill, MapInv, MapTypes
    <3>2. CASE ScanWithoutMode
      BY <3>2 DEF ScanWithoutMode, Idle, MapInv, MapTypes
    <3> QED
      BY <1>3, <3>1, <3>2
  <2>2. MapTypes'
    BY <2>1 DEF MapInv, MapTypes
  <2> QED
    BY <2>1, <2>2 DEF MapInv, RestIsMapping, SavingIsOpen, MappedHasNoVotes, LoadedMapIsNavMap,
                      DisplayMatchesNav, HalfSentIsLoaded, Pending
<1> QED
  BY <1>1, <1>2, <1>3

(* __init__, with an archive to load or without one.                       *)
LEMMA RestartKeepsInv ==
  ASSUME MapInv, Restart
  PROVE  MapInv'
<1>1. /\ up' = TRUE /\ rest' = <<>> /\ saving' = Absent /\ Boot(StartMode)
      /\ UNCHANGED <<archive, clock, map_msg, nav_msg, publishing, torn, crashes>>
  BY DEF Restart, topicVars
<1>2. /\ pending' \in [Cells -> {Absent} \cup Entry] /\ Pending(pending') = {}
      /\ last_seen' \in [Cells -> {Absent} \cup (0..MaxFrames)]
      /\ hitAt' \in [Cells -> {Absent} \cup (0..MaxFrames)]
      /\ free_cnt' \in [Cells -> Nat] /\ frame_cnt' \in 0..MaxFrames
  BY <1>1, MapAssumption DEF Boot, Pending
<1>3. /\ mode' \in {"mapping", "loaded", "unset"}
      /\ voxels' \subseteq Cells /\ free_grid' \subseteq Cells
      /\ nav_grid' \in {Absent} \cup SUBSET Cells
      /\ mode' = "loaded" => nav_grid' = voxels'
  <2>1. CASE StartMode = "loaded" /\ Loadable # {}
    <3> PICK n \in Loadable : LoadFile(n)
      BY <1>1, <2>1 DEF Boot
    <3>1. archive[n].cells \subseteq Cells
      BY LoadableIsArchived DEF MapInv
    <3> QED
      BY <3>1 DEF LoadFile
  <2>2. CASE ~(StartMode = "loaded" /\ Loadable # {})
    BY <1>1, <2>2 DEF Boot
  <2> QED
    BY <2>1, <2>2
<1>4. MapTypes'
  BY <1>1, <1>2, <1>3 DEF MapInv, MapTypes
<1>5. DisplayMatchesNav' /\ HalfSentIsLoaded'
  BY <1>1 DEF Restart, MapInv, DisplayMatchesNav, HalfSentIsLoaded
<1>6. RestIsMapping' /\ SavingIsOpen' /\ MappedHasNoVotes' /\ LoadedMapIsNavMap'
  BY <1>1, <1>2, <1>3 DEF RestIsMapping, SavingIsOpen, MappedHasNoVotes, LoadedMapIsNavMap
<1> QED
  BY <1>4, <1>5, <1>6 DEF MapInv

(* A step of the environment.                                              *)
LEMMA StutterKeepsMapInv ==
  ASSUME MapInv, UNCHANGED managerVars
  PROVE  MapInv'
<1>1. UNCHANGED <<up, mode, voxels, free_grid, nav_grid, pending, last_seen, free_cnt, frame_cnt,
                  hitAt, rest, archive, saving, clock, map_msg, nav_msg, publishing, torn, crashes>>
  BY DEF managerVars, mapVars, voteVars, archiveVars, topicVars
<1>2. MapTypes'
  BY <1>1 DEF MapInv, MapTypes
<1> QED
  BY <1>1, <1>2 DEF MapInv, RestIsMapping, SavingIsOpen, MappedHasNoVotes, LoadedMapIsNavMap,
                    DisplayMatchesNav, HalfSentIsLoaded, Pending

(* The invariant holds at every moment of every run of the node, kills and *)
(* restarts included.                                                      *)
THEOREM MapInvHolds == MapSpec => []MapInv
<1>1. MapInv /\ [MapNext]_managerVars => MapInv'
  <2> SUFFICES ASSUME MapInv, [MapNext]_managerVars
               PROVE  MapInv'
    OBVIOUS
  <2>1. CASE UNCHANGED managerVars
    BY <2>1, StutterKeepsMapInv
  <2>2. CASE StartMapping \/ LoadLatest
    BY <2>2, ModesKeepInv
  <2>3. CASE SaveOpen \/ (\E part \in SUBSET Cells : SaveFlush(part)) \/ SaveClose
    BY <2>3, SavesKeepInv
  <2>4. CASE \E s \in Scans : Scan(s)
    BY <2>4, ScanKeepsInv
  <2>5. CASE HitKnown \/ StopAtCap \/ Vote
    BY <2>5, PointsKeepInv
  <2>6. CASE PublishMap \/ PublishNav \/ Second \/ Kill \/ ScanWithoutMode
    BY <2>6, OthersKeepInv
  <2>7. CASE Restart
    BY <2>7, RestartKeepsInv
  <2> QED
    BY <2>1, <2>2, <2>3, <2>4, <2>5, <2>6, <2>7 DEF MapNext
<1> QED
  BY MapInitInv, <1>1, PTL DEF MapSpec

(* Every variable has its type: no entry of the pool of votes reaches the  *)
(* threshold that would have elected its cell.                             *)
THEOREM MapTypeCorrect == MapSpec => []MapTypes
<1>1. MapInv => MapTypes
  BY DEF MapInv
<1> QED
  BY MapInvHolds, <1>1, PTL

(* While mapping, no cell of the map has votes left in the pool: cloud_cb  *)
(* drops them when it elects the cell, and a load never leads back to      *)
(* mapping without an empty map.                                           *)
THEOREM MappedHaveNoVotes == MapSpec => []MappedHasNoVotes
<1>1. MapInv => MappedHasNoVotes
  BY DEF MapInv
<1> QED
  BY MapInvHolds, <1>1, PTL

(* In loaded mode the map that is shown is the one navigation was given:   *)
(* the mode gate of cloud_cb keeps every scan away from it, and no scan is *)
(* half done when a load comes.                                            *)
THEOREM LoadedIsNavMap == MapSpec => []LoadedMapIsNavMap
<1>1. MapInv => LoadedMapIsNavMap
  BY DEF MapInv
<1> QED
  BY MapInvHolds, <1>1, PTL

(* The two latched topics agree whenever /map says the map is a loaded     *)
(* one, except between the two publications and, after a kill between      *)
(* them, until the node sends /map again.                                  *)
THEOREM DisplayIsNav == MapSpec => []DisplayMatchesNav
<1>1. MapInv => DisplayMatchesNav
  BY DEF MapInv
<1> QED
  BY MapInvHolds, <1>1, PTL

(* No step but a save that begins in the same second changes an archive    *)
(* once it is complete: a kill leaves it, and so do saves under other      *)
(* names, at whatever point they are broken off.                           *)
THEOREM ArchivesAreDurable == MapSpec => ArchiveDurable
<1>1. ASSUME MapInv, [MapNext]_managerVars, NEW n \in Names, archive[n] # Absent, archive[n].complete
      PROVE  archive'[n] = archive[n] \/ (n = clock /\ saving' = n)
             \/ (saving = n /\ saving' = Absent)
  <2> SUFFICES ASSUME archive'[n] # archive[n]
               PROVE  \/ (n = clock /\ saving' = n)
                      \/ (saving = n /\ saving' = Absent)
    OBVIOUS
  <2> USE DEF archiveVars
  <2>1. archive' # archive
    BY <1>1
  <2>2. archive \in [Names -> {Absent} \cup Archived]
    BY <1>1 DEF MapInv, MapTypes
  <2>3. CASE SaveOpen
    BY <1>1, <2>2, <2>3 DEF SaveOpen
  <2>4. CASE SaveClose
    BY <1>1, <2>2, <2>4 DEF SaveClose
  <2>5. CASE \E part \in SUBSET Cells : SaveFlush(part)
    <3>1. archive'[saving] # archive[saving] => archive[saving].complete = FALSE
      BY <1>1, <2>5 DEF SaveFlush, MapInv, SavingIsOpen
    <3>2. n = saving
      BY <1>1, <2>2, <2>5 DEF SaveFlush
    <3> QED
      BY <1>1, <3>1, <3>2
  <2>6. SaveOpen \/ SaveClose \/ \E part \in SUBSET Cells : SaveFlush(part)
    BY <1>1, <2>1 DEF MapNext, managerVars, StartMapping, LoadLatest, Scan, ScanWithoutMode, HitKnown, StopAtCap,
                Vote, PublishMap, PublishNav, Second, Kill, Restart
  <2> QED
    BY <2>3, <2>4, <2>5, <2>6
<1>2. MapInv /\ [MapNext]_managerVars
        => [\A n \in Names : (archive[n] # Absent /\ archive[n].complete)
              => archive'[n] = archive[n] \/ (n = clock /\ saving' = n)
                 \/ (saving = n /\ saving' = Absent)]_managerVars
  BY <1>1
<1> QED
  BY MapInvHolds, <1>2, PTL DEF MapSpec, ArchiveDurable

-----------------------------------------------------------------------------
(* While mapping, what the node has on record about a cell of its map is   *)
(* the last real hit of it.  Outside of the map it is not: the votes of a  *)
(* cell are not recorded, and a load brings in cells with old records.     *)
HitsOnRecord ==
  mode = "mapping" => \A k \in voxels : last_seen[k] = hitAt[k]

(* A map that its limit can hold is never full for a cell that is not in it.*)
LEMMA NeverFull ==
  ASSUME Cardinality(Cells) <= MaxVoxels, voxels \subseteq Cells,
         NEW k \in Cells, k \notin voxels
  PROVE  Cardinality(voxels) < MaxVoxels
<1>1. /\ IsFiniteSet(Cells) /\ IsFiniteSet(voxels)
      /\ Cardinality(voxels) <= Cardinality(Cells)
      /\ Cardinality(voxels) = Cardinality(Cells) => voxels = Cells
  BY MapAssumption, FS_Subset
<1>2. Cardinality(voxels) \in Nat /\ Cardinality(Cells) \in Nat
  BY <1>1, FS_CardinalityType
<1> QED
  BY <1>1, <1>2, MapAssumption

(* A point of a scan is put on record with its hit, if the cell is or gets *)
(* into the map.                                                           *)
LEMMA PointsOnRecord ==
  ASSUME MapInv, HitsOnRecord, HitKnown \/ Vote
  PROVE  HitsOnRecord'
<1> DEFINE k == Head(rest)
<1>1. /\ mode' = mode /\ frame_cnt' = frame_cnt
      /\ rest # <<>> /\ up
  BY DEF HitKnown, Vote, mapVars
<1>2. /\ mode = "mapping" /\ k \in Cells /\ frame_cnt \in 0..MaxFrames
      /\ voxels \subseteq Cells
      /\ DOMAIN last_seen = Cells /\ DOMAIN hitAt = Cells
  BY <1>1 DEF MapInv, MapTypes, RestIsMapping
<1>3. hitAt' = [hitAt EXCEPT ![k] = frame_cnt]
  BY DEF HitKnown, Vote
<1>4. \/ /\ last_seen' = [last_seen EXCEPT ![k] = frame_cnt]
         /\ voxels' \subseteq voxels \cup {k}
      \/ last_seen' = last_seen /\ voxels' = voxels /\ k \notin voxels
  BY DEF HitKnown, Vote, mapVars
<1> HIDE DEF k
<1> SUFFICES ASSUME NEW c \in voxels'
             PROVE  last_seen'[c] = hitAt'[c]
  BY DEF HitsOnRecord
<1>5. CASE c = k
  BY <1>2, <1>3, <1>4, <1>5
<1>6. CASE c # k
  BY <1>2, <1>3, <1>4, <1>6 DEF HitsOnRecord
<1> QED
  BY <1>5, <1>6

(* What a scan starts with: carving leaves the record of what it keeps.    *)
LEMMA CarvingOnRecord ==
  ASSUME MapInv, HitsOnRecord, NEW s \in Scans, Scan(s)
  PROVE  /\ HitsOnRecord'
         /\ \A k \in voxels \ voxels' :
              last_seen[k] # Absent => frame_cnt' > last_seen[k] + VoteWindow
<1>1. /\ mode = "mapping" /\ mode' = mode /\ hitAt' = hitAt
      /\ frame_cnt' = frame_cnt + 1 /\ frame_cnt \in Nat /\ VoteWindow \in Nat
      /\ voxels \subseteq Cells /\ last_seen \in [Cells -> {Absent} \cup (0..MaxFrames)]
  BY MapAssumption DEF Scan, MapInv, MapTypes
<1>2. CASE (frame_cnt + 1) % CarveEvery = 0
  <2> DEFINE counted == {k \in s.pierced : ~SeenWithin(k, frame_cnt + 1, 2)}
             dropped == {k \in counted : /\ free_cnt[k] + 1 >= CarveConfirm
                                         /\ ~SeenWithin(k, frame_cnt + 1, VoteWindow)}
  <2>1. /\ voxels' = voxels \ dropped
        /\ last_seen' = [k \in Cells |-> IF k \in dropped THEN Absent ELSE last_seen[k]]
    BY <1>2 DEF Scan, Carve
  <2>2. \A k \in dropped : last_seen[k] = Absent \/ ~(frame_cnt + 1 <= last_seen[k] + VoteWindow)
    BY DEF SeenWithin
  <2> HIDE DEF dropped
  <2>3. HitsOnRecord'
    BY <1>1, <2>1 DEF HitsOnRecord
  <2>4. ASSUME NEW k \in voxels, k \notin voxels', last_seen[k] # Absent
        PROVE  frame_cnt' > last_seen[k] + VoteWindow
    <3>1. last_seen[k] \in Nat
      BY <1>1, <2>4, MapAssumption
    <3>2. ~(frame_cnt + 1 <= last_seen[k] + VoteWindow)
      BY <2>1, <2>2, <2>4
    <3> QED
      BY <1>1, <3>1, <3>2
  <2> QED
    BY <2>3, <2>4
<1>3. CASE (frame_cnt + 1) % CarveEvery # 0
  BY <1>1, <1>3 DEF Scan, HitsOnRecord
<1> QED
  BY <1>2, <1>3

(* Every step keeps the record, if the map can not be full.                *)
LEMMA StepsOnRecord ==
  ASSUME Cardinality(Cells) <= MaxVoxels, MapInv, HitsOnRecord, [MapNext]_managerVars
  PROVE  HitsOnRecord'
<1> USE DEF mapVars, voteVars, archiveVars, topicVars
<1>1. CASE UNCHANGED managerVars
  BY <1>1 DEF managerVars, HitsOnRecord
<1>2. CASE StartMapping
  BY <1>2 DEF StartMapping, EnterMapping, HitsOnRecord
<1>3. CASE LoadLatest
  BY <1>3 DEF LoadLatest, LoadFile, HitsOnRecord
<1>4. CASE SaveOpen \/ (\E part \in SUBSET Cells : SaveFlush(part)) \/ SaveClose
  BY <1>4 DEF SaveOpen, SaveFlush, SaveClose, HitsOnRecord
<1>5. CASE \E s \in Scans : Scan(s)
  BY <1>5, CarvingOnRecord
<1>6. CASE HitKnown \/ Vote
  BY <1>6, PointsOnRecord
<1>7. CASE StopAtCap
  <2>1. /\ rest \in Seq(Cells) /\ rest # <<>> /\ voxels \subseteq Cells
        /\ Head(rest) \notin voxels /\ Cardinality(voxels) >= MaxVoxels
    BY <1>7 DEF StopAtCap, MapInv, MapTypes
  <2>2. Head(rest) \in Cells
    BY <2>1
  <2>3. Cardinality(voxels) < MaxVoxels
    BY <2>1, <2>2, NeverFull
  <2>4. Cardinality(voxels) \in Nat
    BY <2>1, MapAssumption, FS_Subset, FS_CardinalityType
  <2> QED
    BY <2>1, <2>3, <2>4, MapAssumption
<1>8. CASE PublishMap \/ PublishNav \/ Second \/ Kill \/ ScanWithoutMode
  BY <1>8 DEF PublishMap, PublishNav, Second, Kill, ScanWithoutMode, HitsOnRecord
<1>9. CASE Restart
  BY <1>9 DEF Restart, Boot, LoadFile, HitsOnRecord
<1> QED
  BY <1>1, <1>2, <1>3, <1>4, <1>5, <1>6, <1>7, <1>8, <1>9 DEF MapNext

(* Carving removes no cell that a point really hit within the vote window, *)
(* however scans, loads, saves and restarts follow each other, in a map    *)
(* that can hold every cell.  In one that is full the points after the     *)
(* first new one are not put on record, and the evidence gets lost.        *)
THEOREM EvidenceIsProtected ==
  ASSUME Cardinality(Cells) <= MaxVoxels
  PROVE  MapSpec => EvidenceProtected
<1>1. MapInit => HitsOnRecord
  BY DEF MapInit, HitsOnRecord
<1>2. MapInv /\ HitsOnRecord /\ [MapNext]_managerVars => HitsOnRecord'
  BY StepsOnRecord
<1>3. ASSUME MapInv, HitsOnRecord, [MapNext]_managerVars, NEW k \in voxels \ voxels',
             frame_cnt' = frame_cnt + 1
      PROVE  hitAt[k] = Absent \/ frame_cnt' > hitAt[k] + VoteWindow
  <2>1. frame_cnt \in Nat
    BY <1>3, MapAssumption DEF MapInv, MapTypes
  <2>2. frame_cnt' # frame_cnt
    BY <1>3, <2>1
  <2>3. (\E s \in Scans : Scan(s)) \/ Restart
    BY <1>3, <2>2 DEF MapNext, managerVars, mapVars, voteVars, archiveVars, topicVars, StartMapping,
         EnterMapping, LoadLatest, SaveOpen, SaveFlush, SaveClose, ScanWithoutMode, HitKnown,
         StopAtCap, Vote, PublishMap, PublishNav, Second, Kill
  <2>4. ~Restart
    BY <1>3, <2>1 DEF Restart, Boot
  <2> PICK s \in Scans : Scan(s)
    BY <2>3, <2>4
  <2>5. mode = "mapping"
    BY DEF Scan
  <2>6. last_seen[k] = hitAt[k]
    BY <1>3, <2>5 DEF HitsOnRecord
  <2> QED
    BY <1>3, <2>6, CarvingOnRecord
<1>4. MapInv /\ HitsOnRecord /\ [MapNext]_managerVars
        => [\A k \in voxels \ voxels' :
              frame_cnt' = frame_cnt + 1
                => hitAt[k] = Absent \/ frame_cnt' > hitAt[k] + VoteWindow]_managerVars
  BY <1>3
<1> QED
  BY MapInvHolds, <1>1, <1>2, <1>4, PTL DEF MapSpec, EvidenceProtected
=============================================================================
