----------------------------- MODULE Preprocess -----------------------------
(***************************************************************************)
(* What FAST-LIO does to a point cloud message before anything else sees   *)
(* it (preprocess.cpp): the handler of the configured lidar drops invalid, *)
(* near and surplus points and gives each point its time in the scan, or,  *)
(* with feature extraction, sorts the points into lines whose features are *)
(* then picked (GiveFeature).                                              *)
(*                                                                         *)
(* A point of a message has an id (its index, from 0), a ring, a position  *)
(* (its heading, whether it is within blind of the lidar, and whether it   *)
(* is farther than that but right above or below), a time, and a flag for  *)
(* the tag bits of Livox.  Headings are counterclockwise, Turn of them     *)
(* in a circle, and a time is the angle the lidar turns meanwhile, so the  *)
(* angular velocity omega_l is 1.                                          *)
(***************************************************************************)
EXTENDS GiveFeature, SequencesExt

CONSTANTS N_SCANS,            \* the rings are 0..N_SCANS-1
          Turn,               \* headings of a full circle
          MinAviaLine,        \* 5: shorter Avia lines are left out
          FilterNums,         \* values of point_filter_num
          Messages(_, _)      \* messages of a lidar, with features or not

VARIABLES lidar_type, feature_enabled,
          msg,                \* the message, or None before it came
          pl_buff,            \* the lines, one of each ring
          line                \* the next line whose features are extracted

config_vars == <<point_filter_num, lidar_type, feature_enabled>>
vars == <<feature_vars, config_vars, msg, pl_buff, line>>

LidarTypes == {"AVIA", "VELO16", "OUST64", "MID360", "other"}
Rings == 0..N_SCANS-1

Positions == [yaw : Int, near : BOOLEAN, above : BOOLEAN]
Points == [id : Nat, ring : Nat, tag : BOOLEAN, pos : Positions, time : Int, turned : Int]

(* Whether the points of a message have times is read off the last one.    *)
Given(m) == Last(m).time > 0

(***************************************************************************)
(* A message of a lidar that turns: a ring starts with angle 0, turns on,  *)
(* between two points less than a circle and in all less than two, and the *)
(* headings, which atan2 gives in a range of one circle, go back with it.  *)
(***************************************************************************)
SameRing(m, k) == {j \in 1..k-1 : m[j].ring = m[k].ring}

Rotates(m) ==
    \A k \in DOMAIN m :
        /\ m[k].ring \in Rings
        /\ m[k].turned \in 0..2*Turn-1
        /\ SameRing(m, k) = {} => m[k].turned = 0
        /\ SameRing(m, k) # {} => \E j \in SameRing(m, k) : m[k].turned < m[j].turned + Turn
        /\ \A j \in SameRing(m, k) :
              /\ m[j].turned <= m[k].turned
              /\ m[j].pos.yaw - m[k].pos.yaw \in 1-Turn..Turn-1
              /\ (m[j].pos.yaw - m[k].pos.yaw - (m[k].turned - m[j].turned)) % Turn = 0

ASSUME PreprocessAssumption ==
    /\ N_SCANS \in Nat \ {0} /\ Turn \in Nat \ {0} /\ MinAviaLine \in Nat
    /\ FilterNums \subseteq Nat \ {0}
    /\ \A lidar \in LidarTypes, features \in BOOLEAN : \A m \in Messages(lidar, features) :
          /\ m \in Seq(Points) /\ m # None
          /\ \A k \in DOMAIN m : m[k].id = k - 1
          /\ lidar = "MID360" \/ (lidar = "VELO16" /\ m # <<>> /\ ~Given(m)) => Rotates(m)

Far(p) == ~p.pos.near
Zero == [yaw |-> 0, near |-> TRUE, above |-> FALSE]     \* a point nobody has written
Timed(p, t) == [id |-> p.id, pos |-> p.pos, curvature |-> t]

NoLines == [r \in Rings |-> <<>>]
OnLine(buff, p, t) == [buff EXCEPT ![p.ring] = Append(@, Timed(p, t))]
Out(surf, p, t) == Append(surf, [of |-> {p.id}, times |-> {t}])

(***************************************************************************)
(* Livox (avia_handler).  The first point of the message is never looked   *)
(* at; a point is dropped when it is where the point before it is, and a   *)
(* point that was not copied counts as being at the origin.                *)
(***************************************************************************)
ValidTag(p) == p.ring \in Rings /\ p.tag

CountOf(acc, valid) == IF valid THEN acc.valid_num + 1 ELSE acc.valid_num

AviaPoint(acc, p) ==
    LET valid  == p.id > 0 /\ ValidTag(p)
        count  == CountOf(acc, valid)
        copied == valid /\ (feature_enabled \/ count % point_filter_num = 0)
        isNew  == copied /\ p.pos # acc.prev
    IN [acc EXCEPT
          !.valid_num = count,
          !.prev = IF copied THEN p.pos ELSE Zero,
          !.surf = IF isNew /\ ~feature_enabled /\ Far(p) THEN Out(@, p, p.time) ELSE @,
          !.buff = IF isNew /\ feature_enabled THEN OnLine(@, p, p.time) ELSE @]

(* Ouster (oust64_handler): every point has its time. *)
OusterPoint(acc, p) ==
    [acc EXCEPT
       !.surf = IF ~feature_enabled /\ p.id % point_filter_num = 0 /\ Far(p)
                THEN Out(@, p, p.time) ELSE @,
       !.buff = IF feature_enabled /\ Far(p) /\ p.ring \in Rings
                THEN OnLine(@, p, p.time) ELSE @]

(***************************************************************************)
(* A rotating lidar whose points have no time: it turns clockwise, so the  *)
(* heading of a point against the first of its ring gives the time, and a  *)
(* time that would go back is a turn later.  The first point of each ring  *)
(* only sets the reference and is not kept.                                *)
(***************************************************************************)
NoTimes == [r \in Rings |-> [is_first |-> TRUE, yaw_fp |-> 0, time_last |-> 0]]

FirstOfRing(seen, p) ==
    [seen EXCEPT ![p.ring] = [is_first |-> FALSE, yaw_fp |-> p.pos.yaw, time_last |-> 0]]

SameTurn(yaw_fp, yaw) == IF yaw <= yaw_fp THEN yaw_fp - yaw ELSE yaw_fp - yaw + Turn

(* Mutant: the second turn looks like the first.                           *)
OffsetTimeOneTurn(s, yaw) == SameTurn(s.yaw_fp, yaw)

OffsetTime(s, yaw) ==
    LET t == SameTurn(s.yaw_fp, yaw) IN IF t < s.time_last THEN t + Turn ELSE t

(* Velodyne (velodyne_handler), with times or without. *)
VelodynePoint(acc, p) ==
    LET t == IF acc.given THEN p.time ELSE OffsetTime(acc.seen[p.ring], p.pos.yaw) IN
    IF feature_enabled /\ p.ring \notin Rings THEN acc
    ELSE IF ~acc.given /\ acc.seen[p.ring].is_first
    THEN [acc EXCEPT !.seen = FirstOfRing(@, p)]
    ELSE [acc EXCEPT
            !.seen = IF acc.given THEN @ ELSE [@ EXCEPT ![p.ring].time_last = t],
            !.surf = IF ~feature_enabled /\ p.id % point_filter_num = 0 /\ Far(p)
                     THEN Out(@, p, t) ELSE @,
            !.buff = IF feature_enabled THEN OnLine(@, p, t) ELSE @]

(* Mid-360 as a PointCloud2 (mid360_handler): no times, no filter, and no  *)
(* features whatever the configuration says.                               *)
Mid360Point(acc, p) ==
    LET t == OffsetTime(acc.seen[p.ring], p.pos.yaw) IN
    IF acc.seen[p.ring].is_first
    THEN [acc EXCEPT !.seen = FirstOfRing(@, p)]
    ELSE [acc EXCEPT !.seen = [@ EXCEPT ![p.ring].time_last = t],
                     !.surf = IF Far(p) THEN Out(@, p, t) ELSE @]

(* Any other lidar (default_handler): every far point, at time 0. *)
DefaultPoint(acc, p) == [acc EXCEPT !.surf = IF Far(p) THEN Out(@, p, 0) ELSE @]

(***************************************************************************)
(* The handlers go through the points of the message from first to last.   *)
(***************************************************************************)
HandledPoint(acc, p) == CASE lidar_type = "AVIA" -> AviaPoint(acc, p)
                          [] lidar_type = "VELO16" -> VelodynePoint(acc, p)
                          [] lidar_type = "OUST64" -> OusterPoint(acc, p)
                          [] lidar_type = "MID360" -> Mid360Point(acc, p)
                          [] OTHER -> DefaultPoint(acc, p)

Nothing(m) == [valid_num |-> 0, prev |-> Zero, given |-> m # <<>> /\ Given(m),
               seen |-> NoTimes, surf |-> <<>>, buff |-> NoLines]

Handled(m) ==
    LET acc[k \in 0..Len(m)] == IF k = 0 THEN Nothing(m) ELSE HandledPoint(acc[k - 1], m[k])
    IN acc[Len(m)]

(***************************************************************************)
(* Which lines have their features extracted.  An Ouster line is handed on *)
(* when it is empty, too, and the distances of its points are then         *)
(* computed for as many points as an unsigned integer can count: the node  *)
(* does not survive that.                                                  *)
(***************************************************************************)
LongEnough(points) == CASE lidar_type = "AVIA" -> Len(points) > MinAviaLine
                        [] lidar_type = "VELO16" -> Len(points) >= 2
                        [] OTHER -> TRUE

Init ==
    /\ lidar_type \in LidarTypes /\ feature_enabled \in BOOLEAN
    /\ point_filter_num \in FilterNums
    /\ msg = None /\ pl_buff = NoLines /\ line = 0
    /\ pl = <<>> /\ ftype = <<>> /\ intersect = <<>> /\ pass = "idle" /\ i = 1
    /\ last_state = FALSE /\ last_surface = None
    /\ pl_surf = <<>> /\ pl_corn = <<>>

(* process: the handlers clear all they keep, so one message says it all.  *)
Process(m) ==
    /\ msg' = m
    /\ pl_surf' = Handled(m).surf
    /\ pl_corn' = <<>>
    /\ IF feature_enabled /\ lidar_type \in {"AVIA", "VELO16", "OUST64"}
       THEN pl_buff' = Handled(m).buff /\ pass' = "picked"
       ELSE pass' = "done" /\ UNCHANGED pl_buff
    /\ UNCHANGED <<line_vars, config_vars, line>>

Receive == msg = None /\ \E m \in Messages(lidar_type, feature_enabled) : Process(m)

(* The loop over the rings. *)
ThisLine ==
    /\ pass = "picked" /\ line < N_SCANS
    /\ line' = line + 1
    /\ UNCHANGED <<pl_surf, pl_corn, config_vars, msg, pl_buff>>

SkipLine == ThisLine /\ ~LongEnough(pl_buff[line]) /\ UNCHANGED <<line_vars, pass>>

EmptyLine ==
    /\ ThisLine /\ LongEnough(pl_buff[line]) /\ pl_buff[line] = <<>>
    /\ pass' = "crashed" /\ UNCHANGED line_vars

NextLine ==
    /\ ThisLine /\ LongEnough(pl_buff[line]) /\ pl_buff[line] # <<>>
    /\ StartLine(pl_buff[line])

LastLine ==
    /\ pass = "picked" /\ line = N_SCANS
    /\ pass' = "done"
    /\ UNCHANGED <<line_vars, pl_surf, pl_corn, config_vars, msg, pl_buff, line>>

Extract == Loops /\ UNCHANGED <<lidar_type, feature_enabled, msg, pl_buff, line>>

OneMore == SkipLine \/ EmptyLine \/ NextLine \/ LastLine \/ Extract

Next == Receive \/ OneMore

(* The callback runs to its end once it has been called. *)
Spec == Init /\ [][Next]_vars /\ WF_vars(OneMore)
=============================================================================
