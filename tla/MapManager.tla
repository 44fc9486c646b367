----------------------------- MODULE MapManager -----------------------------
(***************************************************************************)
(* robot_sim/map_manager.py: one node that builds the map from the lidar,  *)
(* saves it, loads the newest archive and publishes /map and /nav_map.     *)
(*                                                                         *)
(* A cell stands for a 3D voxel and for the 2D grid cell under it, inside  *)
(* the height band.  A scan is the sequence of cells its points fall in    *)
(* and the cells its rays pierce on the way.  Callbacks are atomic on the  *)
(* single-threaded executor; cloud_cb, save_cb and publish_maps are split  *)
(* into steps during which no other callback runs, because the process can *)
(* be killed inside them.  What the node keeps is lost then, the archive is not.     *)
(***************************************************************************)
EXTENDS Naturals, Sequences, FiniteSets

CONSTANTS
  Cells,
  Scans,        \* what the lidar may deliver: [points, pierced]
  InsertVotes,  \* insert_votes
  VoteWindow,   \* vote_window, in frames
  CarveEvery,   \* carve_every, in frames
  CarveConfirm, \* carve_confirm
  MaxVoxels,    \* max_voxels
  PendingLimit, \* 200000 in the code
  StartMode,    \* start_mode
  MaxFrames,    \* bound: frames processed
  MaxClock,     \* bound: seconds of the clock that names the archives
  MaxCrashes,   \* bound: kills of the process
  Absent

ASSUME MapAssumption ==
  /\ IsFiniteSet(Cells)
  /\ Scans \subseteq [points : Seq(Cells) \ {<<>>}, pierced : SUBSET Cells]
  /\ InsertVotes \in Nat \ {0} /\ CarveEvery \in Nat \ {0}
  /\ CarveConfirm \in Nat \ {0} /\ VoteWindow \in 1..9999
  /\ MaxVoxels \in Nat /\ PendingLimit \in Nat
  /\ StartMode \in {"mapping", "loaded"}
  /\ MaxFrames \in Nat /\ MaxClock \in Nat \ {0} /\ MaxCrashes \in Nat
  /\ \A cells \in SUBSET Cells : Absent # cells

VARIABLES
  up,        \* is the process running?
  mode,      \* "mapping", "loaded", or "unset" when the attribute is missing
  voxels,    \* the map
  pending,   \* votes of the cells that are not in the map yet
  last_seen, \* frame of the last hit the node has recorded
  free_cnt,  \* carve rounds that pierced the cell
  frame_cnt,
  free_grid, \* the cells a ray has crossed
  nav_grid,  \* the navigation map made by the last load, or Absent
  rest,      \* the points of the current scan still to be processed
  archive,   \* the files, by the second in their name
  saving,    \* the file being written, or Absent
  clock,     \* the wall clock, in seconds
  map_msg,   \* the last /map that subscribers hold (latched), or Absent
  nav_msg,   \* the last /nav_map that subscribers hold, or Absent
  publishing, \* /map is out, /nav_map is still to be sent
  torn,      \* history: a kill came between the two, and no /map since
  hitAt,     \* history: frame of the last real hit of each cell
  crashes    \* bound: kills so far

voteVars    == <<pending, last_seen, free_cnt, frame_cnt, hitAt>>
mapVars     == <<mode, voxels, free_grid, nav_grid>>
archiveVars == <<archive, saving, clock>>
topicVars   == <<map_msg, nav_msg, publishing, torn>>
managerVars == <<up, mapVars, voteVars, rest, archiveVars, topicVars, crashes>>

-----------------------------------------------------------------------------
Names == 1..MaxClock

(* The votes an entry can hold: one vote short of what inserts the cell.   *)
MaxVotes == IF InsertVotes = 1 THEN 1 ELSE InsertVotes - 1

Entry == [votes : 1..MaxVotes, last : 0..MaxFrames]

Idle == up /\ rest = <<>> /\ saving = Absent /\ ~publishing

(* A hit within the last w frames is on record (never hit counts as -9999).*)
SeenWithin(k, now, w) == last_seen[k] # Absent /\ now <= last_seen[k] + w

Pending(p) == {k \in Cells : p[k] # Absent}

-----------------------------------------------------------------------------
(* Modes and services.                                                     *)

(* _enter_mapping clears the map and the free layer, nothing else.         *)
EnterMapping ==
  /\ voxels' = {}
  /\ free_grid' = {}
  /\ mode' = "mapping"
  /\ UNCHANGED <<nav_grid, voteVars>>

StartMapping ==
  /\ Idle
  /\ EnterMapping
  /\ UNCHANGED <<up, rest, archiveVars, topicVars, crashes>>

(* The file _load picks: the last name in sorted order.                    *)
Newest == {n \in Names : /\ archive[n] # Absent
                         /\ \A m \in Names : archive[m] # Absent => m <= n}

(* _load: an archive without a single point is refused.                    *)
Loadable == {n \in Newest : archive[n].cells # {}}

LoadFile(n) ==
  /\ voxels' = archive[n].cells
  /\ free_grid' = Cells
  /\ nav_grid' = archive[n].cells
  /\ mode' = "loaded"

LoadLatest ==
  /\ Idle
  /\ \E n \in Loadable : LoadFile(n)
  /\ UNCHANGED <<up, voteVars, rest, archiveVars, topicVars, crashes>>

(* Mutant of SaveOpen: every save goes to the same name.                   *)
SaveOpenFixedName ==
  /\ Idle
  /\ voxels # {}
  /\ archive' = [archive EXCEPT ![1] = [cells |-> {}, complete |-> FALSE]]
  /\ saving' = 1
  /\ UNCHANGED <<up, mapVars, voteVars, rest, clock, topicVars, crashes>>

(* save_cb opens the file, which empties one of the same second, ...       *)
SaveOpen ==
  /\ Idle
  /\ voxels # {}
  /\ archive' = [archive EXCEPT ![clock] = [cells |-> {}, complete |-> FALSE]]
  /\ saving' = clock
  /\ UNCHANGED <<up, mapVars, voteVars, rest, clock, topicVars, crashes>>

(* ... and writes the points through a buffer: part of them may reach the  *)
(* disk before the file is closed.                                         *)
SaveFlush(part) ==
  /\ up /\ saving # Absent
  /\ part \subseteq voxels /\ archive[saving].cells \subseteq part
  /\ part # archive[saving].cells
  /\ part # voxels
  /\ archive' = [archive EXCEPT ![saving].cells = part]
  /\ UNCHANGED <<up, mapVars, voteVars, rest, saving, clock, topicVars, crashes>>

SaveClose ==
  /\ up /\ saving # Absent
  /\ archive' = [archive EXCEPT ![saving] = [cells |-> voxels, complete |-> TRUE]]
  /\ saving' = Absent
  /\ UNCHANGED <<up, mapVars, voteVars, rest, clock, topicVars, crashes>>

-----------------------------------------------------------------------------
(* cloud_cb.                                                               *)

(* The dynamic clearing of one frame: a pierced cell that was not hit in   *)
(* the last two frames is counted, and dropped once it has been counted    *)
(* often enough and not been hit for the vote window.                      *)
Carve(now, pierced) ==
  LET counted == {k \in pierced : ~SeenWithin(k, now, 2)}
      dropped == {k \in counted : /\ free_cnt[k] + 1 >= CarveConfirm
                                  /\ ~SeenWithin(k, now, VoteWindow)}
  IN /\ voxels' = voxels \ dropped
     /\ last_seen' = [k \in Cells |-> IF k \in dropped THEN Absent ELSE last_seen[k]]
     /\ free_cnt' = [k \in Cells |-> IF k \in dropped THEN 0
                                     ELSE IF k \in counted THEN free_cnt[k] + 1
                                     ELSE free_cnt[k]]

(* Mutant of Scan: scans are used in every mode.                           *)
ScanAnyMode(s) ==
  /\ Idle
  /\ frame_cnt < MaxFrames
  /\ frame_cnt' = frame_cnt + 1
  /\ IF (frame_cnt + 1) % CarveEvery = 0
     THEN Carve(frame_cnt + 1, s.pierced)
     ELSE UNCHANGED <<voxels, last_seen, free_cnt>>
  /\ rest' = s.points
  /\ free_grid' = free_grid \cup s.pierced \cup {s.points[i] : i \in DOMAIN s.points}
  /\ UNCHANGED <<up, mode, nav_grid, pending, hitAt, archiveVars, topicVars, crashes>>

(* A scan arrives in mapping mode and its transform is known.  The free    *)
(* layer, which the code updates after the points, only grows.             *)
Scan(s) ==
  /\ Idle /\ mode = "mapping"
  /\ frame_cnt < MaxFrames
  /\ frame_cnt' = frame_cnt + 1
  /\ IF (frame_cnt + 1) % CarveEvery = 0
     THEN Carve(frame_cnt + 1, s.pierced)
     ELSE UNCHANGED <<voxels, last_seen, free_cnt>>
  /\ rest' = s.points
  /\ free_grid' = free_grid \cup s.pierced \cup {s.points[i] : i \in DOMAIN s.points}
  /\ UNCHANGED <<up, mode, nav_grid, pending, hitAt, archiveVars, topicVars, crashes>>

(* A scan that arrives before any mode was set: self.mode does not exist,  *)
(* the exception ends the process.                                         *)
ScanWithoutMode ==
  /\ Idle /\ mode = "unset"
  /\ up' = FALSE
  /\ UNCHANGED <<mapVars, voteVars, rest, archiveVars, topicVars, crashes>>

(* The pool of votes is emptied when it has grown too large.               *)
Bounded(p) ==
  IF Cardinality(Pending(p)) > PendingLimit THEN [k \in Cells |-> Absent] ELSE p

(* One more point is done; after the last one the pool is checked.         *)
NextPoints(left, p) ==
  /\ rest' = left
  /\ pending' = IF left = <<>> THEN Bounded(p) ELSE p

(* Mutant of HitKnown: the evidence is not refreshed.                      *)
HitKnownForgets ==
  /\ up /\ rest # <<>> /\ Head(rest) \in voxels
  /\ free_cnt' = [free_cnt EXCEPT ![Head(rest)] = 0]
  /\ hitAt' = [hitAt EXCEPT ![Head(rest)] = frame_cnt]
  /\ NextPoints(Tail(rest), pending)
  /\ UNCHANGED <<up, mapVars, last_seen, frame_cnt, archiveVars, topicVars, crashes>>

(* The point hits the map: the evidence is refreshed.                      *)
HitKnown ==
  /\ up /\ rest # <<>> /\ Head(rest) \in voxels
  /\ last_seen' = [last_seen EXCEPT ![Head(rest)] = frame_cnt]
  /\ free_cnt' = [free_cnt EXCEPT ![Head(rest)] = 0]
  /\ hitAt' = [hitAt EXCEPT ![Head(rest)] = frame_cnt]
  /\ NextPoints(Tail(rest), pending)
  /\ UNCHANGED <<up, mapVars, frame_cnt, archiveVars, topicVars, crashes>>

(* The map is full: the loop ends here, for the points of known cells that *)
(* are still to come as well.                                              *)
StopAtCap ==
  /\ up /\ rest # <<>> /\ Head(rest) \notin voxels
  /\ Cardinality(voxels) >= MaxVoxels
  /\ NextPoints(<<>>, pending)
  /\ hitAt' = [k \in Cells |-> IF \E i \in DOMAIN rest : rest[i] = k
                               THEN frame_cnt ELSE hitAt[k]]
  /\ UNCHANGED <<up, mapVars, last_seen, free_cnt, frame_cnt, archiveVars,
                 topicVars, crashes>>

(* The entry of a cell after one more vote; votes too far apart start over.*)
Voted(k) ==
  LET e == pending[k] IN
  IF e = Absent \/ frame_cnt > e.last + VoteWindow
  THEN [votes |-> 1, last |-> frame_cnt]
  ELSE [votes |-> e.votes + 1, last |-> frame_cnt]

(* Enough votes: only an entry that existed before is compared.            *)
Elected(k) == pending[k] # Absent /\ Voted(k).votes >= InsertVotes

(* Mutant of Vote: the votes of an elected cell stay in the pool.          *)
VoteKeepsVotes ==
  /\ up /\ rest # <<>> /\ Head(rest) \notin voxels
  /\ Cardinality(voxels) < MaxVoxels
  /\ LET k == Head(rest) IN
     /\ NextPoints(Tail(rest), [pending EXCEPT ![k] = Voted(k)])
     /\ IF Elected(k)
        THEN /\ voxels' = voxels \cup {k}
             /\ last_seen' = [last_seen EXCEPT ![k] = frame_cnt]
             /\ free_cnt' = [free_cnt EXCEPT ![k] = 0]
        ELSE UNCHANGED <<voxels, last_seen, free_cnt>>
     /\ hitAt' = [hitAt EXCEPT ![k] = frame_cnt]
  /\ UNCHANGED <<up, mode, free_grid, nav_grid, frame_cnt, archiveVars,
                 topicVars, crashes>>

(* The point hits a cell that is not in the map: it votes for it.          *)
Vote ==
  /\ up /\ rest # <<>> /\ Head(rest) \notin voxels
  /\ Cardinality(voxels) < MaxVoxels
  /\ LET k == Head(rest) IN
     /\ IF Elected(k)
        THEN /\ voxels' = voxels \cup {k}
             /\ last_seen' = [last_seen EXCEPT ![k] = frame_cnt]
             /\ free_cnt' = [free_cnt EXCEPT ![k] = 0]
             /\ NextPoints(Tail(rest), [pending EXCEPT ![k] = Absent])
        ELSE /\ NextPoints(Tail(rest), [pending EXCEPT ![k] = Voted(k)])
             /\ UNCHANGED <<voxels, last_seen, free_cnt>>
     /\ hitAt' = [hitAt EXCEPT ![k] = frame_cnt]
  /\ UNCHANGED <<up, mode, free_grid, nav_grid, frame_cnt, archiveVars,
                 topicVars, crashes>>

-----------------------------------------------------------------------------
(* publish_maps, once a second: nothing at all while the map is empty, ... *)
PublishMap ==
  /\ Idle
  /\ voxels # {}
  /\ map_msg' = [mode |-> mode, occupied |-> voxels,
                 free |-> (IF mode = "mapping" THEN free_grid ELSE Cells) \ voxels]
  /\ publishing' = (nav_grid # Absent)
  /\ torn' = FALSE
  /\ UNCHANGED <<up, mapVars, voteVars, rest, archiveVars, nav_msg, crashes>>

(* Mutant of PublishNav: the latched navigation map is sent only once.     *)
PublishNavOnce ==
  /\ up /\ publishing
  /\ nav_msg' = IF nav_msg = Absent THEN nav_grid ELSE nav_msg
  /\ publishing' = FALSE
  /\ UNCHANGED <<up, mapVars, voteVars, rest, archiveVars, map_msg, torn, crashes>>

(* ... and then the navigation map, if there is one, in any mode.          *)
PublishNav ==
  /\ up /\ publishing
  /\ nav_msg' = nav_grid
  /\ publishing' = FALSE
  /\ UNCHANGED <<up, mapVars, voteVars, rest, archiveVars, map_msg, torn, crashes>>

Second ==
  /\ clock < MaxClock
  /\ clock' = clock + 1
  /\ UNCHANGED <<up, mapVars, voteVars, rest, archive, saving, topicVars, crashes>>

Kill ==
  /\ up /\ crashes < MaxCrashes
  /\ up' = FALSE
  /\ crashes' = crashes + 1
  /\ publishing' = FALSE
  /\ torn' = (torn \/ publishing)
  /\ UNCHANGED <<mapVars, voteVars, rest, archiveVars, map_msg, nav_msg>>

(* __init__: everything starts empty; a loaded start that finds no usable  *)
(* archive sets no mode.                                                   *)
Boot(starting) ==
  /\ pending' = [k \in Cells |-> Absent]
  /\ last_seen' = [k \in Cells |-> Absent]
  /\ free_cnt' = [k \in Cells |-> 0]
  /\ hitAt' = [k \in Cells |-> Absent]
  /\ frame_cnt' = 0
  /\ IF starting = "loaded" /\ Loadable # {}
     THEN \E n \in Loadable : LoadFile(n)
     ELSE /\ voxels' = {} /\ free_grid' = {} /\ nav_grid' = Absent
          /\ mode' = IF starting = "loaded" THEN "unset" ELSE "mapping"

Restart ==
  /\ ~up
  /\ up' = TRUE
  /\ Boot(StartMode)
  /\ rest' = <<>> /\ saving' = Absent
  /\ UNCHANGED <<archive, clock, topicVars, crashes>>

-----------------------------------------------------------------------------
MapInit ==
  /\ up = TRUE
  /\ mode = IF StartMode = "loaded" THEN "unset" ELSE "mapping"
  /\ voxels = {} /\ free_grid = {} /\ nav_grid = Absent
  /\ pending = [k \in Cells |-> Absent]
  /\ last_seen = [k \in Cells |-> Absent]
  /\ free_cnt = [k \in Cells |-> 0]
  /\ frame_cnt = 0
  /\ hitAt = [k \in Cells |-> Absent]
  /\ rest = <<>>
  /\ archive = [n \in Names |-> Absent]
  /\ saving = Absent
  /\ clock = 1
  /\ map_msg = Absent /\ nav_msg = Absent
  /\ publishing = FALSE /\ torn = FALSE
  /\ crashes = 0

MapNext ==
  \/ StartMapping
  \/ LoadLatest
  \/ SaveOpen
  \/ \E part \in SUBSET Cells : SaveFlush(part)
  \/ SaveClose
  \/ \E s \in Scans : Scan(s)
  \/ ScanWithoutMode
  \/ HitKnown
  \/ StopAtCap
  \/ Vote
  \/ PublishMap
  \/ PublishNav
  \/ Second
  \/ Kill
  \/ Restart

MapSpec == MapInit /\ [][MapNext]_managerVars
=============================================================================
