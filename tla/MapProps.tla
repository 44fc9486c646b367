------------------------------ MODULE MapProps ------------------------------
(***************************************************************************)
(* What MapManager promises about the map, its archive and its topics.     *)
(***************************************************************************)
EXTENDS MapManager

Archived == [cells : SUBSET Cells, complete : BOOLEAN]

(* Every variable has its type: votes stay below the threshold at which    *)
(* they insert a voxel, and frames are counted up to the bound.            *)
MapTypes ==
  /\ up \in BOOLEAN
  /\ mode \in {"mapping", "loaded", "unset"}
  /\ voxels \subseteq Cells /\ free_grid \subseteq Cells
  /\ nav_grid \in {Absent} \cup SUBSET Cells
  /\ pending \in [Cells -> {Absent} \cup Entry]
  /\ last_seen \in [Cells -> {Absent} \cup (0..MaxFrames)]
  /\ hitAt \in [Cells -> {Absent} \cup (0..MaxFrames)]
  /\ free_cnt \in [Cells -> Nat]
  /\ frame_cnt \in 0..MaxFrames
  /\ rest \in Seq(Cells)
  /\ archive \in [Names -> {Absent} \cup Archived]
  /\ saving \in {Absent} \cup Names
  /\ clock \in Names
  /\ map_msg \in {Absent} \cup [mode : {"mapping", "loaded", "unset"},
                              occupied : SUBSET Cells, free : SUBSET Cells]
  /\ nav_msg \in {Absent} \cup SUBSET Cells
  /\ publishing \in BOOLEAN /\ torn \in BOOLEAN
  /\ crashes \in 0..MaxCrashes

(* While mapping, a voxel of the map has no votes left over: once it has   *)
(* been carved away it must be seen insert_votes times again, however the  *)
(* node went through loading, clearing and mapping before.                 *)
MappedHasNoVotes == mode = "mapping" => voxels \cap Pending(pending) = {}

(* Navigation uses what the archive says: in loaded mode the map on        *)
(* display is the navigation map, no scan has touched it (cloud_cb's       *)
(* mode gate, docstring line 11).                                          *)
LoadedMapIsNavMap == (up /\ mode = "loaded") => nav_grid = voxels

(* The operator and Nav2 see the same map: what /map shows as a loaded map *)
(* is what the last /nav_map says, across reloads, restarts and excursions *)
(* into mapping mode.  The two are sent one after the other: between them, *)
(* and after a kill between them, until /map is sent again, they differ.   *)
DisplayMatchesNav ==
  (map_msg # Absent /\ map_msg.mode = "loaded" /\ ~publishing /\ ~torn)
    => nav_msg = map_msg.occupied

(* Evidence protection: carving never removes a voxel that a point really  *)
(* hit within the vote window (map_manager.py:312-318), as long as the map *)
(* is not full.                                                            *)
EvidenceProtected ==
  [][\A k \in voxels \ voxels' :
       frame_cnt' = frame_cnt + 1
         => hitAt[k] = Absent \/ frame_cnt' > hitAt[k] + VoteWindow]_managerVars

(* A completed archive outlives every crash and every later save in        *)
(* another second: only a save in the same second empties it.              *)
ArchiveDurable ==
  [][\A n \in Names : (archive[n] # Absent /\ archive[n].complete)
       => archive'[n] = archive[n] \/ (n = clock /\ saving' = n)
          \/ (saving = n /\ saving' = Absent)]_managerVars

-----------------------------------------------------------------------------
(* The following is what a comment says and the code does not do.          *)

(* map_manager.py:308: a voxel that was really hit within the last two     *)
(* frames is a real surface and is not removed, with a full map too.       *)
RealSurfaceKept ==
  [][\A k \in voxels \ voxels' :
       frame_cnt' = frame_cnt + 1
         => hitAt[k] = Absent \/ frame_cnt' > hitAt[k] + 2]_managerVars
=============================================================================
