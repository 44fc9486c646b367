--------------------------- MODULE RebuildProps ---------------------------
(* What the hand-over of a rebuilt subtree promises, and five things it is  *)
(* written to promise and does not.                                         *)
EXTENDS IkdRebuild

ThreadPlaces ==
  {"top", "sleep", "woken", "check", "quiesce", "flatten", "reopen", "build", "drain",
   "close", "swap", "unflag", "free", "crashed", "ended"} \cup Swapped
MainPlaces ==
  {"idle", "to_push", "lock_push", "to_push_old", "to_range", "lock_range", "to_range_old",
   "range", "range_old", "range_stray", "to_sub", "lock_sub", "to_add", "leave",
   "applied", "update", "update_old", "searching", "join", "destroyed"}
SearchPlaces ==
  {"out", "to_father", "looking", "looking_old", "waiting", "in", "counted", "old", "stray", "done"}

RebuildTypeOK ==
  /\ sub \subseteq Points /\ ideal \subseteq Points
  /\ new_root_node \subseteq Points
  /\ {working, at_root, Rebuild_Ptr, rebuild_flag, range_lock} \subseteq BOOLEAN
  /\ father \in Flags /\ above \in Flags
  /\ mishaps \subseteq {"leftover", "revived", "strayed", "untested"}
  /\ search_mutex_counter \in -1 .. Cardinality(Searchers)
  /\ thread \in ThreadPlaces
  /\ main \in MainPlaces
  /\ search \in [Searchers -> SearchPlaces]
  /\ updates \in 0 .. MaxUpdates

(* The counter counts the searches that have counted themselves in, one by *)
(* one, and is -1 just while the rebuild thread keeps them out, which it   *)
(* does only when none is left in the subtree.                             *)
CounterCounts ==
  LET Counted == {s \in Searchers : search[s] = "counted"}
      Closed == thread \in {"flatten", "reopen", "swap"} \cup Swapped
  IN  IF Closed THEN search_mutex_counter = -1 /\ Counted = {}
                ELSE search_mutex_counter = Cardinality(Counted)

(* Updates that are made while a subtree is copied, built and swapped are  *)
(* all in the subtree that takes its place, in their order, also those     *)
(* that come down from its father: the map is what it would be without     *)
(* rebuilds.  Unless one of four things has happened, each of them a way   *)
(* in which the code does lose updates: a rebuild began with updates left  *)
(* in the log; the Update of the fathers took back a deletion that waited  *)
(* in one of them; a deletion was pushed down to the old root by a test    *)
(* that met both; a point was added to the whole tree without a look at    *)
(* the rebuild that its own downsampling had just asked for.               *)
NoUpdateLost ==
  mishaps = {} => (IF "deleted" \in {above, father} THEN {} ELSE sub) = ideal

(* No search is in the subtree while the rebuild thread pushes flags       *)
(* through it, and none that went in before the swap is left in the old    *)
(* subtree when that is freed; nor is a range search of the odometry that  *)
(* holds search_flag_mutex.  This is about those that are inside: one that *)
(* has only loaded the pointer may be on its way (NothingReadAfterFree).   *)
NoSearchInHandOver ==
  /\ thread = "flatten" => \A s \in Searchers : search[s] \notin {"in", "counted"}
  /\ thread = "free" => /\ \A s \in Searchers : search[s] # "old"
                        /\ at_root \/ main # "range_old"

(* Nobody waits for ever: a subtree that waits for its rebuild gets it,    *)
(* with searches and updates going on, unless the thread dies of an empty  *)
(* copy or is told to end; a search is never kept out for good; and the    *)
(* destructor gets the thread to end, in the middle of a rebuild too.      *)
NobodyStarves ==
  /\ Rebuild_Ptr ~> (~Rebuild_Ptr \/ thread \in {"crashed", "ended"})
  /\ main \in {"searching", "join"}
       ~> (main \in {"idle", "destroyed"} \/ (main = "join" /\ thread = "crashed"))

(* A rebuild starts with an empty log: the code prints ERROR!!! when it    *)
(* does not.  Violated: an update that waited for working_flag_mutex is    *)
(* logged after the log was drained and before rebuild_flag is taken back. *)
LoggerEmptyAtStart == thread = "check" /\ Rebuild_Ptr => Rebuild_Logger = <<>>

(* A deletion that waits in a father to be pushed down is not taken back.  *)
(* Violated: the thread's Update of the fathers, after the swap, computes  *)
(* tree_deleted from sons that were not told yet.                          *)
DeletionsStay == "revived" \notin mishaps

(* Every addition to the whole tree is seen by a rebuild of it.  Violated: *)
(* when the deletion of a downsampling asks for the rebuild, its addition  *)
(* is made without lock and log.                                           *)
AdditionsTested == "untested" \notin mishaps

(* Nothing reads a node that was freed.  Violated: a search reads the range *)
(* of the subtree's root before it counts itself in, the odometry's Update *)
(* of the father and its range search of the whole tree take no lock, and  *)
(* a test that met both roots goes on in the old one.                      *)
NothingReadAfterFree ==
  thread = "free" =>
    /\ \A s \in Searchers : search[s] # "stray" /\ (at_root \/ search[s] # "looking_old")
    /\ main \notin {"range_old", "range_stray", "update_old"}

(* A rebuild of a subtree without points hands over a null root: the code  *)
(* tests new_root_node != nullptr for it.  Violated: the next statement    *)
(* reads the counts of the null root.                                      *)
EmptyHandedOver == thread # "crashed"
===========================================================================
