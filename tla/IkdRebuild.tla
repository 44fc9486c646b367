---------------------------- MODULE IkdRebuild ----------------------------
(* How a large subtree of the k-d tree is rebuilt beside the odometry: the *)
(* rebuild thread copies it, builds it anew, replays the updates it missed *)
(* and puts it in the place of the old one.  A subtree is the set of the   *)
(* points it holds; what a single thread does to a tree is in IkdTree.     *)
EXTENDS Integers, Sequences, FiniteSets

CONSTANTS
  Points, Boxes,   \* points of the subtree, the sets of them a box deletes
  Searchers,       \* the threads of the parallel nearest searches
  MaxUpdates       \* bound on the number of updates

ASSUME RebuildAssumption ==
  /\ Boxes \subseteq SUBSET Points
  /\ IsFiniteSet(Searchers)
  /\ MaxUpdates \in Nat

VARIABLES
  sub,             \* points the map finds in the subtree
  father,          \* what its father has yet to push down to it
  above,           \* what the grandfather has yet to push down to the father
  working,         \* working_flag of the father
  at_root,         \* the subtree is the whole tree
  Rebuild_Ptr,     \* the subtree waits for a rebuild, or is in one
  rebuild_flag,    \* updates are logged
  Rebuild_Logger,  \* the updates to be replayed, oldest first
  new_root_node,   \* the points copied, then the tree built from them
  search_mutex_counter,                 \* searches in the subtree, -1: none may start
  thread,          \* where the rebuild thread is
  main, op,        \* where the odometry is, and what is left of its update
  search,          \* where each search is
  range_lock,      \* the odometry holds search_flag_mutex
  updates,
  ideal,           \* the points the subtree would hold without rebuilds (history)
  mishaps          \* the ways in which an update may have got lost so far (history)

mapVars == <<sub, father, above, ideal, mishaps>>
rebuildVars == <<Rebuild_Ptr, rebuild_flag, Rebuild_Logger, new_root_node>>
mainVars == <<main, op, working, range_lock, updates>>
allVars == <<mapVars, rebuildVars, at_root, search_mutex_counter, thread, mainVars, search>>

(* An update deletes some points and adds some: a point, a box, a box of   *)
(* the downsampling with the one point in it that replaces the others; or  *)
(* it passes by the subtree.                                               *)
Update(del, add) == [del |-> del, add |-> add]
Apply(o, S) == (S \ o.del) \cup o.add

Adds == {Update({}, {p}) : p \in Points}
Deletes == {Update(b, {}) : b \in Boxes}
Downsamples == UNION {{Update(b, {p}) : p \in b} : b \in Boxes}
PassBy == Update({}, {})
PushDown == Update(Points, {})

(* A node whose need_push_down is set tells its sons that they are deleted, *)
(* or, once its tree_deleted was taken back, that they are not: then some   *)
(* of their deleted points come back.                                       *)
Flags == {"none", "deleted", "kept"}
Revive(back) == Update({}, back)

(* working_flag_mutex is held by the rebuild thread between two of its     *)
(* steps in these places; the odometry takes and releases it in one step.  *)
Swapped == {"fathers", "update_father", "grandfather", "update_above", "reopen2"}
WorkingFlagHeld == thread \in {"check", "quiesce", "flatten", "reopen", "close", "swap"} \cup Swapped
SearchMutexFree == ~range_lock

RebuildInit ==
  /\ sub = Points
  /\ father = "none" /\ above = "none"
  /\ working = FALSE
  /\ at_root \in BOOLEAN
  /\ Rebuild_Ptr = FALSE
  /\ rebuild_flag = FALSE
  /\ Rebuild_Logger = <<>>
  /\ new_root_node = {}
  /\ search_mutex_counter = 0
  /\ thread = "top"
  /\ main = "idle"
  /\ op = PassBy
  /\ search = [s \in Searchers |-> "out"]
  /\ range_lock = FALSE
  /\ updates = 0
  /\ ideal = Points
  /\ mishaps = {}

-----------------------------------------------------------------------------
(* The rebuild thread. *)

ThreadTo(from, to) == thread = from /\ thread' = to
Passes(from, to) ==
  /\ ThreadTo(from, to)
  /\ UNCHANGED <<mapVars, rebuildVars, at_root, search_mutex_counter, mainVars, search>>

(* termination_flag: set when the tree is to be destroyed, read before the *)
(* first round and after every round.                                      *)
Terminated == main = "join"
ReadTermination == Passes("top", IF Terminated THEN "ended" ELSE "sleep")

(* Every 100 us: rebuild_ptr_mutex_lock, then working_flag_mutex. *)
Wake == Passes("sleep", "woken")
LockWorkingFlag == Passes("woken", "check")
NothingToDo == Passes("check", "top") /\ ~Rebuild_Ptr
RebuildPtrFree == thread \in {"top", "sleep", "ended"}

Start ==
  /\ ThreadTo("check", "quiesce")
  /\ Rebuild_Ptr
  /\ rebuild_flag' = TRUE
  /\ mishaps' = IF Rebuild_Logger = <<>> THEN mishaps ELSE mishaps \cup {"leftover"}
  /\ UNCHANGED <<sub, father, above, ideal, Rebuild_Ptr, Rebuild_Logger, new_root_node,
                 at_root, search_mutex_counter, mainVars, search>>

(* Mutant: new searches are kept out, those under way are not waited for.  *)
CloseNoWait(from, to) ==
  /\ ThreadTo(from, to)
  /\ SearchMutexFree
  /\ search_mutex_counter' = -1
  /\ UNCHANGED <<mapVars, rebuildVars, at_root, mainVars, search>>

(* Wait until no search is in the subtree and keep new ones out. *)
CloseSearch(from, to) ==
  /\ ThreadTo(from, to)
  /\ SearchMutexFree
  /\ search_mutex_counter = 0
  /\ search_mutex_counter' = -1
  /\ UNCHANGED <<mapVars, rebuildVars, at_root, mainVars, search>>

Flatten ==
  /\ ThreadTo("flatten", "reopen")
  /\ new_root_node' = sub
  /\ UNCHANGED <<mapVars, Rebuild_Ptr, rebuild_flag, Rebuild_Logger,
                 at_root, search_mutex_counter, mainVars, search>>

(* Mutant: the counter is taken down by the one that was added to it.      *)
ReopenByOne ==
  /\ ThreadTo("reopen", "build")
  /\ SearchMutexFree
  /\ search_mutex_counter' = search_mutex_counter - 1
  /\ UNCHANGED <<mapVars, rebuildVars, at_root, mainVars, search>>

(* Let searches in again, release working_flag_mutex. *)
ReopenSearch ==
  /\ ThreadTo("reopen", "build")
  /\ SearchMutexFree
  /\ search_mutex_counter' = 0
  /\ UNCHANGED <<mapVars, rebuildVars, at_root, mainVars, search>>

(* Without points there is no new root, and its counts are read anyway. *)
BuildNew ==
  /\ thread = "build"
  /\ thread' = IF new_root_node = {} THEN "crashed" ELSE "drain"
  /\ UNCHANGED <<mapVars, rebuildVars, at_root, search_mutex_counter, mainVars, search>>

(* Mutant: the rest of the log is dropped once one update was replayed.    *)
ReplayOnce ==
  /\ ThreadTo("drain", "drain")
  /\ Rebuild_Logger # <<>>
  /\ new_root_node' = Apply(Head(Rebuild_Logger), new_root_node)
  /\ Rebuild_Logger' = <<>>
  /\ UNCHANGED <<mapVars, Rebuild_Ptr, rebuild_flag,
                 at_root, search_mutex_counter, mainVars, search>>

(* Each update is taken from the log under the locks and replayed without. *)
Replay ==
  /\ ThreadTo("drain", "drain")
  /\ Rebuild_Logger # <<>>
  /\ new_root_node' = Apply(Head(Rebuild_Logger), new_root_node)
  /\ Rebuild_Logger' = Tail(Rebuild_Logger)
  /\ UNCHANGED <<mapVars, Rebuild_Ptr, rebuild_flag,
                 at_root, search_mutex_counter, mainVars, search>>

(* The log is empty, and working_flag_mutex is kept. *)
Drained == Passes("drain", "close") /\ Rebuild_Logger = <<>>

(* Who holds a pointer to the old root keeps it: inside the subtree, or     *)
(* between its reads of the pointer, which no lock puts together.           *)
SearchOnOld(state) ==
  CASE state \in {"in", "counted"} -> "old"
    [] state = "looking" -> "looking_old"
    [] OTHER -> state
MainOnOld(place) ==
  CASE place = "to_push" -> {"to_push", "to_push_old"}
    [] place = "to_range" -> {"to_range", "to_range_old"}
    [] place = "range" -> {"range_old"}
    [] place = "update" -> {"update_old"}
    [] OTHER -> {place}

Swap ==
  /\ ThreadTo("swap", "fathers")
  /\ sub' = new_root_node
  /\ search' = [s \in Searchers |-> SearchOnOld(search[s])]
  /\ main' \in MainOnOld(main)
  /\ UNCHANGED <<father, above, ideal, mishaps, rebuildVars, at_root, search_mutex_counter,
                 op, working, range_lock, updates>>

(* Then its fathers are brought up to date, one by one to the root, unless *)
(* the odometry works on one of them or a flag is on its way to it.  They  *)
(* are the odometry's: no lock keeps it away between the test and Update,  *)
(* and a working_flag that is down does not mean that nothing waits there. *)
CheckFather ==
  Passes("fathers", IF at_root \/ working \/ above # "none" THEN "reopen2" ELSE "update_father")

(* Of the grandfather's own working_flag and father the model knows nothing. *)
CheckGrandfather == \E to \in {"update_above", "reopen2"} : Passes("grandfather", to)

(* Update: a node is deleted when its sons and its point are.  A flag that  *)
(* waits in it stays, and now says what the sons are.                       *)
Recomputed(flag, allDeleted) ==
  IF flag = "none" THEN {"none"} ELSE IF allDeleted THEN {"deleted", "kept"} ELSE {"kept"}
Revives(flag) == mishaps' = IF flag = "deleted" THEN mishaps \cup {"revived"} ELSE mishaps

UpdateFather ==
  /\ ThreadTo("update_father", "grandfather")
  /\ father' \in Recomputed(father, sub = {})
  /\ Revives(father)
  /\ UNCHANGED <<sub, above, ideal, rebuildVars, at_root, search_mutex_counter, mainVars, search>>

UpdateAbove ==
  /\ ThreadTo("update_above", "reopen2")
  /\ above' \in Recomputed(above, sub = {} \/ father = "deleted")
  /\ Revives(above)
  /\ UNCHANGED <<sub, father, ideal, rebuildVars, at_root, search_mutex_counter, mainVars, search>>

(* Rebuild_Ptr is cleared and working_flag_mutex released; only then ... *)
HandedOver ==
  /\ ThreadTo("reopen2", "unflag")
  /\ SearchMutexFree
  /\ search_mutex_counter' = 0
  /\ Rebuild_Ptr' = FALSE
  /\ new_root_node' = {}
  /\ UNCHANGED <<mapVars, rebuild_flag, Rebuild_Logger, at_root, mainVars, search>>

(* ... is the logging of updates ended. *)
EndLogging ==
  /\ ThreadTo("unflag", "free")
  /\ rebuild_flag' = FALSE
  /\ UNCHANGED <<mapVars, Rebuild_Ptr, Rebuild_Logger, new_root_node,
                 at_root, search_mutex_counter, mainVars, search>>

(* delete_tree_nodes of the old subtree, then rebuild_ptr_mutex_lock is released. *)
Free == Passes("free", "top")

-----------------------------------------------------------------------------
(* The odometry: updates, one at a time. *)

MainUnchanged == UNCHANGED <<at_root, search_mutex_counter, thread, search>>

(* A box that covers the father deletes the subtree by the father's flag,  *)
(* and leaves its working_flag up; one that covers the grandfather is on   *)
(* its way.                                                                *)
CoverFather ==
  /\ main = "idle"
  /\ ~at_root
  /\ above = "none" /\ father = "none"
  /\ updates < MaxUpdates
  /\ updates' = updates + 1
  /\ father' = "deleted"
  /\ working' = TRUE
  /\ ideal' = {}
  /\ UNCHANGED <<sub, above, mishaps, rebuildVars, main, op, range_lock>>
  /\ MainUnchanged

CoverAbove ==
  /\ main = "idle"
  /\ ~at_root
  /\ above = "none"
  /\ updates < MaxUpdates
  /\ updates' = updates + 1
  /\ above' = "deleted"
  /\ ideal' = {}
  /\ UNCHANGED <<sub, father, mishaps, rebuildVars, main, op, working, range_lock>>
  /\ MainUnchanged

(* Push_Down of the grandfather, by an update that goes through it. *)
FlagToFather ==
  /\ father' = above
  /\ above' = "none"
  /\ UNCHANGED <<sub, ideal, mishaps, rebuildVars, at_root, search_mutex_counter, thread, mainVars>>
PushAbove ==
  /\ main = "idle"
  /\ above # "none"
  /\ FlagToFather
  /\ UNCHANGED search

(* One that passes by goes through the father, or ends there.  A           *)
(* downsampling looks for the points of its box first.                     *)
AfterPush(o) ==
  IF o = PassBy THEN {"applied", "idle"} ELSE IF o \in Downsamples THEN {"to_range"} ELSE {"to_sub"}

(* A deletion stops at a father that is deleted; every other update pushes *)
(* the father's flag down first.  All but a range search put up the flag   *)
(* of a node they work on; it stays up where a deletion turns back.        *)
Begin(o) ==
  /\ main = "idle"
  /\ above = "none"
  /\ ~(father = "deleted" /\ o \in Deletes)
  /\ ~(at_root /\ o = PassBy)
  /\ updates < MaxUpdates
  /\ updates' = updates + 1
  /\ main' \in IF father = "none" THEN AfterPush(o) ELSE {"to_push"}
  /\ op' = o
  /\ working' = IF o \in Downsamples THEN working ELSE ~at_root
  /\ UNCHANGED <<mapVars, rebuildVars, range_lock>>
  /\ MainUnchanged

Log(o) == Rebuild_Logger' = IF rebuild_flag THEN Append(Rebuild_Logger, o) ELSE Rebuild_Logger

(* Without a rebuild of the subtree no lock is needed: only the odometry   *)
(* sets Rebuild_Ptr.                                                       *)
NoLock(from) == main = from /\ ~Rebuild_Ptr
AskForLock(from, to) ==
  /\ main = from
  /\ Rebuild_Ptr
  /\ main' = to
  /\ UNCHANGED <<mapVars, rebuildVars, op, working, range_lock, updates>>
  /\ MainUnchanged
Locked(from) == main = from /\ ~WorkingFlagHeld

(* Push_Down of the father.  What it logs it reads before it has the lock. *)
FlagToSub(log) ==
  /\ \/ /\ father = "deleted"
        /\ sub' = {}
        /\ IF log THEN Log(PushDown) ELSE UNCHANGED Rebuild_Logger
     \/ \E back \in SUBSET Points :
          /\ father = "kept"
          /\ sub' = sub \cup back
          /\ IF log THEN Log(PushDown) \/ Log(Revive(back)) ELSE UNCHANGED Rebuild_Logger
  /\ father' = "none"
  /\ UNCHANGED <<above, ideal, Rebuild_Ptr, rebuild_flag, new_root_node>>

Push ==
  /\ \/ NoLock("to_push") /\ FlagToSub(FALSE)
     \/ Locked("lock_push") /\ FlagToSub(TRUE)
  /\ main' \in AfterPush(op)
  /\ UNCHANGED <<mishaps, op, working, range_lock, updates>>
  /\ MainUnchanged

(* It took the old root for a son that is not in a rebuild, and writes to it. *)
PushToOld ==
  /\ main = "to_push_old"
  /\ main' \in AfterPush(op)
  /\ father' = "none"
  /\ mishaps' = mishaps \cup {"strayed"}
  /\ UNCHANGED <<sub, above, ideal, rebuildVars, op, working, range_lock, updates>>
  /\ MainUnchanged

(* Search_by_range of the downsampling: a subtree in a rebuild is searched *)
(* under search_flag_mutex, unless it is the whole tree.                   *)
RangeSearch ==
  /\ \/ NoLock("to_range") /\ main' = "range" /\ UNCHANGED range_lock
     \/ main = "to_range" /\ at_root /\ main' = "range" /\ UNCHANGED range_lock
     \/ main = "to_range_old" /\ main' = "range_stray" /\ UNCHANGED range_lock
     \/ main = "lock_range" /\ main' = "range" /\ range_lock' = TRUE
  /\ UNCHANGED <<mapVars, rebuildVars, op, working, updates>>
  /\ MainUnchanged

RangeDone ==
  /\ main \in {"range", "range_old", "range_stray"}
  /\ main' = "to_sub"
  /\ range_lock' = FALSE
  /\ working' = ~at_root
  /\ UNCHANGED <<mapVars, rebuildVars, op, updates>>
  /\ MainUnchanged

(* A downsampling deletes, then adds; on the whole tree both under one     *)
(* lock, and the two under one test when there was no rebuild.             *)
Part(o) == IF o.del = {} \/ (at_root /\ main = "lock_sub") THEN o ELSE Update(o.del, {})
Rest(o) == IF o.del = {} \/ (at_root /\ main = "lock_sub") THEN PassBy ELSE Update({}, o.add)

(* Just after the swap the test may have met both roots: the update goes   *)
(* to the new one, without the lock.                                       *)
ApplyUpdate ==
  /\ \/ /\ NoLock("to_sub") \/ (main = "to_sub" /\ thread \in Swapped)
        /\ UNCHANGED Rebuild_Logger
     \/ Locked("lock_sub") /\ Log(Part(op))
  /\ sub' = Apply(Part(op), sub)
  /\ ideal' = Apply(Part(op), ideal)
  /\ main' = IF main = "to_sub" THEN "leave" ELSE IF at_root THEN "idle" ELSE "applied"
  /\ op' = Rest(op)
  /\ UNCHANGED <<father, above, mishaps, Rebuild_Ptr, rebuild_flag, new_root_node,
                 working, range_lock, updates>>
  /\ MainUnchanged

(* The whole tree without a rebuild: the deletion may have asked for one,  *)
(* and the point is added as if it had not.                                *)
AddUntested ==
  /\ main = "to_add" /\ at_root
  /\ sub' = Apply(op, sub)
  /\ ideal' = Apply(op, ideal)
  /\ mishaps' = IF thread \in {"flatten", "reopen", "build", "drain", "close", "swap"}
                THEN mishaps \cup {"untested"} ELSE mishaps
  /\ main' = "leave"
  /\ op' = PassBy
  /\ UNCHANGED <<father, above, rebuildVars, working, range_lock, updates>>
  /\ MainUnchanged

(* The subtree is out of balance or full of deleted points, and            *)
(* rebuild_ptr_mutex_lock is free.  A box that covers it all asks for no   *)
(* rebuild; every other update leaves a point.                             *)
Leave ==
  /\ main = "leave"
  /\ main' = IF ~at_root THEN "applied" ELSE IF op = PassBy THEN "idle" ELSE "to_add"
  /\ Rebuild_Ptr' \in {Rebuild_Ptr, Rebuild_Ptr \/ (RebuildPtrFree /\ sub # {})}
  /\ UNCHANGED <<mapVars, rebuild_flag, Rebuild_Logger, new_root_node,
                 op, working, range_lock, updates>>
  /\ MainUnchanged

(* Update of the father, without a lock: it loads the pointer to its son,  *)
(* and reads and writes the son's fields.                                  *)
LoadSon ==
  /\ main = "applied"
  /\ main' = "update"
  /\ UNCHANGED <<mapVars, rebuildVars, op, working, range_lock, updates>>
  /\ MainUnchanged

UpdateDone ==
  /\ main \in {"update", "update_old"}
  /\ main' = IF op = PassBy THEN "idle" ELSE "to_add"
  /\ working' = FALSE
  /\ UNCHANGED <<mapVars, rebuildVars, op, range_lock, updates>>
  /\ MainUnchanged

AddNext ==
  /\ main = "to_add" /\ ~at_root
  /\ main' = "to_sub"
  /\ working' = TRUE
  /\ UNCHANGED <<mapVars, rebuildVars, op, range_lock, updates>>
  /\ MainUnchanged

(* The odometry: the parallel searches of one scan. *)

StartSearches ==
  /\ main = "idle"
  /\ main' = "searching"
  /\ search' = [s \in Searchers |-> "to_father"]
  /\ UNCHANGED <<mapVars, rebuildVars, at_root, search_mutex_counter, thread,
                 op, working, range_lock, updates>>

SearchTo(s, from, to) ==
  /\ search[s] = from
  /\ search' = [search EXCEPT ![s] = to]
  /\ UNCHANGED <<mapVars, rebuildVars, at_root, thread, mainVars>>

(* A search turns back at a node that is deleted, and pushes the flag of   *)
(* another down; then it loads the pointer to the subtree.                 *)
Descend(s) ==
  \/ /\ above = "deleted" \/ (above = "none" /\ father = "deleted")
     /\ SearchTo(s, "to_father", "done")
     /\ UNCHANGED search_mutex_counter
  \/ /\ search[s] = "to_father" /\ above = "kept"
     /\ FlagToFather
     /\ UNCHANGED search
  \/ /\ search[s] = "to_father" /\ above = "none" /\ father = "kept"
     /\ \/ ~Rebuild_Ptr /\ FlagToSub(FALSE)
        \/ Rebuild_Ptr /\ ~WorkingFlagHeld /\ FlagToSub(TRUE)
     /\ UNCHANGED <<mishaps, at_root, search_mutex_counter, thread, mainVars, search>>
  \/ /\ above = "none" /\ father = "none"
     /\ SearchTo(s, "to_father", "looking")
     /\ UNCHANGED search_mutex_counter

(* Below the root it reads the range of the subtree, and may leave it out, *)
(* before it looks at Rebuild_Ptr.  With a pointer from before the swap it *)
(* takes the subtree for one that is in no rebuild, and goes where it      *)
(* points or where the father does now.                                    *)
Look(s) ==
  /\ \/ ~at_root /\ \E from \in {"looking", "looking_old"} : SearchTo(s, from, "done")
     \/ SearchTo(s, "looking", IF Rebuild_Ptr THEN "waiting" ELSE "in")
     \/ Rebuild_Ptr /\ SearchTo(s, "looking_old", "waiting")
     \/ \E to \in {"in", "stray"} : SearchTo(s, "looking_old", to)
  /\ UNCHANGED search_mutex_counter

(* A subtree in a rebuild is entered only when no hand-over is under way.  *)
Enter(s) ==
  /\ SearchTo(s, "waiting", "counted")
  /\ SearchMutexFree
  /\ search_mutex_counter # -1
  /\ search_mutex_counter' = search_mutex_counter + 1

SearchDone(s) ==
  \/ /\ \E from \in {"in", "old", "stray"} : SearchTo(s, from, "done")
     /\ UNCHANGED search_mutex_counter
  \/ /\ SearchTo(s, "counted", "done")
     /\ SearchMutexFree
     /\ search_mutex_counter' = search_mutex_counter - 1

SearchesDone ==
  /\ main = "searching"
  /\ \A s \in Searchers : search[s] = "done"
  /\ main' = "idle"
  /\ search' = [s \in Searchers |-> "out"]
  /\ UNCHANGED <<mapVars, rebuildVars, at_root, search_mutex_counter, thread,
                 op, working, range_lock, updates>>

(* The destructor, at the end of the program: the thread may finish its    *)
(* round before the tree goes.                                             *)
StopThread ==
  /\ main = "idle"
  /\ main' = "join"
  /\ UNCHANGED <<mapVars, rebuildVars, op, working, range_lock, updates>>
  /\ MainUnchanged

Destroy ==
  /\ main = "join" /\ thread = "ended"
  /\ main' = "destroyed"
  /\ sub' = {} /\ ideal' = {} /\ Rebuild_Logger' = <<>>
  /\ UNCHANGED <<father, above, mishaps, Rebuild_Ptr, rebuild_flag, new_root_node,
                 op, working, range_lock, updates>>
  /\ MainUnchanged

-----------------------------------------------------------------------------
RebuildStep ==
  \/ ReadTermination \/ Wake \/ LockWorkingFlag \/ NothingToDo \/ Start
  \/ CloseSearch("quiesce", "flatten") \/ Flatten \/ ReopenSearch
  \/ BuildNew \/ Replay \/ Drained
  \/ CloseSearch("close", "swap") \/ Swap
  \/ CheckFather \/ UpdateFather \/ CheckGrandfather \/ UpdateAbove
  \/ HandedOver \/ EndLogging \/ Free

MainStep ==
  \/ AskForLock("to_push", "lock_push") \/ Push \/ PushToOld
  \/ (~at_root /\ AskForLock("to_range", "lock_range")) \/ RangeSearch \/ RangeDone
  \/ AskForLock("to_sub", "lock_sub") \/ ApplyUpdate \/ AddUntested \/ Leave
  \/ LoadSon \/ UpdateDone \/ AddNext
  \/ SearchesDone \/ Destroy

SearchStep(s) == Descend(s) \/ Look(s) \/ Enter(s)

RebuildNext ==
  \/ RebuildStep
  \/ MainStep
  \/ CoverFather \/ CoverAbove \/ PushAbove
  \/ \E o \in Adds \cup Deletes \cup Downsamples \cup {PassBy} : Begin(o)
  \/ StartSearches \/ StopThread
  \/ \E s \in Searchers : SearchStep(s) \/ SearchDone(s)

(* The threads go on; whoever waits for a lock, or polls the counter of    *)
(* searches, gets its turn between two scans.                              *)
Fairness ==
  /\ WF_allVars(RebuildStep)
  /\ SF_allVars(CloseSearch("quiesce", "flatten"))
  /\ SF_allVars(CloseSearch("close", "swap"))
  /\ SF_allVars(MainStep)
  /\ \A s \in Searchers : SF_allVars(SearchStep(s)) /\ WF_allVars(SearchDone(s))

RebuildSpec == RebuildInit /\ [][RebuildNext]_allVars /\ Fairness
=============================================================================
