# TLA+ models of the inspection robot (ros2-leida)

This directory holds specifications of the parts of the robot that decide
something: the mission node, the map node, the point cloud path of the lidar
driver, and the odometry from the point cloud message to its map. Each is
translated from the source, is model-checked with TLC on small instances, and,
where that pays, proved with TLAPS for every value of its constants.

    tlc -config patrol.cfg MCPatrol.tla      # check a run
    tlapm RobotProofs.tla                    # check the proofs

Paths below are relative to the repository. `robot_sim/` stands for
`src/robot_sim/robot_sim/`, `livox/` for `src/livox_ros_driver2/src/`, `lio/`
for `src/FAST_LIO_ROS2/src/`. The repository has no unit tests; its
expectations are in `README.md`, `CODEBUDDY.md`, the docstrings, the comments,
the log messages and the labels of the web page.

## The system

Scans and IMU samples come from the Livox driver (or from mock nodes), go
through FAST-LIO to odometry and a registered cloud, through the map manager to
`/map` and `/nav_map`, and Nav2 drives on the latter. The patrol manager sends
goals to Nav2, aims the gimbal, takes photos and returns to the charger. An
operator uses a web page over rosbridge. The Python nodes and FAST-LIO run
their callbacks on one thread each; the driver runs several threads.

| Part | State | Operations | What is hard |
|---|---|---|---|
| Patrol manager `robot_sim/patrol_manager.py` | `state`, `sub`, `queue`, `idx`, `pending_photo`, `nav_fail_cnt`, goal handle, retry timers | `cmd_cb` (start, cancel, return_dock), `tick`, goal response and result, retry, `img_cb`, `bat_cb` | results, frames and timers of earlier goals arrive in the next mission; the page talks to the action server behind the node's back |
| Map manager `robot_sim/map_manager.py` | voxels, votes, evidence, carve counts, free layer, mode, archives, latched topics | `start_mapping_cb`, `load_latest_cb`, `save_cb`, `cloud_cb`, `publish_maps`, restart | tables that must be kept or cleared together, a cap inside a loop, files that are cut short |
| Livox points and IMU samples `livox/lds.cpp`, `lddc.cpp`, `comm/semaphore.*`, `comm/lidar_imu_data_queue.*` | queue and list per lidar, two semaphores, connect state, exit flags | `PushLidarData`, `StorageImuData`, `DistributePointCloudData`, `DistributeImuData`, destructor | a counter is read without its lock between a push and a signal; a blocking wait at shutdown |
| Livox ring `livox/comm/ldq.*` | slots, free-running indices | `InitQueue`, `QueuePushAny`, `QueuePop` | no lock; indices wrap |
| Livox configuration `livox/call_back/*`, `comm/cache_index.*` | `set_bits` of each lidar, `connect_state`, table of indices | `LidarInfoChangeCallback`, callbacks of commands, retry on timeout | answers of four commands in any order, on another thread than the one that sends them; a failure is not retried |
| Livox packet handler `livox/comm/pub_handler.*` | raw packets, points collected, points of the last frame | packet callback, `RawDataProcess`, `CheckTimer` | two kinds of frames that may alternate, vectors that change places |
| FAST-LIO preprocessing `lio/preprocess.*` | lines of points, features, times per ring | `process`, one handler per lidar, `give_feature` | loops that jump back and forth over a line, values that are only set sometimes |
| FAST-LIO synchronisation `lio/laserMapping.cpp` | scan, time and IMU buffers, the scan in hand | `livox_pcl_cbk`, `imu_cbk`, `sync_packages` | three deques and a flag that belong together |
| FAST-LIO undistortion `lio/IMU_Processing.hpp` | initialisation, last sample, end of the last scan, poses, undistorted cloud | `Process`, `IMU_init`, `UndistortPcl` | a cloud that outlives its scan; stretches of time that must neither overlap nor leave a gap |
| FAST-LIO mapping `lio/laserMapping.cpp`, `include/IKFoM_toolkit/esekfom/esekfom.hpp` | cube of the map, tree, state and covariance | `lasermap_fov_segment`, `update_iterated_dyn_share_modified`, `map_incremental` | a cube that cuts the map; an iteration that may be skipped or end early |
| ikd-Tree `src/FAST_LIO_ROS2/include/ikd-Tree` | tree with lazy flags and counts, points removed, operation log, counter of searches | build, insert, downsample, delete, search, rebuild thread | flags that wait in inner nodes; the hand-over of a rebuilt subtree |
| Mock nodes, map loader, web page, scripts, launch files | see *Not modelled* | | |

What makes each correct: a mission never hangs, never indexes past its queue and
saves only photos of a settled gimbal; the map holds only what enough votes put
there, loses no surface that was just hit, and shows what Nav2 uses; a lidar
samples once it is set up and not before, and no point or frame of it is
forgotten, torn or out of order; a point keeps the time it was measured at and
is moved by the motion of that time once; the cloud that is registered is the
one of the scan in hand; the map is a bag of points, whatever tree holds it and
whoever rebuilds it, and loses nothing the lidar can still see.

## Modules

| Module | Contents | Extends / instantiates |
|---|---|---|
| `PatrolManager`, `PatrolProps`, `MCPatrol` | the mission, its properties, its instance | |
| `MapManager`, `MapProps`, `MCMap` | the map node; its `Init`, `Next` and `Spec` are called `MapInit`, `MapNext`, `MapSpec` | |
| `RobotProofs` | the proofs about both nodes | extends `PatrolProps` and `MapProps` |
| `LidarConfig`, `ConfigProps` | how the driver brings a lidar to sampling | |
| `LidarFront`, `FrontProps`, `FrontProofs`, `MCFront` | the packet handler beside it | `LidarFront` extends `LidarConfig`, `FrontProps` extends `ConfigProps` |
| `LidarDistribution`, `DistributionProps`, `DistributionProofs`, `MCDistribution` | driver threads, points or IMU samples | |
| `Channel` | abstract: a bounded FIFO that drops what does not fit | |
| `PacketQueue`, `QueueProps`, `MCQueue` | the ring; `QueueProps` has the refinement mapping, `DistributionProofs` the proofs | `FIFO == INSTANCE Channel` |
| `GiveFeature` | the four loops of the feature extraction | |
| `Preprocess`, `PreprocessProps`, `PreprocessProofs`, `MCPreprocess` | the handlers, from message to points or features | extends `GiveFeature` |
| `LioSync`, `LioProps` | scan and IMU synchronisation | |
| `ImuProcess`, `ImuProps`, `LioProofs`, `MCLio` | undistortion behind it | `ImuProcess` extends `LioSync`, `ImuProps` extends `LioProps` |
| `LaserMapping`, `MappingProps`, `MappingProofs`, `MCMapping` | cube, iterated update, increments | |
| `PointStore` | abstract: a bag of points and what its updates make of it | |
| `IkdTree` | the functions on trees, without state | |
| `IkdMap`, `IkdProps`, `MCIkd` | the public operations, for one thread | `IkdMap` extends `IkdTree`, `IkdProps` has `INSTANCE PointStore` |
| `IkdTreeProofs`, `IkdProofs` | the proofs: the operations and their counts; what is reported, the refinement, the searches | `IkdProofs` extends `IkdTreeProofs` |
| `IkdRebuild`, `RebuildProps`, `MCRebuild` | the rebuild thread against updates and searches; `MappingProofs` has the proofs | |

Operators whose comment says *mutant* are altered forms of the definition that
follows: each property of a passing run is violated when one of them replaces
the definition.

### PatrolManager

One action per callback and timer. `Start`, `Cancel` and `ReturnDock` are the
branches of `cmd_cb`; `Tick(expired)` is `tick`, with `expired` saying whether
the gimbal or photo timeout has passed; `GoalResponse`, `NavResult`, `RetryNav`,
`ImgCb` and `BatCb` are the callbacks of the same name. `GoalResponse` and
`NavResult` belong to a goal identity, but, as in the code, the node does not
look at it. `goals` is what Nav2 and the messages in flight hold; Nav2 runs one
goal at a time and a new one preempts it (`NavAccept`). `EmergencyStop` is the
button of the page: it cancels at the server and sends a zero velocity, and does
not tell the node. `GimbalSettles` and `CaptureFrame` are the gimbal's ramp and
the camera; `frame` is the one image in transit, `fresh` whether its stamp is
0.3 s past the photo's `t_settle`. The battery is one of three levels. Message
texts, file names, angles and the status topic are left out.

### MapManager

A cell stands for a voxel and the grid cell under it. A scan is a sequence of
hit cells and a set of pierced cells. `Scan` is `cloud_cb` up to the end of the
carving; `HitKnown`, `Vote` and `StopAtCap` process its points one by one. This
split exists only so that `Kill` can fall inside; no other callback runs in
between (`Idle`). `SaveOpen`, `SaveFlush`, `SaveClose` are `save_cb`, with what
an interrupted write leaves on disk. `publish_maps` sends `/map` and then
`/nav_map`: `PublishMap` and `PublishNav`, split for `Kill` as well; `publishing`
says that the second is still to come, `torn` that a kill has kept it from coming.
`Restart` with `Boot` is `__init__`.
`hitAt` is history: when a cell was really hit, recorded or not. The denoising
and dilation of `_build_nav_map`, the height band and transforms are left out.

### LidarConfig and LidarFront

`Announce(l)` is `LidarInfoChangeCallback` up to `config_mutex_`: a lidar without
an index gets one and only the work mode; one with an index is sent its
settings, one per `SendSetting`, and `EndSettings` gives the lock back.
`Confirm`, `WorkModeChanged`, `TimeOut` and `Fail` are the callbacks of commands
by status; an answer that succeeds takes the lock, so it waits for the end of the
sending. `set_bits` is a set of settings; `inflight` counts what the SDK still
has to answer (external). The four `Set...Callback`s differ only in their bit.

What the model shows on the way: a lidar that is not in the user's file has a
`livox_config` of zeros, and only -1 means "leave alone", so at its second
announcement it is sent zero for every setting (`Wanted`). `Fail` is the end of a
setting; `connect_state` is never taken back. Two commands, attitude and IMU, are
left out, because their callbacks change no state of the driver.

In `LidarFront`, `Packet` is the packet callback; `CheckQuit`, `TakePacket`,
`ProcessPacket`, `CheckTimer` and `StorePoints` are the process thread from one
access to shared state to the next. `is_timestamp_sync_` is one flag for all lidars, so a
synchronised and an unsynchronised lidar switch the kind of frame back and forth.
The points of a packet are one number, counted per lidar. Whether an interval is
over (`due`) is open. `Swap` is the exchange of `points_` and `points_clouds_`.
`StorePoints` ends in a call of `PushLidarData`, which is `Push` of
`LidarDistribution`, and the step that adds to `sampling` is its `StartSampling`;
the modules are joined by these two actions and not by a module: what follows
`Push` does not come back to the front end.

A packet of a data type that the handler does not know (`pub_handler.cpp:332`) is
taken from the queue, logged and dropped; no lidar of this driver sends one and the
model has none. A packet of the IMU (`ImuPacket`) only looks at the flag of synchronisation and
goes to `StorageImuData`, which is `Push` of the other stream.

### LidarDistribution and PacketQueue

`LidarDistribution` shows one of the two streams of the driver, chosen at the
start (`stream`): points, or samples of the IMU. Their code is the same but for
the queue behind it, a ring that drops or a list that grows (`ImuPush`), and they
share only the lidars' state and the exit flags, which change at any time.
There is one step per access to shared state of
`PushLidarData` (`Push`, `CheckStored`, `ReadCount`, `Signal`) and of the poll
thread (`BeginRound`, `Wait`, `Visit`, `Poll`, `Drain`, `EndRound`). A frame is its
stamp, and the frames of one lidar come with rising stamps; a queue is the sequence
of the stamps in it, and `published` keeps the stamp of the last message of each
topic. Lidars have a topic each or share one (`use_multi_topic_`). Of the formats,
one has no messages in ROS 2: `PublishPclMsg` returns at once and takes nothing out
of the queue, so the poll thread goes round the first queue until the node is asked
to exit. `PacketQueue` is the ring behind it, with a write or a
copy that takes time (the slot is `Torn` in between). Both modules assume sequentially
consistent memory: the indices are `volatile`, not atomic, which is enough on
x86 with compilers that keep the order of volatile accesses; the slots are not
volatile, so this is an assumption about the build and not a result.

### GiveFeature and Preprocess

A message is a few points with ring, heading, nearness, time and tag; a time is
the angle that a rotating lidar turns meanwhile. `AviaPoint`, `OusterPoint`,
`VelodynePoint`, `Mid360Point` and `DefaultPoint` are what the handlers do with one
point, and `Handled` goes through the message; the first step of the model
(`Receive`) is one call of `process`. With features, the loop over the rings skips
short lines (`SkipLine`), ends the node on an empty one of an Ouster (`EmptyLine`) or
hands the line to `GiveFeature` (`NextLine`), whose four loops (`JudgePlane`, `JudgeJump`,
`JudgeSmallPlane`, `PickSurface` and `PickOther`) run point by point. Every
geometric test is a choice, so a line may have any shape. What the code tests of
a point's distance is kept, because the points nearer than `blind` are what the
loops step around. An angle from an unset vector is the value `"garbage"`.
Left out: units of time (`time_unit_scale`), the factor 0.361 per degree of the
rotation, the check of a ring that exceeds `N_SCANS`.

### LioSync and ImuProcess

`PclCbk` stands for `livox_pcl_cbk` and `standard_pcl_cbk`, which treat the
buffers alike; `TimerCallback` is `timer_callback` with `sync_packages` and what
`ImuProcess::Process` leaves behind; `registered` is what a step of the timer
registers and publishes, the odometry with its stamp (`Odometry`) and the cloud
with its stamp (`Frame`). The second timer, which publishes the whole map, is left
out: `map_en` is false in `config/mid360.yaml`.
Stamps rise, until the source starts over (`JumpsBack`): then `PclCbk` clears
`lidar_buffer` and keeps `time_buffer`, and the deques, and the scan in hand with
them, no longer belong together. `MaxLoops` bounds the jumps and `LoopTimes` the
stamps that come after one; both are of the model.
A scan is *timed*, *untimed* (the last point's offset is under half the mean)
or *empty*. Durations of timed scans are equal, so the mean is zero or that
duration; a scan is untimed only after a timed one (`TimesAreKnown`: the driver
gives the times of points from its first scan on), since otherwise the code would
count it into the mean with a duration of zero. `time_sync_en` is false and
`time_diff_lidar_to_imu` zero, as in `config/mid360.yaml`.

`ImuProcess` adds to the same step which stretches of time the filter is
propagated over (`Propagate`), the poses kept at the samples (`IMUpose`), and, as
an operator on any set of points of a scan, the backward loop (`Compensated`):
for each point the intervals it is moved with. `last_lidar_end_time_` starts with
any value of `Garbage`, because no constructor sets it. `filter_time` is history.
What an interval does to the state or to a point is left out.

### LaserMapping

The rest of `timer_callback`: `FirstScan`, `Predict` with
`lasermap_fov_segment`, `BuildTree`, `SkipScan` for a scan of few points, the
iterated update (`StartUpdate`, `Iterate`, `NoPoints`, `Conclude`) and
`map_incremental`. Positions are integer vectors; where the robot is and which
landmarks a scan sees is open, and so is whether a correction is small and
whether any point finds a plane. Vectors of the state, the covariance and the
publishers are left out.

### IkdTree, IkdMap and PointStore

`IkdTree` holds the functions of the tree: a tree is None or a record, and a
function that changes a tree returns the changed one with the points it removed.
The recursions of the code are recursive functions over `Trees`, the trees up to
one of the `Heights`: the code bounds no height, so `Heights` is Nat in the proofs,
and the 8 of the runs is more than any tree of theirs reaches. `Points` are the
points a scan may have. `MapAssumption` says that boxes and voxels have integer
corners and that every point lies in a voxel, as each does in a grid.
`Update`, `Push_Down`, `Rebuild`, `Add_by_point`, `Delete_by_range`,
`Delete_by_point`, `flatten`, `BuildTree` and the searches have the names of the
code. `IkdMap` is what FAST-LIO calls. `PointStore` is the map without a tree: a
bag of points and, for each update, a relation between the bag before and after.
A point that is deleted by its coordinates need not be found: `nth_element` may
put equal coordinates on both sides, and the descent follows one.
`CloseTo`, the equality of points within 1e-6, is equality here. Not modelled:
`Add_Point_Boxes` (which would take deletions back), `Box_Search` and
`tree_range`, which FAST-LIO does not call, `root_alpha`, `max_dist` and floating
point.

### IkdRebuild

A subtree is the set of its points; `main` and `op` say where the odometry is in
an update, `thread` where the rebuild thread is, `search` where each of the
parallel searches is. The subtree is the whole tree (`at_root`) or hangs below a
father and a grandfather, in whose lazy flags (`father`, `above`) a deletion may
wait (`CoverFather`, `CoverAbove`); who comes by pushes it down (`PushAbove`, `Push`,
`Descend`). A flag is "deleted", or "kept": one that still waits after the
deletion it stood for was taken back, and that now brings points back.
Updates go through the subtree and are logged while `rebuild_flag` is set
(`Log`). A downsampling searches its box (`RangeSearch`, `RangeDone`), deletes and
then adds (`Part`, `Rest`, `AddNext`); for a subtree that is the whole tree both fall
under one test (`AddUntested`). When an update has left the subtree, the odometry's
`Update` of the father reads and writes the subtree's root without a lock
(`LoadSon`, `UpdateDone`).

`working_flag_mutex` is taken and given back within one step of the odometry and
held over the places in `WorkingFlagHeld`. `search_mutex_counter` counts the
searches that have counted themselves in, -1 closes the subtree. A search below
the root loads the pointer and reads the range of the subtree first (`Descend`,
`Look`) and counts itself in after that (`Enter`). `Swap` leaves whoever holds the
old pointer with it (`SearchOnOld`, `MainOnOld`); then the thread updates the fathers
(`CheckFather`, `UpdateFather`, `CheckGrandfather`, `UpdateAbove`), reopens the
counter (`HandedOver`), ends the logging (`EndLogging`) and frees the old nodes
(`Free`). Each of these is a step of its own, as the odometry may fall between any
two. The tests `Rebuild_Ptr == nullptr || *Rebuild_Ptr != ...` are two reads
without a lock. The build is a Release build with -O3 (`CMakeLists.txt:4-10`), which
loads `Rebuild_Ptr` once; what the second read can still meet is the old or
the new root, and those outcomes are the places `..._old` and `stray`.

An `ideal` subtree gets the same updates without rebuilds. `mishaps` keeps which
of four ways the code has gone in which it loses updates, see *Observed*:
`leftover`, `revived`, `strayed`, `untested`. `StopThread`, `ReadTermination` and
`Destroy` are the destructor and the flag that the thread reads once in a round,
so a rebuild under way is finished first. The branch that withdraws a waiting rebuild
(`ikd_Tree.cpp:843`) cannot be reached while only locked updates work on the
subtree and is left out; so are the fathers above the grandfather, of which
`CheckGrandfather` knows nothing and takes both branches.

## Runs

| Run | Question | Bounds |
|---|---|---|
| `patrol` | Does every order of commands, results, frames and timers keep the mission consistent, and does every mission leave RUNNING? | 2 points, missions of 1 or 2 points, 2 goals in flight, 2 operator inputs, failure limit 2 |
| `map_voting` | Are votes, map and evidence consistent through voting, carving, pool overflow and mode changes? | 2 cells, 6 frames, 2 votes, window 3, pool of 1 |
| `map_archive` | Do saves, loads and crashes leave archives, navigation map and display in agreement? | 3 cells, cap 2, 2 frames, 2 seconds of file names, 1 crash, also in the middle of a save or between the two topics |
| `front` | Does a lidar sample once set up, and not before, and does every point reach its frame once and in order? | 2 lidars, one in the user's file, 2 settings, 3 announcements and packets, 1 timeout or failure |
| `distribution` | Is any stored frame or sample forgotten or published out of order, and does a frame end a poll thread asked to exit? | 2 lidars with a topic each, points or IMU samples, two formats, queues of 2, 5 frames |
| `queue` | Does the ring implement a bounded FIFO? | 3 packets, 4 slots, 3-bit indices |
| `preprocess` | Which points are kept, with which times, and does every line become features, each surface once? | rotating and other lidars, 2 rings, 4 headings in a circle, messages of 5 points, lines of up to 9, groups of 2, every first, second or third point |
| `lio` | Are scans and samples matched, is the right cloud registered and published with the time of its end, and is each point moved by its own stretch of time once? | scans of 3 IMU periods, stamps to 12, every second sample may be lost, 2 waiting scans, 3 waiting samples, one jump back to 0 or 3 |
| `mapping` | Does the cube keep what the lidar sees, and is the map searched again before an update is taken over? | a robot on 16 positions, 4 landmarks, range 8 in a cube of 44, 2 iterations |
| `ikd` | Is the lazily deleted, rebuilt tree the bag of points it stands for, and do searches find the closest? | 4 points in 2 voxels, 3 boxes, 2 neighbours, radii 2 and 4, 4 updates, rebuilds above 2 points |
| `ikd_rebuild` | Is an update lost or a search caught in the hand-over of a rebuilt subtree, and do rebuilds, searches and the destructor end? | 2 points, 1 box, 2 searches, 3 updates, the subtree at the root or two levels below it |

Why the bounds are enough.

- *Mission.* Two operator inputs give every pair of missions, so a left-over of
  one meets the other; two goals in flight give preemption; a limit of two has a
  failure that retries and one that gives up.
- *Map node.* Six frames with a window of three let votes expire and be cast
  again, and evidence age past the window. With two seconds of names a save
  replaces an archive or adds one, and the crash falls at any step of either, or
  between `/map` and `/nav_map`.
- *Driver.* Three inputs announce a lidar that is not in the file twice and leave
  a packet to arrive in between; two settings and one trouble give every order of
  answers with one repeated. Three-bit indices wrap after eight packets, twice
  the ring, and the run goes on for ever. Five frames fill both queues and leave
  one to arrive late.
- *Preprocessing.* Five points are two rings of two and a point that starts,
  ends or interrupts a ring; with four headings a ring turns through the cut of
  `atan2` from every side and nearly twice around. Lines of nine are four groups:
  the head search, a plane, its extension and the end of the line all happen.
  `GroupSize` is 8 in the code; 2 leaves room for several groups in a line.
- *Odometry.* Stamps to 12 hold the four scans needed to reach a registration
  (the first is skipped, the second initialises the IMU, the third builds the
  tree). With scans of three periods and every second sample lost, scans end on
  a sample, before one and after one. The jump back comes at any moment, with a scan
  in hand or not, with none, one or two waiting; two stamps after it are enough to
  fill the buffers again.
- *Mapping.* From the home position the cube moves along x, along y, and along
  both at once; of the landmarks one stays near the edge that is cut, two share a
  voxel, one is in range only from the far corner. Two iterations end early, late, or without a plane.
- *ikd-Tree.* Four points make a tree of three levels that is rebuilt at once
  when two of them go; four updates delete, insert again, delete by coordinates
  and rebuild. `NearestFound` says of what a search finds that it is part of the
  map, at most K points, ordered, and that it is full and no worse than each point
  it leaves out; searches are for 2 neighbours, so a heap fills up and is improved. In `ikd_rebuild`, three updates put one before, one during and
  one after the copy, or leave one in the log for the next rebuild; of two fathers a
  flag may wait in either, and each of the four mishaps happens.

`patrol_cancel` ends in a violation, which is a finding: `cancel` leaves
`pending_photo` armed; the next fresh frame calls `_next_point`, which sends a
goal for the next point while the mission is CANCELLED and the operator has asked
for nothing; the comment of `patrol_manager.py:316` says that a cancelled mission
ignores late callbacks.

### Observed while modelling

Disagreements with what the repository says, with the constants that show them
in the module named. They have no run of their own.

| What happens | What was said | How to see it |
|---|---|---|
| The page cancels at the server, the node takes it for a failure and sends the goal again after 3 s | `web/index.html:159` "紧急停止" | `patrol_cancel.cfg` with `EmergencyStopHolds` |
| At `max_voxels` the loop over the points breaks, hits of known voxels after that are not recorded, carving removes what was just hit | `map_manager.py:308` hit in the last 2 frames = real surface, not deleted | `map_voting.cfg` with `Scans <- FullScans`, `VoteWindow = 1`, `MaxVoxels = 1` and `RealSurfaceKept` |
| When a lidar stamp jumps back, `lidar_buffer` is cleared and `time_buffer` is not: every later scan has the time of another. What holds on is `ScansHaveTimes`: there is always a time to pop | `laserMapping.cpp:293` "lidar loop back, clear buffer" | `lio.cfg` with `SpecImu` and `Aligned` |
| Without an IMU sample in a scan, `Process` leaves the previous cloud, which is registered again | `laserMapping.cpp:990` "No point, skip this scan!" | `lio.cfg` with `MaxGap = 3`, `Duration = 2`, `MaxTime = 8`, `SpecImu` and `RegistersCurrentScan` |
| With the range of `config/avia.yaml:30` (450 m) and the cube of 1000 m the margin is larger than the cube: when it moves it cuts off points in range | `laserMapping.cpp` trims what the lidar has left behind | `mapping.cfg` with `DET_RANGE = 18`, `cube_len = 40` and `InRangeKept` |
| A rebuild of a subtree that has no points left reads the counts of a null root | `ikd_Tree.cpp:328` tests `new_root_node != nullptr` just before | `ikd_rebuild.cfg` with `EmptyHandedOver` |
| An update that waited for `working_flag_mutex` is logged after the log was drained; the next rebuild, possibly of another subtree, starts with it | `ikd_Tree.cpp:246` prints ERROR!!! | `ikd_rebuild.cfg` with `LoggerEmptyAtStart` |
| After the swap the thread runs `Update` on a father in which a deletion waits to be pushed down; it computes `tree_deleted` from sons that were not told yet, and the next `Push_Down` tells them that they are not deleted | `ikd_Tree.cpp:339-344` skips fathers that are worked on or due a push; a father that was covered directly, between the test and `Update`, or one whose flag came by `Push_Down` is not skipped | `ikd_rebuild.cfg` with `DeletionsStay` |
| The deletion of a downsampling in the whole tree asks for a rebuild, and its addition goes on without lock and log; the copy does not have it | `ikd_Tree.cpp:513-545` logs what meets a rebuild of the root | `ikd_rebuild.cfg` with `AdditionsTested` |
| A search reads the range of a son (1097), `Update` of a father its counts (842, 910, 1050), and a test that met both roots goes on in the old one, when `delete_tree_nodes` frees it (354) | `ikd_Tree.cpp:259`, 274 "Lock Search" | `ikd_rebuild.cfg` with `NothingReadAfterFree` |

`NoUpdateLost` and `NoSearchInHandOver` say what the hand-over does achieve: no
update is lost while none of the four mishaps has happened, and whoever is counted
in, or went into the subtree before the rebuild was asked for, is out of it
when it is freed.

Others, by place:

- *Mission.* The low-battery branch of `tick` is dead although
  `patrol_manager.py:206` gives it the highest priority
  (`LowBatteryUnreachable` states it as a fact, and LOW_BATTERY and CHARGING
  with it); a success of an old goal ends DOCKING away from the charger, or arms
  a photo at the wrong place; the photo is armed after `gimbal_timeout` though
  the gimbal still turns, against `patrol_manager.py:25`; a preempted goal counts
  as a failure, so two starts can skip a point and docking can go on for ever;
  `nav_fail_cnt` is not reset by a new mission.
- *Map node.* Several points of one frame elect a voxel alone, against
  `map_manager.py:323`; `start_mapping` keeps old votes; a `loaded` start without
  an archive leaves `self.mode` unset and the first scan ends the node; after
  `start_mapping` the old map stays latched on `/map` until a voxel is elected;
  `insert_votes = 1` needs two hits; the archive is written in place, so a kill
  leaves a cut file that is the newest, and `load_latest` loads it (`Loadable`)
  without a look at its POINTS line.
- *Preprocessing.* The search for the head of a line that has only near points
  does not stop at its end (`preprocess.cpp:602`); a plane that reaches the end of the
  line marks one point behind it (632-642); `dista` of a skipped point is never
  set (956); an empty ring of an Ouster scan makes the unsigned loop bound wrap
  (245-258); the last run of a surface is not flushed (855-904); `intersect` may
  come from vectors that were never set (752-769); two handlers use a ring
  without a check (434-437, 522-525). `config/mid360.yaml:22` calls type 4 "any
  other pointcloud input", the code runs `mid360_handler` for it.
- *Undistortion.* The first point of the cloud is moved once more for every
  interval before its own (`IMU_Processing.hpp:334` leaves only the inner loop);
  points at time 0 are not moved; points after the last sample are moved with the
  last interval; the stretch after the last sample counts forward also when the
  scan ends before that sample (293 takes the sign twice);
  `last_lidar_end_time_` is not initialised (78), so the first scan of each filter
  is compared with garbage (249).
- *Mapping.* An iteration without a plane goes on with `continue`
  (`esekfom.hpp:1638`), so the covariance may stay the propagated one;
  `laserCloudOri` is cleared and then written by index past its size
  (`laserMapping.cpp:681`, 741).
- *ikd-Tree.* A deletion by coordinates can miss a point that shares the
  coordinate of the axis it was split on.

## Fairness

- `patrol`: the timer, the callbacks that are due, Nav2's answers, retry timers
  and the camera are weakly fair; the operator, failures and the battery are
  not. rclpy runs what is ready and Nav2 answers each goal; without the latter
  assumption no mission need end, because `_nav_to` has no timeout.
- `front`: the thread that announces goes on, and the SDK answers every command,
  at the latest with a timeout. Timeouts and failures are bounded
  (`MaxTroubles`): a lidar that never answers is asked for ever. The process
  thread needs no fairness, its properties are safety.
- `distribution`: the storing and the poll thread of the stream and, once begun,
  the destructor are scheduled. No lidar has to send anything. So
  `OneFrameEndsIt` is conditional: without one more frame the poll thread sleeps
  in its semaphore and the destructor's `join` does not return.
- `preprocess`: the loops over the rings and the points of a line go on, being
  sequential code.
- `lio`: the 100 Hz timer fires again and again. Nothing makes data come.
- `ikd_rebuild`: the rebuild thread and the searches under way are weakly fair,
  they are running threads. The steps that wait for a mutex or poll a counter
  every microsecond (`CloseSearch`, `MainStep`, `SearchStep`) are strongly fair: who
  waits is served in the end when the thing waited for is free again and again.
  POSIX does not promise this of a mutex; the implementations in use do it in
  practice, and without it one thread could starve another for ever.
- `map_*`, `queue`, `mapping`, `ikd`: safety only.

All configurations turn the deadlock check off, because bounded inputs run out
and these nodes may then rest for ever.

## Proofs

| Theorem | Says | For every |
|---|---|---|
| `RobotProofs!TypeCorrect`, `NoIndexError`, `NeverOrphaned`, `PhotoArmed`, `LowBatteryIsDead`, `TimestampRule` | types and the safety properties of `patrol` | set of points, missions, limit, goals in flight, inputs |
| `RobotProofs!MapTypeCorrect`, `MappedHaveNoVotes`, `LoadedIsNavMap`, `DisplayIsNav`, `ArchivesAreDurable` | types; a voxel of the map has no votes left; a loaded map is the one Nav2 uses; the display agrees with it but between the two messages and after a kill there; a complete archive stays | set of cells, scans, votes, window, cap, pool, clock, crashes |
| `RobotProofs!EvidenceIsProtected` | carving removes nothing that was really hit within the window | the same, **if** the map can hold every cell (`Cardinality(Cells) <= MaxVoxels`) |
| `FrontProofs!TypeCorrect`, `SampledIsConfigured`, `BitsAreCleared`, `PointsOnce` | types; a lidar samples only when set up; no bit without a command or a refusal; every point that was sent is stored or on its way, once and in order | lidars, settings, user's file, inputs, troubles |
| `DistributionProofs!TypeCorrect`, `NoWakeupIsLost`, `MessagesAscend` | types, count of the semaphore at most one; no lost wake-up; the stamps on a topic of one lidar rise | number of lidars, queue size, frames, formats, topics, either stream |
| `DistributionProofs!RingTyped`, `SlotsNeverShared`, `RingIsChannel` | types; writer and reader never use one slot; the ring implements `Channel` | packets, size and width of the indices that meet `RingAssumption` |
| `PreprocessProofs!TypeCorrect`, `BlindIsNormal`, `GarbageUnread`, `SurfacePickedOnce` | types; no feature within `blind`; no angle of an unset vector is read; each surface point of a line is stood for once | messages and lines of any length, rings, group size, `point_filter_num` |
| `PreprocessProofs!TimesKept` | the time of each point that goes on is the one it was measured at | the same, **if** a lidar without times turns as `Rotates` says |
| `LioProofs!ScansKeepTimes`, `ScansKeepTimesForImu` | every waiting scan has its time waiting for it, also with undistortion behind; until stamps jump back the deques are equally long | duration, gaps in the IMU data, number of jumps back |
| `LioProofs!CurrentScanRegistered`, `CurrentScanRegisteredForImu` | the cloud that is registered is that of the scan in hand, and what is published carries the time of its end, until stamps jump back | the same, **if** no gap between samples is as long as a scan (`MaxGap < Duration`) |
| `LioProofs!FilterReachesEnd` | the filter is propagated by exactly the time between the ends of two scans, until stamps jump back | duration, gaps, number of jumps back |
| `LioProofs!PointsMovedOnce` | every point of a scan but the first is moved once, with the interval that holds it | duration, gaps, jumps back, points of a scan |
| `MappingProofs!TypeCorrect`, `RematchedAlways`, `MapStaysInCube`, `NothingSeenIsCut` | types; a covariance is only taken over after a second search for matches; the map lies in the cube; what is in range is not cut | landmarks, region, dimension, voxels, iterations; the last two **if** the cube fits the range (`CubeFits`) |
| `IkdTreeProofs!CountsStayExact`, `IkdProofs!RemovalsReportedOnce` | the size and the deleted points a node counts are those of its points; what is reported as removed was deleted on request, and once | points, boxes, voxels, criteria, ways to break ties, trees of any height (`AnyHeight`) |
| `IkdProofs!TreeIsPointStore` | the tree implements `PointStore`: each call changes the points as it would a plain bag | the same |
| `IkdProofs!RadiusSearchIsExact`, `NearestSearchIsExact` | searches that skip subtrees find what a look at every point would | the same, any radius, any K |
| `MappingProofs!RebuildTypeCorrect`, `NoUpdateIsLost`, `HandOverIsAlone` | types, and the counter counts; a rebuilt subtree has every update, unless one of the four mishaps has happened; no search is inside when the subtree is copied, or inside the old one when that is freed | points, boxes, number of searches and updates |

Assumptions are the named `ASSUME`s of the modules, which TLC evaluates in every
run, and hypotheses in the statements. `MaxGap < Duration` in
`LioProofs` is needed, as the observations above show; the IMU of the Mid-360
has 20 periods in a scan, so 19 samples in a row would have to be lost.
`Cardinality(Cells) <= MaxVoxels` in `RobotProofs` is needed too, by the observation
on `max_voxels`. `CubeFits` in `MappingProofs` is
`DET_RANGE <= mov_dist` and `mov_dist + 2 * Margin < cube_len`: the cube moves by
more than the lidar sees, and is not cut past the other margin. `config/avia.yaml`
does not meet it, and the observation above shows what happens then.
`PreprocessAssumption` says what messages a lidar sends: points with types and
numbered from 0, and, of a lidar whose points have no time (Mid-360 as a
PointCloud2, Velodyne without times), a scan as `Rotates` describes it. That is what
the code takes for granted when it tells time from headings: rings within
`N_SCANS`, less than a circle between two points of a ring, less than two circles
in a scan, clockwise. Nothing is assumed of the headings of the other lidars, nor
of what is near.
`RingAssumption` says of the size of the ring and of the range of the indices
what powers of two have: the one divides the other. The provers cannot derive
that from 2^n without an induction, so it is assumed, and TLC checks it for the
instance.

*Patrol.* No property is inductive alone. That `idx` is in range needs the
branch from CHARGING to RUNNING shut; that branch is shut because a running
mission never has sub-state IDLE (`RunningIsBusy`); the type of a retry target
needs the index in range. `SteadyPhoto` ties a photo armed with a settled gimbal
to the gimbal and to the frame in transit. `IInv` is the conjunction.

*Map.* A vote is given and turned into a map entry in the same loop, so between
its points the rest of the scan must still be a mapping one (`RestIsMapping`); the
archive that is being written is not complete (`SavingIsOpen`). With these, `MappedHasNoVotes`,
`LoadedMapIsNavMap` and `DisplayMatchesNav` are inductive, the latter with what is
known between the two messages: that `/map`, if it shows a loaded map, shows the one
whose navigation map is about to be sent (`HalfSentIsLoaded`); and the durability of
an archive follows step by step.

That carving spares what was hit (`EvidenceProtected`) rests on `HitsOnRecord`:
while mapping, the record of a cell of the map is its last real hit. A record
outlives a load and a `start_mapping` that empties the map, so it may be stale
for a cell outside of the map, and the invariant must not speak of those; and it
needs the cap not to bite in the middle of a scan (`NeverFull`).

*Front.* `SamplesConfigured` is not inductive: that the last answer finds
everything confirmed needs to know where each setting is. `Prepared` says it:
of the settings wanted, each has its bit set or is confirmed, except, while the
lidar is being announced, those still to be sent; between announcements this
holds of every lidar that has a setting under way. The lock is what keeps an
answer from looking at the bits while some are still to be sent.

For the points, `EveryPointOnce` cuts the numbers 1 to `sent` of each lidar in four
parts: handed on, in the frame, collected, queued. It is inductive with the types and
one more fact, that a lidar of the user's file always has an index. Each action
moves one of the three cuts of one lidar; what has to be shown is that it does
not move another: a swap of one lidar's vectors leaves the frames of the others,
a frame holds each lidar at most once, and a packet that is queued sorts behind
those of its lidar whatever stands between.

*Distribution.* A lidar that is owed a visit has something stored and is
sampling (`OwedIsStored`), so neither an empty queue nor the state check passes
it over; the poll thread only works on sampling lidars (`PollsSampling`); and
`producer = "signal"` implies a count of zero (`SignalsAtZero`), because between
the unlocked read and the signal the poll thread can only lower the count. This
is the argument why the missing lock does no harm with one signalling thread.

The order of messages (`MessagesAscend`) is an action property. Under it lie
`Rising`, that a queue rises up to the newest frame of its lidar, and
`OlderIsOut`, that what a lidar's topic has had is older than all that its queue
holds. The steps fall into three kinds for these (`StepKinds`): nothing moves, a
frame is stored or dropped, the front one is taken and published. That two lidars
do not meet on one topic (`TopicsDiffer`) is where the hypothesis of the property
is used; on a shared topic stamps do go back.

*Queue.* The indices only say how many packets are in the ring modulo their
range, so the argument is about that number: it is at most `Size`, less than
`Size` while a write is under way (`Begun`, `Room`), and the slots it counts are
whole (`Written`). That two of these positions are different slots is where
`RingAssumption` is used. The refinement maps the packets between the indices to
the sequence of the channel: the push happens when the write index moves, the pop
when the read index does.

*Preprocessing.* The pass of a handler over a message is a recursive function
chosen by its equation. That it exists (`PassExists`) and what holds of it
(`HandledKeeps`) both follow from the least number of points for which it would
not hold; `Least` is proved from the well-foundedness of the strict subsets of a
finite set. `WorkInv` says what is known after `k` points: each one kept so far has
the time it was measured at, no two points of the lines are the same, and of a
lidar without times the arrays of a ring hold the heading of a point at angle 0
and the largest angle so far. With the points of a ring less than a circle apart
and less than two in all, that tells the turn (`OffsetTimeIs`).

The loops of `give_feature` need two facts: that a plane has no blind point, nor the
place just behind it (`PlaneIsFar`), and that an angle is garbage only where a
neighbour is blind (`GarbageInv`). For the last loop, `PickInv` says that before it
starts nothing of the line has gone on (the points before the head are blind, so
no surface is left out), and that then exactly the surface points before `i` have,
but for the run that is still open. That none of them is of another line rests on
`LinesInv`: the lines come from one message, and every part of the cloud is of a
line the loop over the rings has come by.

*Lio.* `TimesInv` is what holds of the deques whatever the stamps do: the times
of the waiting scans are the last of `time_buffer`, and a scan in hand has a
time to pop. Until stamps jump back more is true: `Aligned` (the deques pair off) and
`TakenIsFront` (the scan in hand is the front one) are inductive together with the
part of the types that the lidar side needs; a jump never undoes itself
(`LoopsGrow`), so the invariant of a run is that it has jumped or `IInv`. That part leaves out the IMU samples: the number
of samples a package takes does not matter to it.

Why the right cloud is registered is a longer story, told by `RInv`. The waiting
scans follow each other by at least a duration (`ScansInOrder`); no sample is
missing between the end of the last scan and the IMU buffer (`SamplesReachBack`);
the next scan to be released ends a duration after the last one (`EndsApart`).
Together, a scan that is released has a sample of its own when no gap is as long
as a scan, so `Process` does not return early and leave an old cloud. The first
scan is apart, but it is skipped. That the published times are the ends of the
scans needs `MeanIsKnown`: a scan that does not tell how long it lasts comes
behind one that does, in the buffer or taken before.

For `FilterReachesEnd`, `Reached` says that the end of the last undistorted scan lies
between the last sample used and the first that waits; then the stretches over
which `Propagate` integrates add up to the difference of the ends. The sum is a
fold over the samples of a package. The fold of the community modules is
a recursive function chosen by its equation; that it exists is proved in
`LioProofs` from the well-foundedness of the strict subsets of a finite set
(`FS_StrictSubsetOrderingWellFounded`), by looking at a smallest set for which it
would not, and its two equations are lemmas. What the backward walk over the points computes
(`Compensated`) is a fold in turn, and `PointsMovedOnce` follows it pose by
pose: the loop of the points passes to the next interval exactly at the first
point that is not later than the pose.

*Mapping.* `UpdateInv` follows the iterated update: the first iteration
searches, after a small step `converge` asks for a search, and without one the
last iteration searches anyway; so two searches precede `Conclude`. For the
cube, `PlaceInv` says where the robot of the last scan lies in it, and `CubeInv`
that the cube has its length on each axis and what is in the map lies in it; a move keeps the face ahead, which `CubeFits` puts beyond
the range.

*Rebuild.* `Kinds` gives the types, `CountInv` that the counter counts exactly
the searches inside, and -1 means none, `LockInv` who holds which mutex. `LogInv`
is the heart: as long as there was no mishap, what was copied with the logged
updates applied (`Replayed`) is the subtree at each place of the rebuild thread, and
the subtree is the ideal one, unless a deletion waits in a father, which makes the
ideal one empty. That none waits while an update works below it is `FlagInv`. The destructor changes
nothing in this, as it waits for the thread to end.

*ikd-Tree.* The hypothesis `AnyHeight` is `Heights = Nat`, which is what the code
has; a bound, as TLC needs it, would be reached by enough insertions. A
recursive function is chosen by its equation, so it is first shown to exist: `Height`
is the least bound of a tree, sons are lower, and `RecursionExists` builds
the function by recursion over that measure (`TreeRecursion`). `TreeInduction`
proves what follows for every tree, from its sons *after* a `Push_Down`, since
that is how every function of the code goes down (`Son`).

The inductive invariant behind the counts is `TreeExact`: every node is `Exact`.
Its counts are those of its sons as they are once the pending flag is pushed
down, and the two last conjuncts are what the code relies on without saying so: a
point deleted by downsampling is deleted, and a flag that waits (`need_push`)
either finds its father's tree deleted or a son without deleted points, so that
to overwrite the son's counts with it loses nothing. That, and not the flags
alone, is why `Push_Down` may take over the father's flags blindly. TLC agreed
with `Exact` on the instance of `ikd` before it was proved, node by node and
operation by operation (the lemmas `...Exact`).

For the points, `Held` is how often a tree holds a point and `Due` how often it
has yet to report it, both counted over the sequences that `flatten` returns.
`Sound` adds `Fits` to exactness: the range of a node holds every point below it
that is not deleted, which is all a lazily kept range promises. Each operation
has a lemma that says what it does to `Held` and `Due` (`AddByPointSound`,
`DeleteByRangeCuts`, `DeleteByPointSound`, `BuildSound`...). `PointsKept` is
the inductive invariant of the map: a sound tree, the history `content` is what the
tree holds, and `Owed`, what was reported with what is due does not exceed what
was deleted on request. The refinement maps the bag of `PointStore` to `content`,
and `StoreStep` shows call by call that the step is one of the store: the
downsampling, which looks at a voxel, deletes it and puts a point back, or leaves
a voxel alone that holds just its point, is `DownsampleIsStored`.

A range that does not hold what the search is for is skipped, one that holds nothing else is
taken whole. For boxes that is a comparison of corners. For balls,
`BallOutside` and `BallInside` compare squares of sums of lengths; that they
decide rightly for every point of the range follows from the inequality of Cauchy and
Schwarz in three dimensions (`Cauchy`, `OutsideBall`, `InsideBall`).
For the nearest points, `Improves(q, r, more, ...)` compares the heap before and
after part of a search: what is missing of the points of `q` and of those of the
part is beyond the full heap `r`. This composes over the point of a node and its sons
in either order (`ImprovesTwice`), because the top of a full heap only comes
closer; a son that is skipped is beyond it by `BoxDistBelow`.

The provers find the steps only when arithmetic, functions and sequences are kept
apart; hence lemmas like `EmptyTerms` or `ShortOf`, plain facts about numbers.

*Only model-checked.* Types are proved rather than checked for the components that
have a theorem of that name (`...TypeCorrect`); the runs of the others state theirs through the properties.
All safety properties of the passing runs are theorems, some
under a hypothesis named above. Only model-checked is liveness
(`AnnouncedSamples`, `StoredIsPublished`, `OneFrameEndsIt`,
`NoScanStuck`, `NobodyStarves` and those of `patrol` and `preprocess`): it and
ENABLED are out of the prover's reach. So are declared recursive operators, which
no module has, and induction over data by the library's general theorems, which take
an operator as a parameter; the inductions here name a
smallest counterexample in a set that the library knows to be well-founded, the
finite sets or the numbers. `IkdRebuild` is about the hand-over and not the tree, so it
takes a subtree as its set of points; that the tree is its points is
`TreeIsPointStore`.

## Not modelled

- *Numerics.* The filter of the IKFoM toolkit (only the control of the iterated
  update is modelled), point-to-plane residuals, undistortion of coordinates,
  conversions and extrinsics of the driver, `_build_nav_map`'s denoising and
  dilation: floating point, where a small instance says nothing.
- *ikd-Tree operations FAST-LIO does not call* (`Add_Point_Boxes`, `Box_Search`,
  `tree_range`), `root_alpha`, `max_dist` (no bound in its calls). The balance of
  the tree under the rebuild thread and the tree under the lazy flags are two
  models: their composition has too many states to say more.
- *Preprocessing*: units of time, the factor 0.361 per degree of a rotation that
  is specific to a 10 Hz lidar.
- *Weak memory* in the ring, see above.
- *Configuration files* of the driver, *rapidjson*, *message headers*: data.
- *Mock nodes*: numeric or sources of data. The parts that matter (gimbal ramp,
  frames) are the environment of `PatrolManager`. The battery of the mock base
  would only matter to LOW_BATTERY and CHARGING, which are proved unreachable.
- *Mock mapper, map loader*: replaced by the map manager.
- *Web page, web server, launch files, stream adapters*: display, static files,
  declarations, one message in and one out. The stop button is modelled.
- *Scripts that start and stop SLAM*: process control with pid files; their
  states are those of the shell and the operating system.
- *matplotlibcpp.h*: a plotting library that nothing of the path uses.

## What is left

In the order of what it would add: the index table of the driver
(`cache_index.cpp`) as steps, with two threads that announce one lidar; a
composition of `IkdRebuild` with `LaserMapping`, so that the map of the odometry
is the one that is rebuilt; and in `IkdRebuild` the tree of `IkdTree` in place of
its set of points, now that both are proved apart.
