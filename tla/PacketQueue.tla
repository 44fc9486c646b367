---------------------------- MODULE PacketQueue ----------------------------
(***************************************************************************)
(* The point cloud queue of livox_ros_driver2, comm/ldq.cpp: a ring that   *)
(* one thread writes and one thread reads without a lock.  The read and    *)
(* write indices run freely, wrap at the width of the integer and are      *)
(* masked to find the slot.  Storing and copying a packet take time, during*)
(* which the other thread may run.  Memory is sequentially consistent.     *)
(***************************************************************************)
EXTENDS Integers, FiniteSetsExt

CONSTANTS
  Packets,   \* what is stored
  QueueSize, \* the size InitQueue is asked for
  IndexBits, \* width of rd_idx and wr_idx (32 in the code)
  Torn,      \* the content of a slot that is being written
  None

ASSUME QueueAssumption ==
  /\ IndexBits \in Nat \ {0}
  /\ QueueSize \in 1..2^(IndexBits - 1)
  /\ None \notin Packets /\ Torn \notin Packets /\ Torn # None

VARIABLES
  storage,  \* storage_packet: the slots, or None before InitQueue
  rd_idx,
  wr_idx,
  writer,   \* the storing thread: "idle", "init", "check", "writing", "written"
  data,     \* the packet it stores
  reader,   \* the polling thread: "idle", "copying", "copied"
  copy,     \* the packet it has copied out
  delivered \* the packet popped last

writerVars == <<writer, data>>
readerVars == <<reader, copy, delivered>>
ringVars == <<storage, rd_idx, wr_idx, writerVars, readerVars>>

-----------------------------------------------------------------------------
IndexMod == 2^IndexBits

(* The smallest power of two that is not below n.                          *)
RoundupPowerOf2(n) == Min({p \in {2^i : i \in 0..IndexBits - 1} : n <= p})

Size == RoundupPowerOf2(QueueSize)
Slots == 0..Size - 1

(* What follows from both being powers of two, the size the smaller one;   *)
(* and a ring of slots can be told from no ring.                           *)
ASSUME RingAssumption ==
  /\ Size \in Nat \ {0} /\ IndexMod \in Nat
  /\ Size < IndexMod /\ IndexMod % Size = 0
  /\ None \notin [Slots -> Packets \cup {Torn}]

(* idx & mask, for a mask of Size - 1.                                     *)
Slot(idx) == idx % Size

(* Mutant of NextIndex: the index is masked as it advances.                *)
MaskedNext(idx) == (idx + 1) % Size

NextIndex(idx) == (idx + 1) % IndexMod

QueueUsedSize == (wr_idx - rd_idx) % IndexMod
QueueIsEmpty == rd_idx = wr_idx

(* Mutant of QueueIsFull: the size in place of the mask.                   *)
QueueIsFullLate == QueueUsedSize > Size

(* More than mask packets in use.                                          *)
QueueIsFull == QueueUsedSize > Size - 1

-----------------------------------------------------------------------------
(* The storing thread: PushLidarData and QueuePushAny.                     *)

PushLidarData(p) ==
  /\ writer = "idle"
  /\ data' = p
  /\ writer' = IF storage = None THEN "init" ELSE "check"
  /\ UNCHANGED <<storage, rd_idx, wr_idx, readerVars>>

(* InitQueue, on the first packet of the lidar.                            *)
InitQueue ==
  /\ writer = "init"
  /\ storage' = [s \in Slots |-> Torn]
  /\ rd_idx' = 0 /\ wr_idx' = 0
  /\ writer' = "check"
  /\ UNCHANGED <<data, readerVars>>

(* A packet that does not fit is dropped.                                  *)
CheckFull ==
  /\ writer = "check"
  /\ IF QueueIsFull
     THEN writer' = "idle" /\ UNCHANGED storage
     ELSE /\ writer' = "writing"
          /\ storage' = [storage EXCEPT ![Slot(wr_idx)] = Torn]
  /\ UNCHANGED <<rd_idx, wr_idx, data, readerVars>>

FinishWrite ==
  /\ writer = "writing"
  /\ storage' = [storage EXCEPT ![Slot(wr_idx)] = data]
  /\ writer' = "written"
  /\ UNCHANGED <<rd_idx, wr_idx, data, readerVars>>

AdvanceWrite ==
  /\ writer = "written"
  /\ wr_idx' = NextIndex(wr_idx)
  /\ writer' = "idle"
  /\ UNCHANGED <<storage, rd_idx, data, readerVars>>

-----------------------------------------------------------------------------
(* The polling thread: QueuePop is QueuePrePop and QueuePopUpdate.         *)

BeginCopy ==
  /\ reader = "idle"
  /\ storage # None
  /\ ~QueueIsEmpty
  /\ reader' = "copying"
  /\ UNCHANGED <<storage, rd_idx, wr_idx, writerVars, copy, delivered>>

FinishCopy ==
  /\ reader = "copying"
  /\ copy' = storage[Slot(rd_idx)]
  /\ reader' = "copied"
  /\ UNCHANGED <<storage, rd_idx, wr_idx, writerVars, delivered>>

QueuePopUpdate ==
  /\ reader = "copied"
  /\ rd_idx' = NextIndex(rd_idx)
  /\ delivered' = copy
  /\ reader' = "idle"
  /\ UNCHANGED <<storage, wr_idx, writerVars, copy>>

-----------------------------------------------------------------------------
RingInit ==
  /\ storage = None
  /\ rd_idx = 0 /\ wr_idx = 0
  /\ writer = "idle" /\ data = None
  /\ reader = "idle" /\ copy = None /\ delivered = None

Writer == \/ \E p \in Packets : PushLidarData(p)
          \/ InitQueue \/ CheckFull \/ FinishWrite \/ AdvanceWrite

Reader == BeginCopy \/ FinishCopy \/ QueuePopUpdate

RingNext == Writer \/ Reader

RingSpec == RingInit /\ [][RingNext]_ringVars
=============================================================================
