----------------------------- MODULE QueueProps -----------------------------
(***************************************************************************)
(* What PacketQueue promises its two threads.                              *)
(***************************************************************************)
EXTENDS PacketQueue, Sequences

(* Every variable has its type, and the indices stay within their width.   *)
RingTypes ==
  /\ storage \in {None} \cup [Slots -> Packets \cup {Torn}]
  /\ rd_idx \in 0..IndexMod - 1 /\ wr_idx \in 0..IndexMod - 1
  /\ writer \in {"idle", "init", "check", "writing", "written"}
  /\ data \in Packets \cup {None}
  /\ reader \in {"idle", "copying", "copied"}
  /\ copy \in Packets \cup {Torn, None}
  /\ delivered \in Packets \cup {Torn, None}

(* The two threads never work on the same slot: the full check of the      *)
(* writer, made before it writes, is enough without a lock, also when the  *)
(* indices have wrapped and differ by the size of the ring.                *)
NeverSameSlot ==
  ~ (/\ writer \in {"writing", "written"}
     /\ reader \in {"copying", "copied"}
     /\ Slot(wr_idx) = Slot(rd_idx))

(* The packets in the ring, oldest first.                                  *)
InRing == [k \in 1..QueueUsedSize |-> storage[Slot(rd_idx + k - 1)]]

FIFO == INSTANCE Channel WITH
          Capacity <- Size,
          chan <- IF storage = None THEN <<>> ELSE InRing

(* The ring is a first-in first-out channel of Size packets: what is       *)
(* popped is what was pushed first, complete, and only a push on a full    *)
(* ring is lost, whatever the indices have wrapped to.                     *)
IsChannel == FIFO!Spec
=============================================================================
