------------------------------ MODULE Channel ------------------------------
(***************************************************************************)
(* What a lidar's queue promises to its two threads: a bounded first-in    *)
(* first-out channel that drops what does not fit.                         *)
(***************************************************************************)
EXTENDS Naturals, Sequences

CONSTANTS Packets, Capacity, None

VARIABLES
  chan,     \* the packets in the channel, oldest first
  delivered \* the packet taken out last

Init == chan = <<>> /\ delivered = None

Put(p) ==
  /\ Len(chan) < Capacity
  /\ chan' = Append(chan, p)
  /\ UNCHANGED delivered

Take ==
  /\ chan # <<>>
  /\ delivered' = Head(chan)
  /\ chan' = Tail(chan)

Next == (\E p \in Packets : Put(p)) \/ Take

Spec == Init /\ [][Next]_<<chan, delivered>>
=============================================================================
