------------------------- MODULE DistributionProofs -------------------------
(***************************************************************************)
(* Proofs about LidarDistribution: its types, the absence of lost wake-ups *)
(* and the order of the messages, for any number of lidars, any queue size *)
(* and any number of frames; and about PacketQueue, the ring behind each   *)
(* of the queues.                                                          *)
(***************************************************************************)
EXTENDS DistributionProps, QueueProps, SequenceTheorems, TLAPS

(* What NoLostWakeup rests on.  A queue that is owed a visit is not empty  *)
(* and its lidar is not passed over; the poll thread only works on the     *)
(* queue of a lidar that is sampling; a signal is sent while the count is  *)
(* zero, because the poll thread can only lower it.                        *)
OwedIsStored == \A l \in owed : Used(l) > 0 /\ sampling[l]
PollsSampling == poller \in {"poll", "drain"} => lidar_id \in Lidars /\ sampling[lidar_id]
SignalsAtZero == producer = "signal" => count = 0

IInv == TypeOK /\ OwedIsStored /\ PollsSampling /\ SignalsAtZero /\ NoLostWakeup

-----------------------------------------------------------------------------
LEMMA InitInv == Init => IInv
<1> SUFFICES ASSUME Init
             PROVE  IInv
  OBVIOUS
<1>1. /\ queue \in [Lidars -> Seq(Nat)] /\ \A l \in Lidars : Used(l) = 0
      /\ newest \in [Lidars -> Nat] /\ published \in [Topics -> Nat]
      /\ transfer_format_ \in Formats
  BY DEF Init, Used
<1>2. sampling \in [Lidars -> BOOLEAN]
  BY DEF Init
<1>3. lidar_id \in 1..LidarCount + 1 /\ frames \in 0..MaxFrames /\ target \in Nat \ {0}
  BY DistributionAssumption DEF Init
<1>4. request_exit \in BOOLEAN /\ exit_signal \in BOOLEAN /\ late \in BOOLEAN
  BY DEF Init
<1>5. TypeOK
  BY <1>1, <1>2, <1>3, <1>4, DistributionAssumption DEF Init, TypeOK
<1>6. OwedIsStored /\ PollsSampling /\ SignalsAtZero /\ NoLostWakeup
  BY DEF Init, OwedIsStored, PollsSampling, SignalsAtZero, NoLostWakeup
<1> QED
  BY <1>5, <1>6 DEF IInv

(* The thread of the pub handler.                                          *)
LEMMA ProducerKeepsInv ==
  ASSUME IInv, Producer
  PROVE  IInv'
<1> USE DistributionAssumption DEF Lidars, producerVars, pollerVars, nodeVars, configVars,
        historyVars, storeVars, frameVars, Used
<1>1. CASE Store
  <2> PICK l \in Lidars : Push(l) \/ StorageImuData(l)
    BY <1>1 DEF Store
  <2>1. /\ queue' \in [Lidars -> Seq(Nat)]
        /\ Used(l)' > 0
        /\ \A k \in Lidars : Used(k)' >= Used(k)
        /\ stream = "points" => \A k \in Lidars : Used(k)' <= Capacity
        /\ producer' \in {"stored", "count"}
    <3>0. /\ Stored(l) \in [Lidars -> Seq(Nat)]
          /\ \A k \in Lidars : Len(Stored(l)[k]) = IF k = l THEN Used(l) + 1 ELSE Used(k)
          /\ \A k \in Lidars : Used(k) \in Nat
      <4>1. queue \in [Lidars -> Seq(Nat)] /\ newest[l] + 1 \in Nat
        BY DEF IInv, TypeOK
      <4>2. \A q \in Seq(Nat) : /\ Append(q, newest[l] + 1) \in Seq(Nat)
                              /\ Len(Append(q, newest[l] + 1)) = Len(q) + 1
        BY <4>1
      <4>3. Stored(l) = [queue EXCEPT ![l] = Append(queue[l], newest[l] + 1)]
        BY DEF Stored
      <4> QED
        BY <4>1, <4>2, <4>3 DEF Used
    <3>1. CASE Push(l)
      <4>1. \A k \in Lidars : Used(k) <= Capacity
        BY <3>1 DEF Push, IInv, TypeOK
      <4>2. CASE Used(l) < Capacity
        <5>1. queue' = Stored(l) /\ producer' = "stored"
          BY <3>1, <4>2 DEF Push
        <5>2. Used(l)' = Used(l) + 1 /\ \A k \in Lidars : k # l => Used(k)' = Used(k)
          BY <3>0, <5>1
        <5>3. queue' \in [Lidars -> Seq(Nat)] /\ producer' \in {"stored", "count"}
          BY <3>0, <5>1
        <5>6. \A k \in Lidars : Len(queue[k]) \in Nat
          BY DEF IInv, TypeOK
        <5>4. Used(l)' > 0
          BY <5>2, <5>6
        <5>7. \A k \in Lidars : Used(k)' >= Used(k)
          BY <5>2, <5>6
        <5>5. \A k \in Lidars : Used(k)' <= Capacity
          BY <4>1, <4>2, <5>2, <5>6
        <5> QED
          BY <5>3, <5>4, <5>5, <5>7
      <4>3. CASE ~(Used(l) < Capacity)
        <5>1. queue' = queue /\ producer' = "count"
          BY <3>1, <4>3 DEF Push
        <5> QED
          BY <3>0, <4>1, <4>3, <5>1 DEF Used, IInv, TypeOK
      <4> QED
        BY <4>2, <4>3
    <3>2. CASE StorageImuData(l)
      BY <3>0, <3>2 DEF StorageImuData, ImuPush, Used
    <3> QED
      BY <3>1, <3>2
  <2>2. /\ owed' = IF sampling[l] THEN owed \cup {l} ELSE owed
        /\ producer = "idle" /\ target' = l
        /\ newest' = [newest EXCEPT ![l] = @ + 1]
        /\ UNCHANGED <<published, sampling, count, poller, lidar_id, stream, transfer_format_,
                       request_exit, exit_signal>>
        /\ late' = (late \/ exit_signal)
    BY DEF Push, StorageImuData, Receive
  <2>7. late' \in BOOLEAN
    BY <2>2 DEF IInv, TypeOK
  <2>8. frames' \in 0..MaxFrames
    BY DEF Push, StorageImuData, Receive, IInv, TypeOK
  <2>3. TypeOK'
    BY <2>1, <2>2, <2>7, <2>8 DEF IInv, TypeOK
  <2>4. OwedIsStored'
    BY <2>1, <2>2 DEF IInv, TypeOK, OwedIsStored
  <2>5. PollsSampling' /\ SignalsAtZero'
    BY <2>1, <2>2 DEF IInv, PollsSampling, SignalsAtZero
  <2>6. NoLostWakeup'
    BY <2>1, <2>2 DEF IInv, TypeOK, NoLostWakeup, Signalling, StillToVisit
  <2> QED
    BY <2>3, <2>4, <2>5, <2>6 DEF IInv
<1>2. CASE CheckStored
  <2> USE <1>2 DEF CheckStored
  <2>1. TypeOK' /\ OwedIsStored' /\ PollsSampling' /\ SignalsAtZero'
    BY DEF IInv, TypeOK, OwedIsStored, PollsSampling, SignalsAtZero
  <2>2. NoLostWakeup'
    BY DEF IInv, TypeOK, OwedIsStored, NoLostWakeup, Signalling, StillToVisit
  <2> QED
    BY <2>1, <2>2 DEF IInv
<1>3. CASE ReadCount
  <2> USE <1>3 DEF ReadCount
  <2>1. TypeOK' /\ OwedIsStored' /\ PollsSampling' /\ SignalsAtZero'
    BY DEF IInv, TypeOK, OwedIsStored, PollsSampling, SignalsAtZero
  <2>2. NoLostWakeup'
    BY DEF IInv, TypeOK, NoLostWakeup, Signalling, StillToVisit
  <2> QED
    BY <2>1, <2>2 DEF IInv
<1>4. CASE Signal
  <2> USE <1>4 DEF Signal
  <2>1. TypeOK' /\ OwedIsStored' /\ PollsSampling' /\ SignalsAtZero'
    BY DEF IInv, TypeOK, OwedIsStored, PollsSampling, SignalsAtZero
  <2>2. NoLostWakeup'
    BY DEF IInv, TypeOK, SignalsAtZero, NoLostWakeup
  <2> QED
    BY <2>1, <2>2 DEF IInv
<1> QED
  BY <1>1, <1>2, <1>3, <1>4 DEF Producer

(* The poll thread.                                                        *)
LEMMA PollerKeepsInv ==
  ASSUME IInv, Poller
  PROVE  IInv'
<1> USE DistributionAssumption DEF Lidars, producerVars, pollerVars, nodeVars, configVars,
        historyVars, storeVars, frameVars, Used
<1>1. CASE BeginRound
  <2>1. TypeOK' /\ OwedIsStored' /\ PollsSampling' /\ SignalsAtZero'
    BY <1>1 DEF BeginRound, IInv, TypeOK, OwedIsStored, PollsSampling, SignalsAtZero
  <2>2. NoLostWakeup'
    BY <1>1 DEF BeginRound, IInv, NoLostWakeup, Signalling, StillToVisit
  <2> QED
    BY <2>1, <2>2 DEF IInv
<1>2. CASE Wait
  <2>1. TypeOK' /\ OwedIsStored' /\ PollsSampling' /\ SignalsAtZero'
    BY <1>2 DEF Wait, IInv, TypeOK, OwedIsStored, PollsSampling, SignalsAtZero
  <2>2. NoLostWakeup'
    BY <1>2 DEF Wait, IInv, TypeOK, NoLostWakeup, StillToVisit
  <2> QED
    BY <2>1, <2>2 DEF IInv
<1>3. CASE Visit
  <2>0. /\ UNCHANGED <<storeVars, sampling, count, producerVars, nodeVars, historyVars>>
        /\ poller' \in {"future", "poll", "visit"}
        /\ lidar_id' \in {lidar_id} \/ (lidar_id <= LidarCount /\ lidar_id' = lidar_id + 1)
    BY <1>3 DEF Visit, IInv, TypeOK
  <2>1. TypeOK' /\ OwedIsStored' /\ SignalsAtZero'
    <3>1. TypeOK'
      BY <2>0 DEF IInv, TypeOK, storeVars, producerVars, nodeVars, historyVars
    <3>2. OwedIsStored' /\ SignalsAtZero'
      BY <2>0 DEF IInv, OwedIsStored, SignalsAtZero, Used, storeVars, producerVars, nodeVars, historyVars
    <3> QED
      BY <3>1, <3>2
  <2>2. PollsSampling'
    BY <1>3 DEF Visit, IInv, TypeOK, PollsSampling
  <2>3. NoLostWakeup'
    BY <1>3 DEF Visit, IInv, TypeOK, OwedIsStored, NoLostWakeup, Signalling, StillToVisit
  <2> QED
    BY <2>1, <2>2, <2>3 DEF IInv
<1>4. CASE Poll
  <2>1. /\ UNCHANGED <<queue, published, sampling, count, producer, target, frames, newest, stream,
                       transfer_format_, request_exit, exit_signal, owed, late>>
        /\ poller = "poll" /\ lidar_id \in Lidars
        /\ \/ poller' = "drain" /\ lidar_id' = lidar_id
           \/ /\ request_exit \/ ~(Used(lidar_id) > 0)
              /\ poller' = "visit" /\ lidar_id' = lidar_id + 1
    BY <1>4 DEF Poll, IInv, PollsSampling
  <2>4. TypeOK' /\ OwedIsStored' /\ SignalsAtZero'
    BY <2>1 DEF IInv, TypeOK, OwedIsStored, SignalsAtZero
  <2>2. PollsSampling'
    BY <1>4 DEF Poll, IInv, PollsSampling
  <2>3. NoLostWakeup'
    <3> HIDE DEF Used
    <3> SUFFICES ASSUME NEW l \in owed, ~request_exit, ~(count > 0), ~Signalling(l)
                 PROVE  StillToVisit(l)'
      BY <2>1 DEF NoLostWakeup, Signalling
    <3>1. l \in Lidars /\ Used(l) > 0 /\ lidar_id <= l
      BY <2>1 DEF IInv, TypeOK, OwedIsStored, NoLostWakeup, StillToVisit
    <3>2. lidar_id' <= l
      BY <2>1, <3>1 DEF Lidars
    <3> QED
      BY <2>1, <3>2 DEF StillToVisit
  <2> QED
    BY <2>2, <2>3, <2>4 DEF IInv
<1>5. CASE Drain \/ PublishImuData
  <2>0. /\ queue \in [Lidars -> Seq(Nat)] /\ lidar_id \in Lidars /\ queue[lidar_id] \in Seq(Nat)
        /\ published \in [Topics -> Nat]
    BY <1>5 DEF Drain, PublishImuData, IInv, TypeOK, PollsSampling
  <2>1. /\ UNCHANGED <<sampling, count, producer, target, frames, newest, lidar_id, stream,
                       transfer_format_, request_exit, exit_signal, late>>
        /\ poller = "drain" /\ poller' \in {"poll", "drain"}
    BY <1>5 DEF Drain, PublishImuData, Pop
  <2>2. CASE Used(lidar_id) = 0
    <3>1. queue' = queue /\ published' = published /\ owed' = owed
      BY <1>5, <2>2 DEF Drain, PublishImuData, ImuPop, Used
    <3>2. TypeOK' /\ OwedIsStored' /\ PollsSampling' /\ SignalsAtZero'
      BY <2>1, <3>1 DEF IInv, TypeOK, OwedIsStored, PollsSampling, SignalsAtZero
    <3>3. NoLostWakeup'
      BY <2>1, <3>1 DEF IInv, NoLostWakeup, Signalling, StillToVisit
    <3> QED
      BY <3>2, <3>3 DEF IInv
  <2>3. CASE Used(lidar_id) # 0
    <3>1. /\ queue' = [queue EXCEPT ![lidar_id] = Tail(queue[lidar_id])]
          /\ published' = [published EXCEPT ![Topic(lidar_id)] = Head(queue[lidar_id])]
          /\ owed' = IF Used(lidar_id) = 1 THEN owed \ {lidar_id} ELSE owed
      BY <1>5, <2>3 DEF Drain, PublishImuData, ImuPop, Pop, Publish, Message, LastOut, Used
    <3>2. \A q \in Seq(Nat) : Len(q) # 0 => /\ Tail(q) \in Seq(Nat) /\ Len(Tail(q)) = Len(q) - 1
                                          /\ Head(q) \in Nat /\ Len(q) \in Nat
      OBVIOUS
    <3>3. /\ queue' \in [Lidars -> Seq(Nat)] /\ published' \in [Topics -> Nat]
          /\ \A l \in Lidars : /\ Used(l) \in Nat
                              /\ l # lidar_id => Used(l)' = Used(l)
          /\ Used(lidar_id)' = Used(lidar_id) - 1
      <4>1. Len(queue[lidar_id]) # 0
        BY <2>3
      <4>2. queue' \in [Lidars -> Seq(Nat)] /\ published' \in [Topics -> Nat]
        BY <2>0, <3>1, <3>2, <4>1
      <4>3. \A l \in Lidars : Len(queue[l]) \in Nat
        BY <2>0
      <4>4. Len(queue'[lidar_id]) = Len(queue[lidar_id]) - 1
        BY <2>0, <3>1, <3>2, <4>1
      <4>5. \A l \in Lidars : l # lidar_id => queue'[l] = queue[l]
        BY <2>0, <3>1
      <4> QED
        BY <2>0, <2>1, <4>2, <4>3, <4>4, <4>5
    <3>4. TypeOK'
      <4>1. stream' = "points" => \A l \in Lidars : Used(l)' <= Capacity
        BY <2>0, <2>1, <3>1, <3>3 DEF IInv, TypeOK
      <4> QED
        BY <2>1, <3>1, <3>3, <4>1 DEF IInv, TypeOK
    <3>5. OwedIsStored'
      <4>1. \A l \in owed' : l \in Lidars /\ l \in owed /\ (l = lidar_id => Used(l) # 1)
        BY <3>1 DEF IInv, TypeOK
      <4>2. ASSUME NEW l \in owed'
            PROVE  Used(l)' > 0
        <5>1. l \in Lidars /\ l \in owed /\ (l = lidar_id => Used(l) # 1)
          BY <4>1
        <5>2. Used(l) > 0 /\ Used(l) \in Nat
          BY <3>3, <5>1 DEF IInv, OwedIsStored
        <5>3. CASE l # lidar_id
          BY <3>3, <5>1, <5>2, <5>3
        <5>4. CASE l = lidar_id
          <6>1. Len(queue'[l]) = Len(queue[l]) - 1
            BY <2>1, <3>3, <5>4
          <6>2. \A n \in Nat : n > 0 /\ n # 1 => n - 1 > 0
            OBVIOUS
          <6>3. Len(queue[l]) - 1 > 0
            BY <5>1, <5>2, <5>4, <6>2
          <6> QED
            BY <6>1, <6>3
        <5> QED
          BY <5>3, <5>4
      <4> QED
        BY <2>1, <4>1, <4>2 DEF IInv, OwedIsStored
    <3>6. PollsSampling' /\ SignalsAtZero'
      BY <2>1 DEF IInv, PollsSampling, SignalsAtZero
    <3>7. NoLostWakeup'
      BY <2>1, <3>1 DEF IInv, NoLostWakeup, Signalling, StillToVisit
    <3> QED
      BY <3>4, <3>5, <3>6, <3>7 DEF IInv
  <2> QED
    BY <2>2, <2>3
<1>7. CASE PublishPclMsg
  <2>1. TypeOK' /\ OwedIsStored' /\ PollsSampling' /\ SignalsAtZero'
    BY <1>7 DEF PublishPclMsg, IInv, TypeOK, OwedIsStored, PollsSampling, SignalsAtZero
  <2>2. NoLostWakeup'
    BY <1>7 DEF PublishPclMsg, IInv, NoLostWakeup, Signalling, StillToVisit
  <2> QED
    BY <2>1, <2>2 DEF IInv
<1>6. CASE EndRound
  <2>1. TypeOK' /\ OwedIsStored' /\ PollsSampling' /\ SignalsAtZero'
    BY <1>6 DEF EndRound, IInv, TypeOK, OwedIsStored, PollsSampling, SignalsAtZero
  <2>2. NoLostWakeup'
    BY <1>6 DEF EndRound, IInv, NoLostWakeup, Signalling, StillToVisit
  <2> QED
    BY <2>1, <2>2 DEF IInv
<1> QED
  BY <1>1, <1>2, <1>3, <1>4, <1>5, <1>6, <1>7 DEF Poller

(* The configuration of a lidar and the destructor of the node.            *)
LEMMA OthersKeepInv ==
  ASSUME IInv, (\E l \in Lidars : StartSampling(l)) \/ RequestExit \/ SetExitSignal
  PROVE  IInv'
<1> USE DEF producerVars, pollerVars, nodeVars, configVars, historyVars, storeVars, frameVars, Used
<1>1. CASE \E l \in Lidars : StartSampling(l)
  <2> PICK l \in Lidars : StartSampling(l)
    BY <1>1
  <2>1. TypeOK' /\ OwedIsStored' /\ PollsSampling' /\ SignalsAtZero'
    BY DEF StartSampling, IInv, TypeOK, OwedIsStored, PollsSampling, SignalsAtZero
  <2>2. NoLostWakeup'
    BY DEF StartSampling, IInv, NoLostWakeup, Signalling, StillToVisit
  <2> QED
    BY <2>1, <2>2 DEF IInv
<1>2. CASE RequestExit
  BY <1>2 DEF RequestExit, IInv, TypeOK, OwedIsStored, PollsSampling, SignalsAtZero, NoLostWakeup
<1>3. CASE SetExitSignal
  BY <1>3 DEF SetExitSignal, IInv, TypeOK, OwedIsStored, PollsSampling, SignalsAtZero,
              NoLostWakeup, Signalling, StillToVisit
<1> QED
  BY <1>1, <1>2, <1>3

LEMMA StutterKeepsInv ==
  ASSUME IInv, UNCHANGED vars
  PROVE  IInv'
  BY DEF vars, producerVars, pollerVars, nodeVars, configVars, historyVars, storeVars, frameVars,
         Used, IInv, TypeOK, OwedIsStored,
         PollsSampling, SignalsAtZero, NoLostWakeup, Signalling, StillToVisit

(* The strengthening that the two theorems below come from.                *)
THEOREM Inductive == Spec => []IInv
<1>1. IInv /\ [Next]_vars => IInv'
  BY ProducerKeepsInv, PollerKeepsInv, OthersKeepInv, StutterKeepsInv DEF Next
<1> QED
  BY InitInv, <1>1, PTL DEF Spec

(* Type correctness of the path from PushLidarData to the poll thread; in  *)
(* particular the count of the semaphore, which PushLidarData reads        *)
(* without the mutex of Signal and Wait, never goes above one.             *)
THEOREM TypeCorrect == Spec => []TypeOK
<1>1. IInv => TypeOK
  BY DEF IInv
<1> QED
  BY Inductive, <1>1, PTL

(* No frame stored for a sampling lidar is left behind without a wake-up   *)
(* on the way: the unlocked GetCount in PushLidarData is safe for one      *)
(* storing and one polling thread.                                         *)
THEOREM NoWakeupIsLost == Spec => []NoLostWakeup
<1>1. IInv => NoLostWakeup
  BY DEF IInv
<1> QED
  BY Inductive, <1>1, PTL

-----------------------------------------------------------------------------
(* What PublishedInOrder rests on: a queue rises, to the newest frame of   *)
(* its lidar at most, and what the lidar's topic has had is older.         *)
Rises(q, top) ==
  /\ \A i, j \in 1..Len(q) : i < j => q[i] < q[j]
  /\ \A i \in 1..Len(q) : q[i] <= top
Older(t, q, top) == t <= top /\ \A i \in 1..Len(q) : t < q[i]

Rising == \A l \in Lidars : Rises(queue[l], newest[l])
OlderIsOut == OneLidarEach => \A l \in Lidars : Older(published[Topic(l)], queue[l], newest[l])

(* The three things a step can do to queues, stamps and topics.            *)
Untouched == UNCHANGED <<queue, newest, published>>
Stores(l) ==
  /\ newest' = [newest EXCEPT ![l] = newest[l] + 1] /\ published' = published
  /\ \/ queue' = queue
     \/ queue' = [queue EXCEPT ![l] = Append(queue[l], newest[l] + 1)]
Takes(l) ==
  /\ newest' = newest /\ Len(queue[l]) # 0
  /\ queue' = [queue EXCEPT ![l] = Tail(queue[l])]
  /\ published' = [published EXCEPT ![Topic(l)] = Head(queue[l])]

LEMMA StepKinds ==
  ASSUME IInv, [Next]_vars
  PROVE  Untouched \/ \E l \in Lidars : Stores(l) \/ Takes(l)
<1> USE DEF Untouched, Stores, Takes, storeVars, frameVars, producerVars
<1>1. CASE Store
  <2> PICK l \in Lidars : Push(l) \/ StorageImuData(l)
    BY <1>1 DEF Store
  <2>1. newest' = [newest EXCEPT ![l] = newest[l] + 1] /\ published' = published
    BY DEF Push, StorageImuData, Receive
  <2>2. queue' = queue \/ queue' = [queue EXCEPT ![l] = Append(queue[l], newest[l] + 1)]
    BY DEF Push, StorageImuData, ImuPush, Stored
  <2> QED
    BY <2>1, <2>2
<1>2. CASE Drain \/ PublishImuData
  <2>1. lidar_id \in Lidars /\ newest' = newest
    BY <1>2 DEF Drain, PublishImuData, IInv, PollsSampling
  <2>2. CASE Used(lidar_id) = 0
    BY <1>2, <2>1, <2>2 DEF Drain, PublishImuData, ImuPop, Used
  <2>3. CASE Used(lidar_id) # 0
    BY <1>2, <2>1, <2>3 DEF Drain, PublishImuData, ImuPop, Pop, Publish, Message, Used
  <2> QED
    BY <2>2, <2>3
<1>3. CASE CheckStored \/ ReadCount \/ Signal
  BY <1>3 DEF CheckStored, ReadCount, Signal
<1>4. CASE BeginRound \/ Wait \/ Visit \/ Poll \/ PublishPclMsg \/ EndRound
  BY <1>4 DEF BeginRound, Wait, Visit, Poll, PublishPclMsg, EndRound
<1>5. CASE (\E l \in Lidars : StartSampling(l)) \/ RequestExit \/ SetExitSignal
  BY <1>5 DEF StartSampling, RequestExit, SetExitSignal
<1>6. CASE UNCHANGED vars
  BY <1>6 DEF vars
<1> QED
  BY <1>1, <1>2, <1>3, <1>4, <1>5, <1>6 DEF Next, Producer, Poller

(* A lidar that shares its topic with no other is the only one to write.   *)
LEMMA TopicsDiffer ==
  /\ \A l \in Lidars : Topic(l) \in Topics
  /\ OneLidarEach => \A k, l \in Lidars : k # l => Topic(k) # Topic(l)
<1>1. LidarCount = 1 => \A k, l \in Lidars : k = l
  BY DEF Lidars
<1> QED
  BY <1>1 DEF Topic, Topics, OneLidarEach

(* A rising queue goes on rising when a newer stamp joins it, and when its *)
(* first one leaves, which is older than all that stay.                    *)
LEMMA AppendRises ==
  ASSUME NEW q \in Seq(Nat), NEW top \in Nat, Rises(q, top)
  PROVE  Rises(Append(q, top + 1), top + 1)
<1>1. /\ Len(Append(q, top + 1)) = Len(q) + 1 /\ Len(q) \in Nat
      /\ Append(q, top + 1)[Len(q) + 1] = top + 1
      /\ \A i \in 1..Len(q) : Append(q, top + 1)[i] = q[i] /\ q[i] \in Nat
  OBVIOUS
<1>2. \A i \in 1..Len(q) + 1 : i \in 1..Len(q) \/ i = Len(q) + 1
  BY <1>1
<1>3. \A i, j \in 1..Len(q) + 1 : i < j => i \in 1..Len(q)
  BY <1>1
<1> HIDE DEF Rises
<1>4. /\ \A i, j \in 1..Len(q) : i < j => q[i] < q[j]
      /\ \A i \in 1..Len(q) : q[i] <= top
  BY DEF Rises
<1>5. \A i \in 1..Len(q) + 1 : Append(q, top + 1)[i] <= top + 1
  BY <1>1, <1>2, <1>4
<1>6. \A i, j \in 1..Len(q) + 1 : i < j => Append(q, top + 1)[i] < Append(q, top + 1)[j]
  BY <1>1, <1>2, <1>3, <1>4
<1> QED
  BY <1>1, <1>5, <1>6 DEF Rises

LEMMA TailRises ==
  ASSUME NEW q \in Seq(Nat), NEW top \in Nat, Rises(q, top), Len(q) # 0
  PROVE  Rises(Tail(q), top) /\ Older(Head(q), Tail(q), top)
<1>1. /\ Len(Tail(q)) = Len(q) - 1 /\ Len(q) \in Nat /\ Head(q) = q[1] /\ 1 \in 1..Len(q)
      /\ \A i \in 1..Len(q) - 1 : Tail(q)[i] = q[i + 1] /\ i + 1 \in 1..Len(q) /\ 1 < i + 1
  OBVIOUS
<1>2. /\ \A i, j \in 1..Len(q) : i < j => q[i] < q[j]
      /\ \A i \in 1..Len(q) : q[i] <= top
  BY DEF Rises
<1>3. \A i, j \in 1..Len(q) - 1 : i < j => i + 1 < j + 1
  OBVIOUS
<1>4. Rises(Tail(q), top)
  BY <1>1, <1>2, <1>3 DEF Rises
<1>5. Older(Head(q), Tail(q), top)
  BY <1>1, <1>2 DEF Older
<1> QED
  BY <1>4, <1>5

(* Topics go up when frames are taken, and nothing else writes them.       *)
LEMMA OrderIsKept ==
  ASSUME IInv, Rising, OlderIsOut, [Next]_vars
  PROVE  /\ Rising' /\ OlderIsOut'
         /\ OneLidarEach =>
              \A t \in Topics : published'[t] # published[t] => published'[t] > published[t]
<1> USE TopicsDiffer
<1>1. /\ queue \in [Lidars -> Seq(Nat)] /\ newest \in [Lidars -> Nat]
      /\ published \in [Topics -> Nat]
  BY DEF IInv, TypeOK
<1>2. CASE Untouched
  BY <1>2 DEF Untouched, Rising, OlderIsOut, OneLidarEach, Topic
<1>3. ASSUME NEW l \in Lidars, Stores(l)
      PROVE  Rising' /\ OlderIsOut' /\ published' = published
  <2>1. /\ Rises(queue[l], newest[l]) /\ queue[l] \in Seq(Nat) /\ newest[l] \in Nat
        /\ published[Topic(l)] \in Nat
    BY <1>1 DEF Rising
  <2>2. /\ newest'[l] = newest[l] + 1 /\ published' = published
        /\ \A k \in Lidars : k # l => newest'[k] = newest[k] /\ queue'[k] = queue[k]
        /\ queue'[l] = queue[l] \/ queue'[l] = Append(queue[l], newest[l] + 1)
    BY <1>1, <1>3 DEF Stores
  <2>3. Rises(queue[l], newest[l] + 1)
    <3>1. \A i \in 1..Len(queue[l]) : queue[l][i] \in Nat
      BY <2>1
    <3> QED
      BY <2>1, <3>1 DEF Rises
  <2>4. Rises(Append(queue[l], newest[l] + 1), newest[l] + 1)
    BY <2>1, AppendRises
  <2>5. Rising'
    BY <2>2, <2>3, <2>4 DEF Rising
  <2>6. ASSUME OneLidarEach
        PROVE  Older(published[Topic(l)], queue'[l], newest[l] + 1)
    <3>1. Older(published[Topic(l)], queue[l], newest[l])
      BY <2>6 DEF OlderIsOut
    <3>2. CASE queue'[l] = queue[l]
      BY <2>1, <3>1, <3>2 DEF Older
    <3>3. CASE queue'[l] = Append(queue[l], newest[l] + 1)
      <4>1. /\ Len(queue'[l]) = Len(queue[l]) + 1 /\ Len(queue[l]) \in Nat
            /\ queue'[l][Len(queue[l]) + 1] = newest[l] + 1
            /\ \A i \in 1..Len(queue[l]) : queue'[l][i] = queue[l][i]
        BY <2>1, <3>3
      <4>2. \A i \in 1..Len(queue[l]) + 1 : i \in 1..Len(queue[l]) \/ i = Len(queue[l]) + 1
        BY <4>1
      <4>3. \A i \in 1..Len(queue'[l]) : published[Topic(l)] < queue'[l][i]
        BY <2>1, <3>1, <4>1, <4>2 DEF Older
      <4> QED
        BY <2>1, <3>1, <4>3 DEF Older
    <3> QED
      BY <2>2, <3>2, <3>3
  <2>7. OlderIsOut'
    BY <2>2, <2>6 DEF OlderIsOut, OneLidarEach, Topic
  <2> QED
    BY <2>2, <2>5, <2>7
<1>4. ASSUME NEW l \in Lidars, Takes(l)
      PROVE  /\ Rising' /\ OlderIsOut'
             /\ OneLidarEach =>
                  \A t \in Topics : published'[t] # published[t] => published'[t] > published[t]
  <2>1. /\ Rises(queue[l], newest[l]) /\ queue[l] \in Seq(Nat) /\ newest[l] \in Nat
        /\ Len(queue[l]) # 0 /\ Topic(l) \in Topics
    BY <1>1, <1>4 DEF Rising, Takes
  <2>2. /\ newest' = newest /\ queue'[l] = Tail(queue[l])
        /\ published'[Topic(l)] = Head(queue[l])
        /\ \A k \in Lidars : k # l => queue'[k] = queue[k]
        /\ \A t \in Topics : t # Topic(l) => published'[t] = published[t]
    BY <1>1, <1>4 DEF Takes
  <2>3. Rises(Tail(queue[l]), newest[l]) /\ Older(Head(queue[l]), Tail(queue[l]), newest[l])
    BY <2>1, TailRises
  <2>4. Rising'
    BY <2>2, <2>3 DEF Rising
  <2>5. ASSUME OneLidarEach, NEW k \in Lidars
        PROVE  Older(published'[Topic(k)], queue'[k], newest'[k])
    <3>1. CASE k = l
      BY <2>2, <2>3, <3>1
    <3>2. CASE k # l
      BY <2>2, <2>5, <3>2 DEF OlderIsOut
    <3> QED
      BY <3>1, <3>2
  <2>6. OlderIsOut'
    BY <2>5 DEF OlderIsOut, OneLidarEach, Topic
  <2>7. ASSUME OneLidarEach
        PROVE  published'[Topic(l)] > published[Topic(l)]
    <3>1. published[Topic(l)] < queue[l][1]
      BY <2>1, <2>7 DEF OlderIsOut, Older
    <3> QED
      BY <1>1, <2>1, <2>2, <3>1
  <2> QED
    BY <2>2, <2>4, <2>6, <2>7
<1> QED
  BY <1>2, <1>3, <1>4, StepKinds DEF Untouched

(* Who reads a topic of one lidar never gets a stamp twice and never one   *)
(* that goes back, whatever the queues dropped and whenever the lidars     *)
(* came up: GetCurrentPublisher, the queues and the two loops of           *)
(* PollingLidarPointCloudData keep the order in which frames came.         *)
THEOREM MessagesAscend == Spec => PublishedInOrder
<1> DEFINE Ascends ==
      OneLidarEach =>
        \A t \in Topics : published'[t] # published[t] => published'[t] > published[t]
<1>1. Init => Rising /\ OlderIsOut
  <2> SUFFICES ASSUME Init
               PROVE  Rising /\ OlderIsOut
    OBVIOUS
  <2>1. \A l \in Lidars : queue[l] = <<>> /\ newest[l] = 0 /\ published[Topic(l)] = 0
    BY TopicsDiffer DEF Init
  <2> QED
    BY <2>1 DEF Rising, OlderIsOut, Rises, Older
<1>2. IInv /\ (Rising /\ OlderIsOut) /\ [Next]_vars => (Rising /\ OlderIsOut)' /\ Ascends
  BY OrderIsKept
<1> QED
  BY <1>1, <1>2, Inductive, PTL DEF Spec, PublishedInOrder

-----------------------------------------------------------------------------
(***************************************************************************)
(* The ring behind each queue, for every set of packets, size of the ring  *)
(* and width of the indices: the two threads keep to different slots, and  *)
(* the ring implements the bounded channel.                                *)
(***************************************************************************)

(* Division with remainder.                                                *)
LEMMA Remainder ==
  ASSUME NEW m \in Nat \ {0}, NEW a \in Int, NEW q \in Int, NEW r \in 0..m-1, a = q * m + r
  PROVE  a % m = r
  OBVIOUS

LEMMA Quotient ==
  ASSUME NEW m \in Nat \ {0}, NEW a \in Int
  PROVE  a % m \in 0..m-1 /\ \E q \in Int : a = q * m + (a % m)
<1>1. a % m \in 0..m-1 /\ a \div m \in Int /\ a = (a \div m) * m + (a % m)
  OBVIOUS
<1> QED
  BY <1>1

LEMMA ModPlus ==
  ASSUME NEW m \in Nat \ {0}, NEW a \in Int, NEW k \in Int
  PROVE  (a + k * m) % m = a % m
<1>1. PICK q \in Int : a = q * m + (a % m)
  BY Quotient
<1>2. a + k * m = (q + k) * m + (a % m)
  BY <1>1, Quotient
<1>3. q + k \in Int /\ a + k * m \in Int /\ a % m \in 0..m-1
  BY <1>1, Quotient
<1> QED
  BY <1>2, <1>3, Remainder

LEMMA ModDiff ==
  ASSUME NEW m \in Nat \ {0}, NEW a \in Int, NEW b \in Int, a % m = b % m
  PROVE  (a - b) % m = 0
  OBVIOUS

-----------------------------------------------------------------------------
(* The indices: what is in use, what comes next, which slot.               *)
LEMMA UsedIs ==
  ASSUME NEW m \in Nat \ {0}, NEW a \in 0..m-1, NEW b \in 0..m-1
  PROVE  (a - b) % m = IF b <= a THEN a - b ELSE a - b + m
<1>1. CASE b <= a
  BY <1>1
<1>2. CASE ~(b <= a)
  <2>1. a - b = (-1) * m + (a - b + m) /\ a - b + m \in 0..m-1
    BY <1>2
  <2> QED
    BY <1>2, <2>1, Remainder
<1> QED
  BY <1>1, <1>2

LEMMA NextIs ==
  ASSUME NEW m \in Nat \ {0}, NEW a \in 0..m-1
  PROVE  (a + 1) % m = IF a = m - 1 THEN 0 ELSE a + 1
<1>1. CASE a = m - 1
  <2>1. a + 1 = 1 * m + 0
    BY <1>1
  <2> QED
    BY <1>1, <2>1, Remainder
<1>2. CASE a # m - 1
  BY <1>2
<1> QED
  BY <1>1, <1>2

(* A full turn of the indices leads to the same slot, ...                  *)
LEMMA SlotWraps ==
  ASSUME NEW a \in Int
  PROVE  Slot(a) \in Slots /\ Slot(a + IndexMod) = Slot(a)
<1>1. PICK k \in Int : IndexMod = k * Size
  <2>1. IndexMod \in Int /\ Size \in Nat \ {0} /\ IndexMod % Size = 0
    BY RingAssumption
  <2>2. \E k \in Int : IndexMod = k * Size + (IndexMod % Size)
    BY <2>1, Quotient
  <2> QED
    BY <2>1, <2>2
<1>2. Slot(a + IndexMod) = Slot(a)
  BY <1>1, ModPlus, RingAssumption DEF Slot
<1> QED
  BY <1>2, Quotient, RingAssumption DEF Slot, Slots

(* ... and less than a turn of the ring to another one.                    *)
LEMMA SlotsApart ==
  ASSUME NEW a \in Int, NEW d \in 1..Size-1
  PROVE  Slot(a + d) # Slot(a)
<1> SUFFICES ASSUME Slot(a + d) = Slot(a) PROVE FALSE
  OBVIOUS
<1>1. ((a + d) - a) % Size = 0
  <2>1. (a + d) % Size = a % Size /\ a + d \in Int /\ Size \in Nat \ {0}
    BY RingAssumption DEF Slot
  <2> QED
    BY <2>1, ModDiff
<1>2. (a + d) - a = d
  BY RingAssumption
<1>3. d % Size = d
  BY RingAssumption
<1> QED
  BY <1>1, <1>2, <1>3

(* Where the writer is, from where the reader is.                          *)
LEMMA SlotOfWrite ==
  ASSUME rd_idx \in 0..IndexMod-1, wr_idx \in 0..IndexMod-1
  PROVE  QueueUsedSize \in 0..IndexMod-1 /\ Slot(wr_idx) = Slot(rd_idx + QueueUsedSize)
<1>1. IndexMod \in Nat \ {0}
  BY RingAssumption
<1>2. QueueUsedSize = IF rd_idx <= wr_idx THEN wr_idx - rd_idx ELSE wr_idx - rd_idx + IndexMod
  BY <1>1, UsedIs DEF QueueUsedSize
<1>3. CASE rd_idx <= wr_idx
  <2>1. rd_idx + QueueUsedSize = wr_idx
    BY <1>1, <1>2, <1>3
  <2> QED
    BY <1>1, <1>2, <1>3, <2>1
<1>4. CASE ~(rd_idx <= wr_idx)
  <2>1. rd_idx + QueueUsedSize = wr_idx + IndexMod /\ wr_idx \in Int
    BY <1>1, <1>2, <1>4
  <2> QED
    BY <1>1, <1>2, <1>4, <2>1, SlotWraps
<1> QED
  BY <1>3, <1>4

(* Moving an index: the slots seen from it move along.                     *)
LEMMA SlotOfNext ==
  ASSUME NEW a \in 0..IndexMod-1, NEW j \in Int
  PROVE  NextIndex(a) \in 0..IndexMod-1 /\ Slot(NextIndex(a) + j) = Slot(a + 1 + j)
<1>1. IndexMod \in Nat \ {0}
  BY RingAssumption
<1>2. NextIndex(a) = IF a = IndexMod - 1 THEN 0 ELSE a + 1
  BY <1>1, NextIs DEF NextIndex
<1>3. CASE a = IndexMod - 1
  <2>1. a + 1 + j = j + IndexMod /\ NextIndex(a) + j = j
    BY <1>1, <1>2, <1>3
  <2> QED
    BY <1>1, <1>2, <1>3, <2>1, SlotWraps
<1>4. CASE a # IndexMod - 1
  BY <1>1, <1>2, <1>4
<1> QED
  BY <1>3, <1>4

(* A slot of the ring that is in use is not the one that is written.       *)
LEMMA InUseApart ==
  ASSUME rd_idx \in 0..IndexMod-1, wr_idx \in 0..IndexMod-1,
         QueueUsedSize < Size, NEW k \in 1..QueueUsedSize
  PROVE  Slot(rd_idx + k - 1) # Slot(wr_idx)
<1> DEFINE u == QueueUsedSize
<1>1. u \in 0..IndexMod-1 /\ Slot(wr_idx) = Slot(rd_idx + u)
  BY SlotOfWrite
<1>2. /\ rd_idx + k - 1 \in Int /\ u - k + 1 \in 1..Size-1
      /\ (rd_idx + k - 1) + (u - k + 1) = rd_idx + u
  BY <1>1, RingAssumption
<1> QED
  BY <1>1, <1>2, SlotsApart

-----------------------------------------------------------------------------
(* The writer has a ring before it writes, room while it writes, and has   *)
(* written what it was given; the reader has something to copy, and has    *)
(* copied what is there.                                                   *)
Begun ==
  /\ storage = None => writer \in {"idle", "init"} /\ reader = "idle"
  /\ writer = "init" => storage = None
  /\ writer # "idle" => data \in Packets

Room ==
  /\ QueueUsedSize <= Size
  /\ writer \in {"writing", "written"} => QueueUsedSize < Size
  /\ reader \in {"copying", "copied"} => QueueUsedSize > 0

Written ==
  /\ writer = "written" => storage[Slot(wr_idx)] = data
  /\ reader = "copied" => copy = storage[Slot(rd_idx)]

RingInv == RingTypes /\ Begun /\ Room /\ Written

(* Room is what keeps the two apart.                                       *)
LEMMA RoomKeepsApart == RingInv => NeverSameSlot
<1> SUFFICES ASSUME RingInv, writer \in {"writing", "written"}, reader \in {"copying", "copied"}
             PROVE  Slot(rd_idx) # Slot(wr_idx)
  BY DEF NeverSameSlot
<1>1. rd_idx \in 0..IndexMod-1 /\ wr_idx \in 0..IndexMod-1
  BY DEF RingInv, RingTypes
<1>2. QueueUsedSize < Size /\ QueueUsedSize > 0 /\ QueueUsedSize \in 0..IndexMod-1
  BY <1>1, SlotOfWrite DEF RingInv, Room
<1>3. 1 \in 1..QueueUsedSize /\ rd_idx + 1 - 1 = rd_idx
  BY <1>1, <1>2, RingAssumption
<1> QED
  BY <1>1, <1>2, <1>3, InUseApart

-----------------------------------------------------------------------------
(* One more in use, and one less.                                          *)
LEMMA UsedMoves ==
  ASSUME NEW a \in 0..IndexMod-1, NEW b \in 0..IndexMod-1
  PROVE  /\ (a - b) % IndexMod < IndexMod - 1
              => (NextIndex(a) - b) % IndexMod = ((a - b) % IndexMod) + 1
         /\ (a - b) % IndexMod > 0
              => (a - NextIndex(b)) % IndexMod = ((a - b) % IndexMod) - 1
<1> DEFINE M == IndexMod
<1>1. M \in Nat \ {0}
  BY RingAssumption
<1>2. /\ NextIndex(a) \in 0..M-1 /\ NextIndex(a) = IF a = M - 1 THEN 0 ELSE a + 1
      /\ NextIndex(b) \in 0..M-1 /\ NextIndex(b) = IF b = M - 1 THEN 0 ELSE b + 1
  <2> HIDE DEF M
  <2>1. \A c \in 0..M-1 : (c + 1) % M = (IF c = M - 1 THEN 0 ELSE c + 1)
    BY <1>1, NextIs
  <2> QED
    BY <1>1, <2>1 DEF NextIndex, M
<1> HIDE DEF M
<1>3. \A c, d \in 0..M-1 : (c - d) % M = IF d <= c THEN c - d ELSE c - d + M
  BY <1>1, UsedIs
<1>4. /\ (a - b) % M = IF b <= a THEN a - b ELSE a - b + M
      /\ (NextIndex(a) - b) % M = IF b <= NextIndex(a) THEN NextIndex(a) - b
                                  ELSE NextIndex(a) - b + M
      /\ (a - NextIndex(b)) % M = IF NextIndex(b) <= a THEN a - NextIndex(b)
                                  ELSE a - NextIndex(b) + M
  BY <1>2, <1>3 DEF M
<1>5. a \in 0..M-1 /\ b \in 0..M-1
  BY DEF M
<1>6. /\ (a - b) % M < M - 1 => (NextIndex(a) - b) % M = ((a - b) % M) + 1
      /\ (a - b) % M > 0 => (a - NextIndex(b)) % M = ((a - b) % M) - 1
  BY <1>1, <1>2, <1>4, <1>5
<1> QED
  BY <1>6 DEF M

LEMMA RingInitInv == RingInit => RingInv
<1> SUFFICES ASSUME RingInit PROVE RingInv
  OBVIOUS
<1> USE QueueAssumption, RingAssumption DEF RingInit
<1>1. RingTypes
  BY DEF RingTypes
<1>2. QueueUsedSize = 0
  BY UsedIs DEF QueueUsedSize
<1> QED
  BY <1>1, <1>2 DEF RingInv, Begun, Room, Written

(* The storing thread.                                                     *)
LEMMA WriterKeepsInv ==
  ASSUME RingInv, Writer
  PROVE  RingInv'
<1> USE DEF readerVars
<1>1. CASE \E p \in Packets : PushLidarData(p)
  <2> PICK p \in Packets : PushLidarData(p)
    BY <1>1
  <2> USE DEF PushLidarData
  <2>1. RingTypes' /\ QueueUsedSize' = QueueUsedSize
    BY DEF RingInv, RingTypes, QueueUsedSize
  <2> QED
    BY <2>1 DEF RingInv, Begun, Room, Written, Slot
<1>2. CASE InitQueue
  <2> USE DEF InitQueue
  <2>1. storage' \in [Slots -> Packets \cup {Torn}] /\ storage' # None
    BY <1>2, RingAssumption
  <2>2. RingTypes'
    BY <1>2, <2>1, RingAssumption DEF RingInv, RingTypes
  <2>3. QueueUsedSize' = 0
    BY <1>2, UsedIs, RingAssumption DEF QueueUsedSize
  <2>4. storage = None /\ reader = "idle" /\ data \in Packets
    BY <1>2 DEF RingInv, Begun
  <2> QED
    BY <1>2, <2>1, <2>2, <2>3, <2>4, RingAssumption DEF RingInv, Begun, Room, Written
<1>3. CASE CheckFull
  <2> USE DEF CheckFull
  <2>1. rd_idx \in 0..IndexMod-1 /\ wr_idx \in 0..IndexMod-1 /\ storage # None
    BY <1>3 DEF RingInv, RingTypes, Begun
  <2>2. QueueUsedSize' = QueueUsedSize /\ QueueUsedSize \in 0..IndexMod-1
    BY <1>3, <2>1, SlotOfWrite DEF QueueUsedSize
  <2>3. CASE QueueIsFull
    BY <1>3, <2>2, <2>3 DEF RingInv, RingTypes, Begun, Room, Written, Slot
  <2>4. CASE ~QueueIsFull
    <3>1. /\ storage' = [storage EXCEPT ![Slot(wr_idx)] = Torn]
          /\ storage \in [Slots -> Packets \cup {Torn}]
      BY <1>3, <2>1, <2>4 DEF RingInv, RingTypes
    <3>2. storage' \in [Slots -> Packets \cup {Torn}] /\ storage' # None
      BY <3>1, RingAssumption
    <3>3. QueueUsedSize < Size
      BY <2>2, <2>4, RingAssumption DEF QueueIsFull
    <3>4. RingTypes'
      BY <1>3, <2>4, <3>2 DEF RingInv, RingTypes
    <3>5. reader = "copied" => Slot(rd_idx) # Slot(wr_idx)
      <4> SUFFICES ASSUME reader = "copied" PROVE Slot(rd_idx) # Slot(wr_idx)
        OBVIOUS
      <4>1. 1 \in 1..QueueUsedSize /\ rd_idx + 1 - 1 = rd_idx
        BY <2>1, <2>2, RingAssumption DEF RingInv, Room
      <4> QED
        BY <2>1, <3>3, <4>1, InUseApart
    <3>6. Slot(rd_idx) \in Slots
      BY <2>1, SlotWraps, RingAssumption
    <3>7. Written'
      BY <1>3, <2>4, <3>1, <3>5, <3>6 DEF RingInv, Written, Slot
    <3> QED
      BY <1>3, <2>2, <2>4, <3>2, <3>3, <3>4, <3>7 DEF RingInv, Begun, Room
  <2> QED
    BY <2>3, <2>4
<1>4. CASE FinishWrite
  <2> USE DEF FinishWrite
  <2>1. /\ rd_idx \in 0..IndexMod-1 /\ wr_idx \in 0..IndexMod-1
        /\ storage \in [Slots -> Packets \cup {Torn}] /\ data \in Packets
    BY <1>4 DEF RingInv, RingTypes, Begun
  <2>2. storage' \in [Slots -> Packets \cup {Torn}] /\ storage' # None
    BY <1>4, <2>1, RingAssumption
  <2>3. QueueUsedSize' = QueueUsedSize
    BY <1>4 DEF QueueUsedSize
  <2>4. RingTypes'
    BY <1>4, <2>2 DEF RingInv, RingTypes
  <2>5. reader = "copied" => Slot(rd_idx) # Slot(wr_idx)
    BY <1>4, RoomKeepsApart DEF NeverSameSlot
  <2>6. Slot(rd_idx) \in Slots /\ Slot(wr_idx) \in Slots
    BY <2>1, SlotWraps, RingAssumption
  <2>7. Written'
    BY <1>4, <2>1, <2>5, <2>6 DEF RingInv, Written, Slot
  <2> QED
    BY <1>4, <2>2, <2>3, <2>4, <2>7 DEF RingInv, Begun, Room
<1>5. CASE AdvanceWrite
  <2> USE DEF AdvanceWrite
  <2>1. /\ rd_idx \in 0..IndexMod-1 /\ wr_idx \in 0..IndexMod-1
        /\ QueueUsedSize \in 0..IndexMod-1 /\ QueueUsedSize < Size
    BY <1>5, SlotOfWrite DEF RingInv, RingTypes, Room
  <2>2. NextIndex(wr_idx) \in 0..IndexMod-1
    BY <2>1, SlotOfNext
  <2>3. QueueUsedSize' = QueueUsedSize + 1
    BY <1>5, <2>1, UsedMoves, RingAssumption DEF QueueUsedSize
  <2>4. RingTypes'
    BY <1>5, <2>2 DEF RingInv, RingTypes
  <2>5. Room'
    BY <1>5, <2>1, <2>3, RingAssumption DEF RingInv, Room
  <2> QED
    BY <1>5, <2>4, <2>5 DEF RingInv, Begun, Written, Slot
<1> QED
  BY <1>1, <1>2, <1>3, <1>4, <1>5 DEF Writer

(* The polling thread.                                                     *)
LEMMA ReaderKeepsInv ==
  ASSUME RingInv, Reader
  PROVE  RingInv'
<1> USE DEF writerVars
<1>1. rd_idx \in 0..IndexMod-1 /\ wr_idx \in 0..IndexMod-1
  BY DEF RingInv, RingTypes
<1>2. QueueUsedSize \in 0..IndexMod-1
  BY <1>1, SlotOfWrite
<1>3. CASE BeginCopy
  <2>1. QueueUsedSize' = QueueUsedSize /\ RingTypes'
    BY <1>3 DEF BeginCopy, QueueUsedSize, RingInv, RingTypes
  <2>2. QueueUsedSize > 0
    <3>1. QueueUsedSize = IF rd_idx <= wr_idx THEN wr_idx - rd_idx
                          ELSE wr_idx - rd_idx + IndexMod
      BY <1>1, UsedIs, RingAssumption DEF QueueUsedSize
    <3> QED
      BY <1>1, <1>3, <3>1, RingAssumption DEF BeginCopy, QueueIsEmpty
  <2> QED
    BY <1>3, <2>1, <2>2 DEF BeginCopy, RingInv, Begun, Room, Written, Slot
<1>4. CASE FinishCopy
  <2>1. QueueUsedSize' = QueueUsedSize /\ storage # None
    BY <1>4 DEF FinishCopy, QueueUsedSize, RingInv, Begun
  <2>2. storage[Slot(rd_idx)] \in Packets \cup {Torn}
    BY <1>1, <2>1, SlotWraps, RingAssumption DEF RingInv, RingTypes
  <2>3. RingTypes'
    BY <1>4, <2>2 DEF FinishCopy, RingInv, RingTypes
  <2> QED
    BY <1>4, <2>1, <2>3 DEF FinishCopy, RingInv, Begun, Room, Written, Slot
<1>5. CASE QueuePopUpdate
  <2>1. QueueUsedSize' = QueueUsedSize - 1
    BY <1>1, <1>5, UsedMoves DEF QueuePopUpdate, QueueUsedSize, RingInv, Room
  <2>2. NextIndex(rd_idx) \in 0..IndexMod-1
    BY <1>1, SlotOfNext
  <2>3. RingTypes'
    BY <1>5, <2>2 DEF QueuePopUpdate, RingInv, RingTypes
  <2>4. Room'
    BY <1>2, <1>5, <2>1, RingAssumption DEF QueuePopUpdate, RingInv, Room
  <2> QED
    BY <1>5, <2>3, <2>4 DEF QueuePopUpdate, RingInv, Begun, Written, Slot
<1> QED
  BY <1>3, <1>4, <1>5 DEF Reader

(* The invariant holds however the two threads interleave.                 *)
THEOREM RingInductive == RingSpec => []RingInv
<1>1. RingInv /\ [RingNext]_ringVars => RingInv'
  <2> SUFFICES ASSUME RingInv, [RingNext]_ringVars PROVE RingInv'
    OBVIOUS
  <2>1. CASE Writer
    BY <2>1, WriterKeepsInv
  <2>2. CASE Reader
    BY <2>2, ReaderKeepsInv
  <2>3. CASE UNCHANGED ringVars
    BY <2>3 DEF ringVars, writerVars, readerVars, RingInv, RingTypes, Begun, Room, Written,
                QueueUsedSize, Slot
  <2> QED
    BY <2>1, <2>2, <2>3 DEF RingNext
<1> QED
  BY RingInitInv, <1>1, PTL DEF RingSpec

(* Every variable has its type; the indices stay within their width.       *)
THEOREM RingTyped == RingSpec => []RingTypes
<1>1. RingInv => RingTypes
  BY DEF RingInv
<1> QED
  BY RingInductive, <1>1, PTL

(* The two threads never work on the same slot, although no lock keeps     *)
(* them apart: QueueIsFull is looked at before a packet is written, and    *)
(* from then on the reader can only make more room.                        *)
THEOREM SlotsNeverShared == RingSpec => []NeverSameSlot
  BY RingInductive, RoomKeepsApart, PTL

-----------------------------------------------------------------------------
(* The ring as a channel.                                                  *)
Chan == IF storage = None THEN <<>> ELSE InRing

(* What is in use is a sequence.                                           *)
LEMMA StoredIsSeq ==
  ASSUME RingInv, storage # None
  PROVE  /\ InRing \in Seq(Packets \cup {Torn}) /\ Len(InRing) = QueueUsedSize
         /\ \A k \in 1..QueueUsedSize : InRing[k] = storage[Slot(rd_idx + k - 1)]
<1>1. QueueUsedSize \in Nat /\ rd_idx \in Int
  BY SlotOfWrite, RingAssumption DEF RingInv, RingTypes
<1>2. \A k \in 1..QueueUsedSize : storage[Slot(rd_idx + k - 1)] \in Packets \cup {Torn}
  <2> TAKE k \in 1..QueueUsedSize
  <2>1. Slot(rd_idx + k - 1) \in Slots
    BY <1>1, SlotWraps
  <2> QED
    BY <2>1 DEF RingInv, RingTypes
<1> QED
  BY <1>1, <1>2 DEF InRing

(* Writing into the free slot, and what changes no slot, leave the channel *)
(* as it is.                                                               *)
LEMMA WritesUnseen ==
  ASSUME RingInv, storage # None, storage' # None, UNCHANGED <<rd_idx, wr_idx>>,
         \/ storage' = storage
         \/ QueueUsedSize < Size /\ \E v : storage' = [storage EXCEPT ![Slot(wr_idx)] = v]
  PROVE  Chan' = Chan
<1>1. rd_idx \in 0..IndexMod-1 /\ wr_idx \in 0..IndexMod-1
  BY DEF RingInv, RingTypes
<1>2. QueueUsedSize' = QueueUsedSize /\ QueueUsedSize \in 0..IndexMod-1
  BY <1>1, SlotOfWrite DEF QueueUsedSize
<1>3. \A k \in 1..QueueUsedSize : storage'[Slot(rd_idx + k - 1)] = storage[Slot(rd_idx + k - 1)]
  <2> TAKE k \in 1..QueueUsedSize
  <2>1. CASE storage' = storage
    BY <2>1
  <2>2. CASE QueueUsedSize < Size /\ \E v : storage' = [storage EXCEPT ![Slot(wr_idx)] = v]
    <3>1. Slot(rd_idx + k - 1) # Slot(wr_idx)
      BY <1>1, <2>2, InUseApart
    <3>2. rd_idx + k - 1 \in Int
      BY <1>1, <1>2, RingAssumption
    <3>3. Slot(rd_idx + k - 1) \in Slots
      BY <3>2, SlotWraps
    <3>4. storage \in [Slots -> Packets \cup {Torn}]
      BY DEF RingInv, RingTypes
    <3> QED
      BY <2>2, <3>1, <3>3, <3>4
  <2> QED
    BY <2>1, <2>2
<1>4. InRing' = [k \in 1..QueueUsedSize |-> storage'[Slot(rd_idx + k - 1)]]
  BY <1>2 DEF InRing, Slot
<1> QED
  BY <1>3, <1>4 DEF Chan, InRing

(* Append and Tail, index by index.                                        *)
LEMMA AppendIs ==
  ASSUME NEW S, NEW s \in Seq(S), NEW e \in S
  PROVE  Append(s, e) = [k \in 1..Len(s) + 1 |-> IF k = Len(s) + 1 THEN e ELSE s[k]]
<1>1. Append(s, e) \in [1..Len(s) + 1 -> S] /\ Len(s) \in Nat
  BY AppendProperties, LenProperties
<1>2. ASSUME NEW k \in 1..Len(s) + 1
      PROVE  Append(s, e)[k] = IF k = Len(s) + 1 THEN e ELSE s[k]
  <2>1. CASE k = Len(s) + 1
    BY <2>1, AppendProperties
  <2>2. CASE k # Len(s) + 1
    <3>1. k \in 1..Len(s)
      BY <1>1, <2>2
    <3> QED
      BY <2>2, <3>1, AppendProperties
  <2> QED
    BY <2>1, <2>2
<1> QED
  BY <1>1, <1>2

LEMMA TailIs ==
  ASSUME NEW S, NEW s \in Seq(S), s # <<>>
  PROVE  Tail(s) = [k \in 1..Len(s) - 1 |-> s[k + 1]]
<1>1. Tail(s) \in [1..Len(s) - 1 -> S] /\ Len(s) \in Nat
  BY HeadTailProperties, LenProperties
<1> QED
  BY <1>1, HeadTailProperties

(* A packet is put in when the write index moves past it.                  *)
LEMMA AdvanceIsPut ==
  ASSUME RingInv, AdvanceWrite
  PROVE  Chan' = Append(Chan, data) /\ Len(Chan) < Size /\ delivered' = delivered
<1>1. /\ rd_idx \in 0..IndexMod-1 /\ wr_idx \in 0..IndexMod-1 /\ storage # None
      /\ QueueUsedSize \in 0..IndexMod-1 /\ QueueUsedSize < Size
      /\ storage' = storage /\ rd_idx' = rd_idx /\ wr_idx' = NextIndex(wr_idx)
      /\ delivered' = delivered /\ storage[Slot(wr_idx)] = data
  BY SlotOfWrite DEF AdvanceWrite, readerVars, RingInv, RingTypes, Begun, Room, Written
<1>2. QueueUsedSize' = QueueUsedSize + 1
  BY <1>1, UsedMoves, RingAssumption DEF QueueUsedSize
<1>3. storage[Slot(rd_idx + QueueUsedSize)] = data
  BY <1>1, SlotOfWrite
<1>4. Chan' = [k \in 1..QueueUsedSize + 1 |-> storage[Slot(rd_idx + k - 1)]]
  BY <1>1, <1>2 DEF Chan, InRing, Slot
<1>5. /\ Chan \in Seq(Packets \cup {Torn}) /\ Len(Chan) = QueueUsedSize
      /\ \A k \in 1..QueueUsedSize : Chan[k] = storage[Slot(rd_idx + k - 1)]
  BY <1>1, StoredIsSeq DEF Chan
<1>6. rd_idx + (QueueUsedSize + 1) - 1 = rd_idx + QueueUsedSize
  BY <1>1, RingAssumption
<1>7. Append(Chan, data) = [k \in 1..QueueUsedSize + 1 |-> storage[Slot(rd_idx + k - 1)]]
  <2> DEFINE u == QueueUsedSize
  <2>1. u \in Nat /\ Len(Chan) = u
    BY <1>1, <1>5, RingAssumption
  <2>2. Append(Chan, data) = [k \in 1..u + 1 |-> IF k = u + 1 THEN data ELSE Chan[k]]
    <3>1. data \in Packets \cup {Torn}
      BY DEF AdvanceWrite, RingInv, Begun
    <3>2. Chan \in Seq(Packets \cup {Torn})
      BY <1>5
    <3> HIDE DEF u
    <3>3. Append(Chan, data) =
            [k \in 1..Len(Chan) + 1 |-> IF k = Len(Chan) + 1 THEN data ELSE Chan[k]]
      BY ONLY <3>1, <3>2, AppendIs
    <3> QED
      BY <2>1, <3>3
  <2>3. \A k \in 1..u + 1 : (IF k = u + 1 THEN data ELSE Chan[k]) = storage[Slot(rd_idx + k - 1)]
    BY <1>3, <1>5, <1>6, <2>1
  <2> QED
    BY <2>2, <2>3
<1> QED
  BY <1>1, <1>4, <1>5, <1>7

(* The oldest packet is taken out when the read index moves past it.       *)
LEMMA PopIsTake ==
  ASSUME RingInv, QueuePopUpdate
  PROVE  Chan # <<>> /\ Chan' = Tail(Chan) /\ delivered' = Head(Chan)
<1>1. /\ rd_idx \in 0..IndexMod-1 /\ wr_idx \in 0..IndexMod-1 /\ storage # None
      /\ QueueUsedSize \in 0..IndexMod-1 /\ QueueUsedSize > 0
      /\ storage' = storage /\ rd_idx' = NextIndex(rd_idx) /\ wr_idx' = wr_idx
      /\ delivered' = copy /\ copy = storage[Slot(rd_idx)]
  BY SlotOfWrite DEF QueuePopUpdate, writerVars, RingInv, RingTypes, Begun, Room, Written
<1> DEFINE u == QueueUsedSize
<1>2. QueueUsedSize' = u - 1 /\ u - 1 \in Nat
  BY <1>1, UsedMoves, RingAssumption DEF QueueUsedSize
<1>3. /\ Chan \in Seq(Packets \cup {Torn}) /\ Len(Chan) = u
      /\ \A k \in 1..u : Chan[k] = storage[Slot(rd_idx + k - 1)]
  BY <1>1, StoredIsSeq DEF Chan
<1>4. Chan' = [k \in 1..u - 1 |-> storage[Slot(NextIndex(rd_idx) + k - 1)]]
  BY <1>1, <1>2 DEF Chan, InRing, Slot
<1>5. \A k \in 1..u - 1 : storage[Slot(NextIndex(rd_idx) + k - 1)] = Chan[k + 1]
  <2> TAKE k \in 1..u - 1
  <2>1. k - 1 \in Int /\ k + 1 \in 1..u
    BY <1>1, <1>2, RingAssumption
  <2>2. Slot(NextIndex(rd_idx) + (k - 1)) = Slot(rd_idx + 1 + (k - 1))
    BY <1>1, <2>1, SlotOfNext
  <2>3. /\ NextIndex(rd_idx) + (k - 1) = NextIndex(rd_idx) + k - 1
        /\ rd_idx + 1 + (k - 1) = rd_idx + (k + 1) - 1
    BY <1>1, <1>2, SlotOfNext, RingAssumption
  <2> QED
    BY <1>3, <2>1, <2>2, <2>3
<1>6. 1 \in 1..u /\ rd_idx + 1 - 1 = rd_idx
  BY <1>1, RingAssumption
<1>7. Head(Chan) = storage[Slot(rd_idx)] /\ Chan # <<>>
  BY <1>2, <1>3, <1>6
<1>8. Tail(Chan) = [k \in 1..u - 1 |-> Chan[k + 1]]
  BY <1>3, <1>7, TailIs
<1>9. Chan' = Tail(Chan)
  BY <1>4, <1>5, <1>8
<1> QED
  BY <1>1, <1>7, <1>9

(* Before the first packet there is no ring, and a new one is empty.       *)
LEMMA RingStartsEmpty ==
  ASSUME RingInv, InitQueue
  PROVE  Chan' = Chan /\ delivered' = delivered
<1>1. storage = None /\ storage' # None /\ rd_idx' = 0 /\ wr_idx' = 0 /\ delivered' = delivered
  BY RingAssumption DEF InitQueue, RingInv, Begun, readerVars
<1>2. QueueUsedSize' = 0
  BY <1>1, UsedIs, RingAssumption DEF QueueUsedSize
<1>3. InRing' = <<>>
  BY <1>2 DEF InRing
<1> QED
  BY <1>1, <1>3 DEF Chan

(* The lock-free ring is a first-in first-out channel of Size packets that *)
(* drops what does not fit, whatever the indices have wrapped to.          *)
THEOREM RingIsChannel == RingSpec => IsChannel
<1>1. RingInit => FIFO!Init
  BY DEF RingInit, FIFO!Init
<1>2. RingInv /\ [RingNext]_ringVars => [FIFO!Next]_<<Chan, delivered>>
  <2> SUFFICES ASSUME RingInv, [RingNext]_ringVars
               PROVE  FIFO!Next \/ (Chan' = Chan /\ delivered' = delivered)
    OBVIOUS
  <2>1. CASE UNCHANGED ringVars
    BY <2>1 DEF ringVars, readerVars, Chan, InRing, QueueUsedSize, Slot
  <2>2. CASE \E p \in Packets : PushLidarData(p)
    BY <2>2 DEF PushLidarData, readerVars, Chan, InRing, QueueUsedSize, Slot
  <2>3. CASE InitQueue
    BY <2>3, RingStartsEmpty
  <2>4. CASE CheckFull
    <3>1. storage' # None /\ storage # None
      BY <2>4, WriterKeepsInv DEF RingInv, Begun, CheckFull, Writer
    <3>2. QueueUsedSize \in Nat
      BY SlotOfWrite, RingAssumption DEF RingInv, RingTypes
    <3>3. CASE QueueIsFull
      BY <2>4, <3>1, <3>3, WritesUnseen DEF CheckFull, readerVars
    <3>4. CASE ~QueueIsFull
      <4>1. QueueUsedSize < Size
        BY <3>2, <3>4, RingAssumption DEF QueueIsFull
      <4>2. \E v : storage' = [storage EXCEPT ![Slot(wr_idx)] = v]
        BY <2>4, <3>4 DEF CheckFull
      <4> QED
        BY <2>4, <3>1, <4>1, <4>2, WritesUnseen DEF CheckFull, readerVars
    <3> QED
      BY <3>3, <3>4
  <2>5. CASE FinishWrite
    <3>1. storage' # None /\ storage # None /\ QueueUsedSize < Size
      BY <2>5, WriterKeepsInv DEF RingInv, Begun, Room, FinishWrite, Writer
    <3> QED
      BY <2>5, <3>1, WritesUnseen DEF FinishWrite, readerVars
  <2>6. CASE AdvanceWrite
    <3>1. data \in Packets
      BY <2>6 DEF AdvanceWrite, RingInv, Begun
    <3> QED
      BY <2>6, <3>1, AdvanceIsPut DEF FIFO!Next, FIFO!Put, Chan
  <2>7. CASE BeginCopy \/ FinishCopy
    BY <2>7 DEF BeginCopy, FinishCopy, writerVars, Chan, InRing, QueueUsedSize, Slot
  <2>8. CASE QueuePopUpdate
    BY <2>8, PopIsTake DEF FIFO!Next, FIFO!Take, Chan
  <2> QED
    BY <2>1, <2>2, <2>3, <2>4, <2>5, <2>6, <2>7, <2>8 DEF RingNext, Writer, Reader
<1> QED
  BY RingInductive, <1>1, <1>2, PTL DEF RingSpec, IsChannel, FIFO!Spec, Chan
=============================================================================
