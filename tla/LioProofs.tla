----------------------------- MODULE LioProofs -----------------------------
(***************************************************************************)
(* Proofs about LioSync and ImuProcess, for scans of any duration, any     *)
(* number of them waiting and any loss of IMU samples that leaves each     *)
(* scan one.  Every scan that waits has its time in the other deque.       *)
(* Until the clock jumps back the cloud that is registered is that of the  *)
(* scan in hand, and the filter is propagated from the end of one scan to  *)
(* the end of the next; every point of a scan is moved once in any case.   *)
(***************************************************************************)
EXTENDS ImuProps, FiniteSetTheorems, SequenceTheorems, TLAPS

(* The part of the types that the lidar side needs.                        *)
LidarTypes ==
  /\ lidar_buffer \in Seq(Scans)
  /\ time_buffer \in Seq(Times)
  /\ lidar_pushed \in BOOLEAN
  /\ meas = [lidar |-> meas.lidar, beg |-> meas.beg, imu |-> meas.imu]
  /\ last_timestamp_lidar \in Int /\ last_timestamp_imu \in Int
  /\ loops = 0

(* The scan that waits for its IMU samples is still at the front of the    *)
(* buffer.                                                                 *)
TakenIsFront ==
  lidar_pushed => /\ lidar_buffer # <<>>
                  /\ meas.lidar = Head(lidar_buffer)
                  /\ meas.beg = meas.lidar.stamp

(* What holds until the clock jumps back.                                  *)
IInv == LidarTypes /\ Aligned /\ TakenIsFront

-----------------------------------------------------------------------------
LEMMA InitInv == Init => IInv
<1> SUFFICES ASSUME Init
             PROVE  IInv
  OBVIOUS
<1>1. meas = [lidar |-> meas.lidar, beg |-> meas.beg, imu |-> meas.imu]
  BY DEF Init
<1>2. lidar_buffer \in Seq(Scans) /\ time_buffer \in Seq(Times)
  BY DEF Init
<1>3. last_timestamp_lidar \in Int /\ last_timestamp_imu \in Int
  BY SMT DEF Init
<1>4. lidar_pushed \in BOOLEAN
  BY DEF Init
<1>5. LidarTypes
  BY <1>1, <1>2, <1>3, <1>4 DEF Init, LidarTypes
<1>6. Aligned /\ TakenIsFront
  BY DEF Init, Aligned, TakenIsFront
<1> QED
  BY <1>5, <1>6 DEF IInv

(* Adding to the end leaves the front of a buffer and the pairing alone.   *)
LEMMA PclCbkKeepsInv ==
  ASSUME loops' = 0, IInv, NEW s \in Scans, PclCbk(s)
  PROVE  IInv'
<1> USE DEF IInv
<1>1. s.stamp \in Times
  BY DEF Scans
<1>2. /\ lidar_buffer' = Append(lidar_buffer, s)
      /\ time_buffer' = Append(time_buffer, s.stamp)
      /\ UNCHANGED <<loops, lidar_pushed, meas, last_timestamp_imu>>
      /\ last_timestamp_lidar' = s.stamp
  <2>1. ~(s.stamp < last_timestamp_lidar)
    BY DEF PclCbk, LidarTypes
  <2> QED
    BY <2>1 DEF PclCbk, syncVars
<1>3. LidarTypes'
  BY <1>1, <1>2 DEF LidarTypes, Times
<1>4. Aligned'
  BY <1>1, <1>2 DEF LidarTypes, Aligned
<1>5. TakenIsFront'
  BY <1>2 DEF LidarTypes, TakenIsFront
<1> QED
  BY <1>3, <1>4, <1>5

(* What sync_packages holds in hand is the front of both buffers, whether  *)
(* it was taken just now or by an earlier timer.                           *)
LEMMA TakenFromFront ==
  ASSUME IInv, lidar_buffer # <<>>
  PROVE  Taken.lidar = Head(lidar_buffer) /\ Taken.beg = Taken.lidar.stamp
<1>1. Head(time_buffer) = Head(lidar_buffer).stamp
  BY DEF IInv, LidarTypes, Aligned
<1>2. CASE lidar_pushed
  BY <1>2 DEF IInv, TakenIsFront, Taken
<1>3. CASE ~lidar_pushed
  BY <1>1, <1>3 DEF Taken
<1> QED
  BY <1>2, <1>3

(* The front of both buffers is popped, or nothing is and the scan waits.  *)
LEMMA TimerKeepsInv ==
  ASSUME IInv, TimerCallback
  PROVE  IInv'
<1> USE DEF IInv
<1>1. lidar_buffer # <<>> /\ UNCHANGED <<loops, last_timestamp_lidar, last_timestamp_imu>>
  BY DEF TimerCallback, stampVars
<1>2. CASE ~ImuArrived(Taken.end)
  <2>1. /\ lidar_pushed' = TRUE
        /\ meas' = [meas EXCEPT !.lidar = Taken.lidar, !.beg = Taken.beg]
        /\ UNCHANGED <<lidar_buffer, time_buffer>>
    BY <1>2 DEF TimerCallback, bufferVars
  <2>2. LidarTypes' /\ Aligned'
    BY <1>1, <2>1 DEF LidarTypes, Aligned
  <2>3. meas'.lidar = Taken.lidar /\ meas'.beg = Taken.beg
    BY <2>1 DEF LidarTypes
  <2>4. TakenIsFront'
    BY <1>1, <2>1, <2>3, TakenFromFront DEF TakenIsFront
  <2> QED
    BY <2>2, <2>4
<1>3. CASE ImuArrived(Taken.end)
  <2>1. /\ lidar_buffer' = Tail(lidar_buffer) /\ time_buffer' = Tail(time_buffer)
        /\ lidar_pushed' = FALSE
        /\ meas' = [lidar |-> Taken.lidar, beg |-> Taken.beg,
                    imu |-> SubSeq(imu_buffer, 1, ImuCount(Taken.end))]
    BY <1>3 DEF TimerCallback, PopScan
  <2>2. time_buffer # <<>>
    BY <1>1 DEF LidarTypes, Aligned
  <2>3. LidarTypes'
    <3>1. lidar_buffer' \in Seq(Scans) /\ time_buffer' \in Seq(Times)
      BY <1>1, <2>1, <2>2 DEF LidarTypes
    <3>2. (meas = [lidar |-> meas.lidar, beg |-> meas.beg, imu |-> meas.imu])'
      BY <2>1
    <3> QED
      BY <1>1, <2>1, <3>1, <3>2 DEF LidarTypes
  <2>4. Aligned'
    BY <1>1, <2>1, <2>2 DEF LidarTypes, Aligned
  <2>5. TakenIsFront'
    BY <2>1 DEF TakenIsFront
  <2> QED
    BY <2>3, <2>4, <2>5
<1> QED
  BY <1>2, <1>3

LEMMA ImuCbkKeepsInv ==
  ASSUME loops' = 0, IInv, NEW t \in Times, ImuCbk(t)
  PROVE  IInv'
<1>1. ~(t < last_timestamp_imu)
  BY DEF ImuCbk, IInv, LidarTypes
<1>2. /\ UNCHANGED <<lidar_buffer, time_buffer, lidar_pushed, meas, loops, last_timestamp_lidar>>
      /\ last_timestamp_imu' \in Int
  BY <1>1 DEF ImuCbk, syncVars, Times
<1> QED
  BY <1>2 DEF IInv, LidarTypes, Aligned, TakenIsFront

LEMMA StutterKeepsInv ==
  ASSUME IInv, UNCHANGED vars
  PROVE  IInv'
  BY DEF vars, bufferVars, stampVars, syncVars, IInv, LidarTypes, Aligned, TakenIsFront

(* The number of jumps only grows: before none there was none.             *)
LEMMA LoopsGrow ==
  ASSUME loops \in Nat, [Next]_vars
  PROVE  loops' \in Nat /\ (loops' = 0 => loops = 0)
<1>1. loops' = loops \/ loops' = loops + 1
  BY DEF Next, PclCbk, ImuCbk, TimerCallback, vars, stampVars
<1> QED
  BY <1>1

LEMMA StepKeepsInv ==
  ASSUME loops' = 0, IInv, [Next]_vars
  PROVE  IInv'
  BY PclCbkKeepsInv, TimerKeepsInv, ImuCbkKeepsInv, StutterKeepsInv DEF Next

(* Jump or not, the times of the scans that wait are the last ones of the  *)
(* other deque.                                                            *)
TimesInv ==
  /\ lidar_buffer \in Seq(Scans) /\ time_buffer \in Seq(Times) /\ loops \in Nat
  /\ Len(lidar_buffer) <= Len(time_buffer)
  /\ \A i \in 1..Len(lidar_buffer) :
       time_buffer[Len(time_buffer) - Len(lidar_buffer) + i] = lidar_buffer[i].stamp

LEMMA InitTimes == Init => TimesInv
  BY DEF Init, TimesInv

(* A scan is put in with its time, behind the others or in place of them.  *)
LEMMA PclCbkKeepsTimes ==
  ASSUME TimesInv, NEW s \in Scans, PclCbk(s)
  PROVE  TimesInv'
<1> DEFINE n == Len(lidar_buffer)
           m == Len(time_buffer)
<1>1. /\ lidar_buffer \in Seq(Scans) /\ time_buffer \in Seq(Times) /\ loops \in Nat
      /\ n \in Nat /\ m \in Nat /\ n <= m
      /\ \A i \in 1..n : time_buffer[m - n + i] = lidar_buffer[i].stamp
      /\ s.stamp \in Times
  BY DEF TimesInv, Scans
<1>2. time_buffer' = Append(time_buffer, s.stamp)
  BY DEF PclCbk
<1>3. /\ time_buffer' \in Seq(Times) /\ Len(time_buffer') = m + 1
      /\ \A i \in 1..m : time_buffer'[i] = time_buffer[i]
      /\ time_buffer'[m + 1] = s.stamp
  BY <1>1, <1>2
<1>4. CASE s.stamp < last_timestamp_lidar
  <2>1. lidar_buffer' = <<s>> /\ loops' = loops + 1
    BY <1>4 DEF PclCbk
  <2>2. lidar_buffer' \in Seq(Scans) /\ Len(lidar_buffer') = 1 /\ lidar_buffer'[1] = s
    BY <2>1
  <2> HIDE DEF n, m
  <2>3. \A i \in 1..1 : time_buffer'[(m + 1) - 1 + i] = lidar_buffer'[i].stamp
    BY <1>1, <1>3, <2>2
  <2> QED
    BY <1>1, <1>3, <2>1, <2>2, <2>3 DEF TimesInv
<1>5. CASE ~(s.stamp < last_timestamp_lidar)
  <2>1. lidar_buffer' = Append(lidar_buffer, s) /\ loops' = loops
    BY <1>5 DEF PclCbk
  <2>2. /\ lidar_buffer' \in Seq(Scans) /\ Len(lidar_buffer') = n + 1
        /\ \A i \in 1..n : lidar_buffer'[i] = lidar_buffer[i]
        /\ lidar_buffer'[n + 1] = s
    BY <1>1, <2>1
  <2> HIDE DEF n, m
  <2>3. ASSUME NEW i \in 1..n + 1
        PROVE  time_buffer'[(m + 1) - (n + 1) + i] = lidar_buffer'[i].stamp
    <3>1. CASE i \in 1..n
      <4>1. m - n + i \in 1..m /\ (m + 1) - (n + 1) + i = m - n + i
        BY <1>1, <3>1
      <4> QED
        BY <1>1, <1>3, <2>2, <3>1, <4>1
    <3>2. CASE i = n + 1
      <4>1. (m + 1) - (n + 1) + i = m + 1
        BY <1>1, <3>2
      <4> QED
        BY <1>3, <2>2, <3>2, <4>1
    <3> QED
      BY <1>1, <3>1, <3>2
  <2>4. Len(lidar_buffer') <= Len(time_buffer')
    BY <1>1, <1>3, <2>2
  <2> QED
    BY <1>1, <1>3, <2>1, <2>2, <2>3, <2>4 DEF TimesInv
<1> QED
  BY <1>4, <1>5

(* Both deques lose their front, or none does.                             *)
LEMMA TimerKeepsTimes ==
  ASSUME TimesInv, TimerCallback
  PROVE  TimesInv'
<1> DEFINE n == Len(lidar_buffer)
           m == Len(time_buffer)
<1>1. /\ lidar_buffer \in Seq(Scans) /\ time_buffer \in Seq(Times) /\ loops \in Nat
      /\ n \in Nat /\ m \in Nat /\ n <= m
      /\ \A i \in 1..n : time_buffer[m - n + i] = lidar_buffer[i].stamp
  BY DEF TimesInv
<1>2. lidar_buffer # <<>> /\ loops' = loops
  BY DEF TimerCallback, stampVars
<1>3. CASE UNCHANGED <<lidar_buffer, time_buffer>>
  BY <1>2, <1>3 DEF TimesInv
<1>4. CASE lidar_buffer' = Tail(lidar_buffer) /\ time_buffer' = Tail(time_buffer)
  <2>1. n > 0 /\ m > 0 /\ time_buffer # <<>>
    BY <1>1, <1>2
  <2>2. /\ lidar_buffer' \in Seq(Scans) /\ Len(lidar_buffer') = n - 1
        /\ \A i \in 1..n - 1 : lidar_buffer'[i] = lidar_buffer[i + 1]
    BY <1>1, <1>2, <1>4
  <2>3. /\ time_buffer' \in Seq(Times) /\ Len(time_buffer') = m - 1
        /\ \A i \in 1..m - 1 : time_buffer'[i] = time_buffer[i + 1]
    BY <1>1, <1>4, <2>1
  <2> HIDE DEF n, m
  <2>4. ASSUME NEW i \in 1..n - 1
        PROVE  time_buffer'[(m - 1) - (n - 1) + i] = lidar_buffer'[i].stamp
    <3>1. /\ m - n + i \in 1..m - 1 /\ (m - 1) - (n - 1) + i = m - n + i
          /\ i + 1 \in 1..n /\ (m - n + i) + 1 = m - n + (i + 1)
      BY <1>1, <2>1
    <3> QED
      BY <1>1, <2>2, <2>3, <3>1
  <2>5. Len(lidar_buffer') <= Len(time_buffer')
    BY <1>1, <2>2, <2>3
  <2> QED
    BY <1>1, <1>2, <2>2, <2>3, <2>4, <2>5 DEF TimesInv
<1> QED
  BY <1>3, <1>4 DEF TimerCallback, PopScan, bufferVars

LEMMA StepKeepsTimes ==
  ASSUME TimesInv, [Next]_vars
  PROVE  TimesInv'
<1>1. CASE \E t \in Times : ImuCbk(t)
  <2>1. UNCHANGED <<lidar_buffer, time_buffer>> /\ loops' \in {loops, loops + 1}
    BY <1>1 DEF ImuCbk
  <2> QED
    BY <2>1 DEF TimesInv
<1>2. CASE UNCHANGED vars
  BY <1>2 DEF vars, bufferVars, stampVars, TimesInv
<1> QED
  BY <1>1, <1>2, PclCbkKeepsTimes, TimerKeepsTimes DEF Next

(* Until a jump of the stamps the two deques are pairs; after one, every   *)
(* scan that waits still has its time, behind those that were left over,   *)
(* and what sync_packages pops is never an empty deque.                    *)
THEOREM ScansKeepTimes == Spec => []ScansHaveTimes
<1> DEFINE Jumped == loops # 0
<1>1. TimesInv /\ (Jumped \/ IInv) /\ [Next]_vars => TimesInv' /\ (Jumped' \/ IInv')
  BY StepKeepsTimes, StepKeepsInv, LoopsGrow DEF TimesInv
<1>2. TimesInv /\ (Jumped \/ IInv) => ScansHaveTimes
  <2> SUFFICES ASSUME TimesInv, loops = 0 => IInv
               PROVE  ScansHaveTimes
    OBVIOUS
  <2>1. /\ Len(lidar_buffer) \in Nat /\ Len(time_buffer) \in Nat
        /\ Len(lidar_buffer) <= Len(time_buffer)
        /\ DOMAIN lidar_buffer = 1..Len(lidar_buffer)
    BY DEF TimesInv
  <2>2. loops = 0 => Len(time_buffer) = Len(lidar_buffer)
    BY DEF IInv, Aligned
  <2> QED
    BY <2>1, <2>2 DEF TimesInv, ScansHaveTimes
<1> QED
  BY InitInv, InitTimes, <1>1, <1>2, PTL DEF Spec

(* The samples are used on top of the buffers and change nothing in them.  *)
LEMMA ImuStepIsStep == [NextImu]_allVars => [Next]_vars
  BY DEF NextImu, Callback, Timer, allVars, Next

LEMMA ImuImplementsSync == SpecImu => Spec
<1>1. InitImu => Init
  BY DEF InitImu
<1> QED
  BY <1>1, ImuStepIsStep, PTL DEF SpecImu, Spec

(* The same with ImuProcess behind the buffers, as the node runs.          *)
THEOREM ScansKeepTimesForImu == SpecImu => []ScansHaveTimes
  BY ScansKeepTimes, ImuImplementsSync, PTL

-----------------------------------------------------------------------------
(* Facts about finite sets.                                                *)

(* A family of finite sets that is not empty has a smallest member.        *)
LEMMA Smallest ==
  ASSUME NEW S, IsFiniteSet(S), NEW W, W \subseteq SUBSET S, W # {}
  PROVE  \E w \in W : \A x \in W : x \subseteq w => x = w
<1> DEFINE R == StrictSubsetOrdering(S)
<1>1. IsWellFoundedOn(R, FiniteSubsetsOf(S))
  BY FS_StrictSubsetOrderingWellFounded
<1>2. W \subseteq FiniteSubsetsOf(S)
  BY FS_Subset DEF FiniteSubsetsOf
<1> HIDE DEF R
<1>3. PICK w \in W : \A x \in W : ~(<<x, w>> \in R)
  BY <1>1, <1>2, WFMin
<1>4. ASSUME NEW x \in W, x \subseteq w, x # w
      PROVE  FALSE
  <2>1. <<x, w>> \in R
    BY <1>4 DEF R, StrictSubsetOrdering
  <2> QED
    BY <1>3, <2>1
<1> QED
  BY <1>4

(* The smaller x is, the larger x..n: a smallest one of these sets has the *)
(* largest of the numbers.                                                 *)
LEMMA Largest ==
  ASSUME NEW n \in Nat, NEW T, T \subseteq 1..n, T # {}
  PROVE  \E m \in T : \A x \in T : x <= m
<1> DEFINE S == 1..n
           W == {x..n : x \in T}
<1>1. W \subseteq SUBSET S /\ W # {}
  <2>1. \A x \in T : x..n \subseteq S
    OBVIOUS
  <2> QED
    BY <2>1
<1>2. IsFiniteSet(S)
  BY FS_Interval
<1> HIDE DEF S, W
<1>3. PICK w \in W : \A x \in W : x \subseteq w => x = w
  BY <1>1, <1>2, Smallest
<1>4. PICK m \in T : w = m..n
  BY DEF W
<1>5. ASSUME NEW x \in T, x > m
      PROVE  FALSE
  <2>1. x..n \in W
    BY DEF W
  <2>2. x..n \subseteq m..n /\ m \in m..n /\ m \notin x..n
    BY <1>5
  <2> QED
    BY <1>3, <1>4, <2>1, <2>2
<1> QED
  BY <1>5

-----------------------------------------------------------------------------
(* The samples wait in order: what both the propagation of the filter and  *)
(* the choice of the cloud need.                                           *)

FilterTypes ==
  /\ imu_buffer \in Seq(Nat)
  /\ lidar_end_time \in Nat /\ lidar_mean_scantime \in {0, Duration}
  /\ flg_first_scan \in BOOLEAN /\ init_iter_num \in Nat
  /\ last_timestamp_imu >= -1 /\ last_timestamp_lidar >= -1

(* The samples wait in order, without a gap longer than MaxGap.            *)
ImuInOrder ==
  LET n == Len(imu_buffer)
  IN /\ \A i, j \in 1..n : i < j => imu_buffer[i] < imu_buffer[j]
     /\ \A i \in 1..n - 1 : imu_buffer[i + 1] <= imu_buffer[i] + MaxGap
     /\ n > 0 => imu_buffer[n] = last_timestamp_imu

OrderInv == IInv /\ FilterTypes /\ ImuInOrder

(* The loop of sync_packages takes the samples up to the end of the scan,  *)
(* at least one if the first is before it, and leaves those after it.      *)
LEMMA SamplesTaken ==
  ASSUME OrderInv, NEW end \in Nat, imu_buffer # <<>>
  PROVE  /\ ImuCount(end) \in 0..Len(imu_buffer)
         /\ ImuCount(end) > 0 <=> imu_buffer[1] < end
         /\ ImuCount(end) > 0 =>
              /\ \A i \in 1..ImuCount(end) : imu_buffer[i] <= end
              /\ \A i \in ImuCount(end) + 1..Len(imu_buffer) : imu_buffer[i] > end
<1> DEFINE n == Len(imu_buffer)
           T == {i \in 1..n : imu_buffer[i] <= end}
           Stop(c) == /\ \A i \in 1..c : imu_buffer[i] <= end
                      /\ \A i \in 1..c - 1 : imu_buffer[i] < end
                      /\ c = n \/ imu_buffer[c] = end \/ imu_buffer[c + 1] > end
<1>1. n \in Nat \ {0} /\ \A i \in 1..n : imu_buffer[i] \in Nat
  BY DEF OrderInv, FilterTypes
<1>2. \A i, j \in 1..n : i < j => imu_buffer[i] < imu_buffer[j]
  BY DEF OrderInv, ImuInOrder
<1>3. CASE imu_buffer[1] >= end
  <2>1. ImuCount(end) = 0
    BY <1>3 DEF ImuCount
  <2> QED
    BY <1>1, <1>3, <2>1
<1>4. CASE ~(imu_buffer[1] >= end)
  <2>1. PICK m \in T : \A x \in T : x <= m
    <3>1. 1 \in T
      BY <1>1, <1>4
    <3> QED
      BY <1>1, <3>1, Largest
  <2>2. Stop(m)
    <3>1. \A i \in 1..m - 1 : imu_buffer[i] < imu_buffer[m]
      BY <1>1, <1>2
    <3>2. \A i \in 1..m - 1 : imu_buffer[i] < end
      BY <1>1, <3>1
    <3>3. \A i \in 1..m : imu_buffer[i] <= end
      BY <1>1, <2>1, <3>2
    <3>4. m # n => m + 1 \in 1..n /\ m + 1 \notin T
      BY <1>1, <2>1
    <3>5. m # n => imu_buffer[m + 1] > end
      BY <1>1, <3>4
    <3> QED
      BY <3>2, <3>3, <3>5
  <2>3. ImuCount(end) = CHOOSE c \in 1..n : Stop(c)
    BY <1>4, Zenon DEF ImuCount
  <2>4. PICK c \in 1..n : c = ImuCount(end) /\ Stop(c)
    BY <2>2, <2>3
  <2>5. ASSUME NEW i \in c + 1..n
        PROVE  imu_buffer[i] > end
    <3>1. i \in 1..n /\ c + 1 \in 1..n /\ c < i /\ c < c + 1
      BY <1>1
    <3>2. imu_buffer[c] < imu_buffer[i] /\ imu_buffer[c] < imu_buffer[c + 1]
      BY <1>2, <3>1
    <3>3. i = c + 1 \/ imu_buffer[c + 1] < imu_buffer[i]
      BY <1>1, <1>2, <3>1
    <3>4. imu_buffer[c] \in Nat /\ imu_buffer[c + 1] \in Nat /\ imu_buffer[i] \in Nat
      BY <1>1, <3>1
    <3>5. imu_buffer[c] = end \/ imu_buffer[c + 1] > end
      <4>1. c # n
        BY <1>1, <3>1
      <4> QED
        BY <2>4, <4>1, Zenon
    <3>6. CASE imu_buffer[c] = end
      BY <3>2, <3>6
    <3>7. CASE imu_buffer[c + 1] > end
      <4>1. CASE i = c + 1
        BY <3>7, <4>1, Zenon
      <4>2. CASE imu_buffer[c + 1] < imu_buffer[i]
        BY <3>4, <3>7, <4>2
      <4> QED
        BY <3>3, <4>1, <4>2
    <3> QED
      BY <3>5, <3>6, <3>7
  <2> QED
    BY <1>1, <1>4, <2>4, <2>5
<1> QED
  BY <1>3, <1>4

LEMMA InitOrder == Init => OrderInv
<1> SUFFICES ASSUME Init
             PROVE  OrderInv
  OBVIOUS
<1> USE DEF Init
<1>1. IInv
  BY InitInv
<1>2. FilterTypes
  BY DEF FilterTypes
<1>3. ImuInOrder
  BY DEF ImuInOrder
<1> QED
  BY <1>1, <1>2, <1>3 DEF OrderInv

LEMMA PclCbkKeepsOrder ==
  ASSUME loops' = 0, OrderInv, NEW s \in Scans, PclCbk(s)
  PROVE  OrderInv'
<1>1. IInv'
  BY PclCbkKeepsInv DEF OrderInv
<1>2. UNCHANGED <<imu_buffer, last_timestamp_imu, syncVars, filterVars>>
  BY DEF PclCbk
<1>3. last_timestamp_lidar' >= -1
  BY DEF PclCbk, Scans, Times
<1> QED
  BY <1>1, <1>2, <1>3 DEF OrderInv, FilterTypes, ImuInOrder, syncVars, filterVars

(* A new sample comes after the last one, at most MaxGap later.            *)
LEMMA SampleAppended ==
  ASSUME loops' = 0, OrderInv, NEW t \in Times, ImuCbk(t)
  PROVE  /\ UNCHANGED <<lidar_buffer, time_buffer, last_timestamp_lidar, syncVars, filterVars>>
         /\ last_timestamp_imu' = t
         /\ last_timestamp_imu = -1 \/ t >= last_timestamp_imu + 1
         /\ t <= last_timestamp_imu + MaxGap
         /\ imu_buffer' = Append(imu_buffer, t)
<1>1. ~(t < last_timestamp_imu)
  BY DEF ImuCbk, OrderInv, IInv, LidarTypes
<1> QED
  BY <1>1 DEF ImuCbk, InOrder, JumpsBack

LEMMA ImuCbkKeepsOrder ==
  ASSUME loops' = 0, OrderInv, NEW t \in Times, ImuCbk(t)
  PROVE  OrderInv'
<1> DEFINE n == Len(imu_buffer)
<1>1. IInv'
  BY ImuCbkKeepsInv DEF OrderInv
<1>2. /\ UNCHANGED <<lidar_buffer, time_buffer, last_timestamp_lidar, syncVars, filterVars>>
      /\ last_timestamp_imu' = t
      /\ last_timestamp_imu = -1 \/ t >= last_timestamp_imu + 1
      /\ t <= last_timestamp_imu + MaxGap
      /\ imu_buffer' = Append(imu_buffer, t)
  BY SampleAppended
<1>3. /\ t \in Nat /\ n \in Nat /\ imu_buffer \in Seq(Nat)
      /\ last_timestamp_imu \in Int /\ last_timestamp_imu >= -1
      /\ MaxGap \in Nat \ {0} /\ lidar_end_time \in Nat
  BY LioAssumption DEF OrderInv, IInv, LidarTypes, FilterTypes, Times
<1>4. /\ imu_buffer' \in Seq(Nat) /\ Len(imu_buffer') = n + 1
      /\ \A i \in 1..n : imu_buffer'[i] = imu_buffer[i]
      /\ imu_buffer'[n + 1] = t
      /\ imu_buffer' # <<>>
  BY <1>2, <1>3
<1>5. FilterTypes'
  BY <1>2, <1>3, <1>4 DEF OrderInv, FilterTypes, syncVars, filterVars
<1>6. ImuInOrder'
  <2>1. /\ \A i, j \in 1..n : i < j => imu_buffer[i] < imu_buffer[j]
        /\ \A i \in 1..n - 1 : imu_buffer[i + 1] <= imu_buffer[i] + MaxGap
        /\ n > 0 => imu_buffer[n] = last_timestamp_imu
    BY DEF OrderInv, ImuInOrder
  <2>2. \A i \in 1..n : imu_buffer[i] \in Nat /\ imu_buffer[i] <= last_timestamp_imu
    <3> SUFFICES ASSUME NEW i \in 1..n
                 PROVE  imu_buffer[i] \in Nat /\ imu_buffer[i] <= last_timestamp_imu
      OBVIOUS
    <3>1. imu_buffer[i] \in Nat /\ n \in 1..n /\ n > 0
      BY <1>3
    <3> HIDE DEF n
    <3>2. CASE i = n
      BY <1>3, <2>1, <3>1, <3>2
    <3>3. CASE i # n
      <4>1. i < n
        BY <1>3, <3>3
      <4>2. imu_buffer[i] < imu_buffer[n]
        BY <2>1, <3>1, <4>1
      <4> QED
        BY <1>3, <2>1, <3>1, <4>2
    <3> QED
      BY <3>2, <3>3
  <2> HIDE DEF n
  <2>3. \A i \in 1..n : imu_buffer[i] < t
    BY <1>2, <1>3, <2>2
  <2>4. ASSUME NEW i \in 1..n + 1, NEW j \in 1..n + 1, i < j
        PROVE  imu_buffer'[i] < imu_buffer'[j]
    <3>1. i \in 1..n
      BY <1>3, <2>4
    <3>2. CASE j \in 1..n
      BY <1>4, <2>1, <2>4, <3>1, <3>2
    <3>3. CASE j = n + 1
      BY <1>4, <2>3, <3>1, <3>3
    <3> QED
      BY <1>3, <3>2, <3>3
  <2>5. ASSUME NEW i \in 1..n
        PROVE  imu_buffer'[i + 1] <= imu_buffer'[i] + MaxGap
    <3>1. CASE i \in 1..n - 1
      <4>1. i + 1 \in 1..n
        BY <1>3, <3>1
      <4> QED
        BY <1>4, <2>1, <3>1, <4>1
    <3>2. CASE i = n
      BY <1>2, <1>3, <1>4, <2>1, <3>2
    <3> QED
      BY <1>3, <3>1, <3>2
  <2> QED
    BY <1>2, <1>3, <1>4, <2>4, <2>5 DEF ImuInOrder
<1> QED
  BY <1>1, <1>5, <1>6 DEF OrderInv

LEMMA TakenTypes ==
  ASSUME OrderInv, lidar_buffer # <<>>
  PROVE  /\ Taken.lidar = lidar_buffer[1]
         /\ Taken.end \in Nat /\ Taken.mean \in {0, Duration}
<1> DEFINE s == lidar_buffer[1]
<1>1. /\ s \in Scans /\ s.stamp \in Nat /\ time_buffer[1] = s.stamp
      /\ Head(lidar_buffer) = s /\ Head(time_buffer) = time_buffer[1]
  <2>1. lidar_buffer \in Seq(Scans) /\ Len(lidar_buffer) >= 1
    BY DEF OrderInv, IInv, LidarTypes
  <2>2. s \in Scans /\ time_buffer[1] = s.stamp
    BY <2>1 DEF OrderInv, IInv, Aligned
  <2> QED
    BY <2>1, <2>2 DEF Scans, Times
<1>2. Duration \in Nat /\ lidar_end_time \in Nat /\ lidar_mean_scantime \in {0, Duration}
  BY LioAssumption DEF OrderInv, FilterTypes
<1>3. Taken.lidar = s
  BY <1>1, TakenFromFront DEF OrderInv
<1> QED
  BY <1>1, <1>2, <1>3 DEF Taken

(* What a release does to the buffers, with c samples taken.               *)
LEMMA TimerReleases ==
  ASSUME OrderInv, TimerCallback, ImuArrived(Taken.end)
  PROVE  \E c \in 0..Len(imu_buffer) :
           /\ c > 0 <=> imu_buffer[1] < Taken.end
           /\ c > 0 => /\ \A i \in 1..c : imu_buffer[i] <= Taken.end
                       /\ \A i \in c + 1..Len(imu_buffer) : imu_buffer[i] > Taken.end
           /\ lidar_buffer' = Tail(lidar_buffer) /\ lidar_pushed' = FALSE
           /\ meas'.lidar = Taken.lidar
           /\ meas'.imu \in Seq(Nat) /\ Len(meas'.imu) = c
           /\ \A i \in 1..c : meas'.imu[i] = imu_buffer[i]
           /\ imu_buffer' \in Seq(Nat) /\ Len(imu_buffer') = Len(imu_buffer) - c
           /\ \A i \in 1..Len(imu_buffer) - c :
                i + c \in 1..Len(imu_buffer) /\ imu_buffer'[i] = imu_buffer[i + c]
           /\ Process(meas', c)
<1> DEFINE n == Len(imu_buffer)
<1>1. lidar_buffer # <<>> /\ imu_buffer # <<>>
  BY DEF TimerCallback
<1>2. PICK end \in Nat : end = Taken.end
  BY <1>1, TakenTypes
<1>3. PICK c \in 0..n :
        /\ c = ImuCount(end)
        /\ c > 0 <=> imu_buffer[1] < end
        /\ c > 0 => /\ \A i \in 1..c : imu_buffer[i] <= end
                    /\ \A i \in c + 1..n : imu_buffer[i] > end
  BY <1>1, SamplesTaken
<1>4. /\ meas' = [lidar |-> Taken.lidar, beg |-> Taken.beg, imu |-> SubSeq(imu_buffer, 1, c)]
      /\ imu_buffer' = SubSeq(imu_buffer, c + 1, n)
      /\ lidar_buffer' = Tail(lidar_buffer) /\ lidar_pushed' = FALSE
      /\ Process(meas', c)
  BY <1>2, <1>3 DEF TimerCallback, PopScan
<1>5. imu_buffer \in Seq(Nat) /\ n \in Nat \ {0}
  BY <1>1 DEF OrderInv, FilterTypes
<1>6. meas'.lidar = Taken.lidar /\ meas'.imu = SubSeq(imu_buffer, 1, c)
  BY <1>4
<1>7. /\ meas'.imu \in Seq(Nat) /\ Len(meas'.imu) = c
      /\ \A i \in 1..c : meas'.imu[i] = imu_buffer[i]
  <2>1. \A i \in 1..c : i \in 1..n
    BY <1>5
  <2> QED
    BY <1>5, <1>6, <2>1
<1>8. /\ imu_buffer' \in Seq(Nat) /\ Len(imu_buffer') = n - c
      /\ \A i \in 1..n - c : i + c \in 1..n /\ imu_buffer'[i] = imu_buffer[i + c]
  <2>1. c + 1 \in Nat /\ \A i \in c + 1..n : i \in 1..n
    BY <1>5
  <2>2. imu_buffer' \in Seq(Nat) /\ Len(imu_buffer') = n - c
    <3>1. c \in Int /\ n \in Int /\ c <= n
      BY <1>5
    <3>2. \A i \in c + 1..n : imu_buffer[i] \in Nat
      BY <1>5, <2>1
    <3>3. Len(imu_buffer') = IF c + 1 <= n THEN n - (c + 1) + 1 ELSE 0
      BY <1>4, <2>1, <3>1, <3>2, SubSeqProperties
    <3>4. imu_buffer' \in Seq(Nat)
      BY <1>4, <2>1, <3>1, <3>2, SubSeqProperties
    <3> QED
      BY <3>1, <3>3, <3>4
  <2>3. \A i \in 1..n - c : i + c \in 1..n /\ imu_buffer'[i] = imu_buffer[i + c]
    BY <1>4, <1>5, <2>1
  <2> QED
    BY <2>2, <2>3
<1> QED
  BY <1>2, <1>3, <1>4, <1>6, <1>7, <1>8

(* A scan that is released takes the front of the samples and leaves the   *)
(* rest in order; one that waits takes none.                               *)
LEMMA TimerKeepsOrder ==
  ASSUME OrderInv, TimerCallback
  PROVE  OrderInv'
<1>1. IInv'
  BY TimerKeepsInv DEF OrderInv
<1>2. /\ lidar_buffer # <<>> /\ imu_buffer # <<>>
      /\ lidar_end_time' = Taken.end /\ lidar_mean_scantime' = Taken.mean
      /\ UNCHANGED stampVars
  BY DEF TimerCallback
<1>3. Taken.end \in Nat /\ Taken.mean \in {0, Duration}
  BY <1>2, TakenTypes
<1>4. CASE ~ImuArrived(Taken.end)
  <2>1. UNCHANGED <<bufferVars, flg_first_scan, init_iter_num, feats_undistort, tree>>
    BY <1>4 DEF TimerCallback
  <2> QED
    BY <1>1, <1>2, <1>3, <2>1 DEF OrderInv, FilterTypes, ImuInOrder, bufferVars, stampVars
<1>5. CASE ImuArrived(Taken.end)
  <2> DEFINE n == Len(imu_buffer)
  <2>1. PICK c \in 0..n :
          /\ imu_buffer' \in Seq(Nat) /\ Len(imu_buffer') = n - c
          /\ \A i \in 1..n - c : i + c \in 1..n /\ imu_buffer'[i] = imu_buffer[i + c]
          /\ Process(meas', c)
    BY <1>5, TimerReleases
  <2>2. /\ n \in Nat \ {0} /\ \A i \in 1..n : imu_buffer[i] \in Nat
        /\ \A i, j \in 1..n : i < j => imu_buffer[i] < imu_buffer[j]
        /\ \A i \in 1..n - 1 : imu_buffer[i + 1] <= imu_buffer[i] + MaxGap
        /\ imu_buffer[n] = last_timestamp_imu
    BY <1>2 DEF OrderInv, FilterTypes, ImuInOrder
  <2> HIDE DEF n
  <2>3. FilterTypes'
    <3>1. flg_first_scan' \in BOOLEAN /\ init_iter_num' \in Nat
      <4>1. c \in Nat /\ flg_first_scan \in BOOLEAN /\ init_iter_num \in Nat
        BY <2>2 DEF OrderInv, FilterTypes
      <4>2. init_iter_num' \in {init_iter_num, 1 + c, init_iter_num + c}
        BY <2>1 DEF Process, Undistort
      <4>3. flg_first_scan' \in {flg_first_scan, FALSE}
        BY <2>1 DEF Process
      <4>4. init_iter_num' \in Nat
        BY <4>1, <4>2
      <4>5. flg_first_scan' \in BOOLEAN
        BY <4>1, <4>3, Zenon
      <4> QED
        BY <4>4, <4>5
    <3> QED
      BY <1>2, <1>3, <2>1, <3>1 DEF OrderInv, FilterTypes, stampVars
  <2>4. ASSUME NEW i \in 1..n - c, NEW j \in 1..n - c, i < j
        PROVE  imu_buffer'[i] < imu_buffer'[j]
    <3>1. i + c < j + c
      BY <2>2, <2>4
    <3> QED
      BY <2>1, <2>2, <3>1
  <2>5. ASSUME NEW i \in 1..(n - c) - 1
        PROVE  imu_buffer'[i + 1] <= imu_buffer'[i] + MaxGap
    <3>1. /\ i \in 1..n - c /\ i + 1 \in 1..n - c
          /\ i + c \in 1..n - 1 /\ (i + 1) + c = (i + c) + 1
      BY <2>2
    <3> QED
      BY <2>1, <2>2, <3>1
  <2>6. n - c > 0 => imu_buffer'[n - c] = last_timestamp_imu'
    <3> SUFFICES ASSUME n - c > 0
                 PROVE  imu_buffer'[n - c] = last_timestamp_imu'
      OBVIOUS
    <3>1. n - c \in 1..n - c /\ (n - c) + c = n
      BY <2>2
    <3> QED
      BY <1>2, <2>1, <2>2, <3>1 DEF stampVars
  <2>7. ImuInOrder'
    BY <2>1, <2>4, <2>5, <2>6 DEF ImuInOrder
  <2> QED
    BY <1>1, <2>3, <2>7 DEF OrderInv
<1> QED
  BY <1>4, <1>5

LEMMA StutterKeepsOrder ==
  ASSUME OrderInv, UNCHANGED vars
  PROVE  OrderInv'
<1>1. IInv'
  BY StutterKeepsInv DEF OrderInv
<1> QED
  BY <1>1 DEF vars, bufferVars, stampVars, syncVars, filterVars, OrderInv, FilterTypes, ImuInOrder

-----------------------------------------------------------------------------
(* Sums over a finite set, which the library computes with a recursive     *)
(* function that has to be shown to exist.                                 *)

(* p folds the subsets of T: from base, one element after the other with F,*)
(* in the order that c takes them out.                                     *)
IsFold(p, T, V, base, F, c) ==
  /\ p \in [SUBSET T -> V]
  /\ p[{}] = base
  /\ \A s \in SUBSET T : s # {} => p[s] = F[<<c[s], p[s \ {c[s]}]>>]

LEMMA FoldsAgree ==
  ASSUME NEW T, IsFiniteSet(T), NEW U, IsFiniteSet(U), NEW V, NEW base, NEW F, NEW c,
         NEW p, NEW q, IsFold(p, T, V, base, F, c), IsFold(q, U, V, base, F, c),
         \A s \in SUBSET T : s # {} => c[s] \in s
  PROVE  \A s \in (SUBSET T) \cap (SUBSET U) : p[s] = q[s]
<1> DEFINE W == {s \in (SUBSET T) \cap (SUBSET U) : p[s] # q[s]}
<1> SUFFICES ASSUME W # {}
             PROVE  FALSE
  OBVIOUS
<1>1. PICK w \in W : \A x \in W : x \subseteq w => x = w
  <2>1. W \subseteq SUBSET T
    OBVIOUS
  <2> HIDE DEF W
  <2> QED
    BY <2>1, Smallest
<1>2. w # {}
  BY DEF IsFold
<1>3. w \ {c[w]} \in (SUBSET T) \cap (SUBSET U) /\ w \ {c[w]} # w
  BY <1>2
<1>4. p[w \ {c[w]}] = q[w \ {c[w]}]
  BY <1>1, <1>3
<1> QED
  BY <1>2, <1>4 DEF IsFold

LEMMA FoldExists ==
  ASSUME NEW S, IsFiniteSet(S), NEW V, NEW base \in V, NEW F \in [S \X V -> V], NEW c,
         \A s \in SUBSET S : s # {} => c[s] \in s
  PROVE  \E p : IsFold(p, S, V, base, F, c)
<1> DEFINE Good(p, T) == IsFold(p, T, V, base, F, c)
           W == {T \in SUBSET S : ~\E p : Good(p, T)}
<1> SUFFICES ASSUME W # {}
             PROVE  FALSE
  OBVIOUS
<1>1. PICK T \in W : \A x \in W : x \subseteq T => x = T
  <2>1. W \subseteq SUBSET S
    OBVIOUS
  <2> HIDE DEF W
  <2> QED
    BY <2>1, Smallest
<1>2. \A s \in SUBSET T : s # T => \E p : Good(p, s)
  BY <1>1
<1> DEFINE q(s) == CHOOSE p : Good(p, s)
<1>3. \A s \in SUBSET T : s # T => Good(q(s), s)
  BY <1>2
<1>4. \A s \in SUBSET T : s # T => q(s)[s] \in V
  <2> HIDE DEF q
  <2> SUFFICES ASSUME NEW s \in SUBSET T, s # T
               PROVE  q(s)[s] \in V
    OBVIOUS
  <2>1. q(s) \in [SUBSET s -> V]
    BY <1>3 DEF IsFold
  <2> QED
    BY <2>1
<1> DEFINE h == [s \in SUBSET T |-> IF s = {} THEN base
                   ELSE IF s # T THEN q(s)[s]
                   ELSE F[<<c[s], q(s \ {c[s]})[s \ {c[s]}]>>]]
<1> HIDE DEF q, Good
<1>5. T # {}
  <2>1. Good([s \in SUBSET {} |-> base], {})
    BY DEF Good, IsFold
  <2> QED
    BY <2>1
<1>6. h \in [SUBSET T -> V]
  <2> SUFFICES ASSUME NEW s \in SUBSET T, s # {}
               PROVE  h[s] \in V
    OBVIOUS
  <2>1. CASE s # T
    BY <1>4, <2>1
  <2>2. CASE s = T
    <3>1. c[T] \in T /\ T \ {c[T]} \in SUBSET T /\ T \ {c[T]} # T
      BY <1>5
    <3>2. c[T] \in S /\ q(T \ {c[T]})[T \ {c[T]}] \in V
      BY <1>4, <3>1
    <3> QED
      BY <1>5, <2>2, <3>2
  <2> QED
    BY <2>1, <2>2
<1>7. ASSUME NEW s \in SUBSET T, s # T
      PROVE  h[s] = q(s)[s]
  BY <1>3, <1>7 DEF Good, IsFold
<1>8. ASSUME NEW s \in SUBSET T, s # {}
      PROVE  h[s] = F[<<c[s], h[s \ {c[s]}]>>]
  <2> DEFINE r == s \ {c[s]}
  <2>1. c[s] \in s /\ r \in SUBSET T /\ r # T
    BY <1>8
  <2>2. h[r] = q(r)[r]
    BY <1>7, <2>1
  <2>3. CASE s = T
    BY <1>5, <2>2, <2>3
  <2>4. CASE s # T
    <3>1. q(s)[s] = F[<<c[s], q(s)[r]>>]
      BY <1>3, <1>8, <2>4 DEF Good, IsFold
    <3>2. q(s)[r] = q(r)[r]
      <4>1. IsFiniteSet(s) /\ IsFiniteSet(r)
        BY FS_Subset
      <4>2. IsFold(q(s), s, V, base, F, c) /\ IsFold(q(r), r, V, base, F, c)
        BY <1>3, <2>1, <2>4 DEF Good
      <4>3. r \in (SUBSET s) \cap (SUBSET r) /\ \A x \in SUBSET s : x # {} => c[x] \in x
        OBVIOUS
      <4> HIDE DEF r
      <4> QED
        BY <4>1, <4>2, <4>3, FoldsAgree
    <3> QED
      BY <1>7, <2>2, <2>4, <3>1, <3>2
  <2> QED
    BY <2>3, <2>4
<1> HIDE DEF h
<1>9. h[{}] = base
  BY DEF h
<1>10. Good(h, T)
  BY <1>6, <1>8, <1>9 DEF Good, IsFold
<1> QED
  BY <1>1, <1>10

(* k sums g up over the subsets of S.                                      *)
Adding(g, S) == [t \in S \X Int |-> g[t[1]] + t[2]]
AnyOf(S) == [s \in SUBSET S |-> CHOOSE x \in s : TRUE]
IsSum(k, S, g) == IsFold(k, S, Int, 0, Adding(g, S), AnyOf(S))

(* A term can be taken out of a sum, whichever the library took out.       *)
LEMMA SumAdds ==
  ASSUME NEW S, IsFiniteSet(S), NEW g \in [S -> Int],
         NEW k, IsSum(k, S, g)
  PROVE  \A T \in SUBSET S : \A x \in S : x \notin T => k[T \cup {x}] = g[x] + k[T]
<1> DEFINE Right(U, y) == k[U \cup {y}] = g[y] + k[U]
           W == {U \in SUBSET S : \E y \in S \ U : ~Right(U, y)}
<1> SUFFICES ASSUME W # {}
             PROVE  FALSE
  OBVIOUS
<1>1. PICK U \in W : \A X \in W : X \subseteq U => X = U
  <2>1. W \subseteq SUBSET S
    OBVIOUS
  <2> HIDE DEF W
  <2> QED
    BY <2>1, Smallest
<1>2. PICK y \in S \ U : ~Right(U, y)
  OBVIOUS
<1>3. \A s \in SUBSET S : k[s] \in Int
  BY DEF IsSum, IsFold
<1>4. \A s \in SUBSET S : s # {} => AnyOf(S)[s] \in s /\ k[s] = g[AnyOf(S)[s]] + k[s \ {AnyOf(S)[s]}]
  <2> SUFFICES ASSUME NEW s \in SUBSET S, s # {}
               PROVE  AnyOf(S)[s] \in s /\ k[s] = g[AnyOf(S)[s]] + k[s \ {AnyOf(S)[s]}]
    OBVIOUS
  <2>1. AnyOf(S)[s] \in s
    BY DEF AnyOf
  <2>2. k[s] = Adding(g, S)[<<AnyOf(S)[s], k[s \ {AnyOf(S)[s]}]>>]
    BY DEF IsSum, IsFold
  <2>3. k[s \ {AnyOf(S)[s]}] \in Int
    BY <1>3
  <2> QED
    BY <2>1, <2>2, <2>3 DEF Adding
<1> DEFINE c == AnyOf(S)[U \cup {y}]
           X == U \ {c}
<1>5. c \in U \cup {y} /\ k[U \cup {y}] = g[c] + k[(U \cup {y}) \ {c}]
  BY <1>4
<1>6. c # y
  <2>1. c = y => (U \cup {y}) \ {c} = U
    OBVIOUS
  <2> QED
    BY <1>2, <1>5, <2>1
<1>7. c \in U /\ (U \cup {y}) \ {c} = X \cup {y} /\ X \cup {c} = U
  BY <1>5, <1>6
<1> HIDE DEF c
<1>8. X \in SUBSET S /\ X # U /\ y \in S \ X /\ c \in S \ X
  BY <1>7
<1>9. Right(X, y) /\ Right(X, c)
  BY <1>1, <1>8
<1>10. g[y] \in Int /\ g[c] \in Int /\ k[X] \in Int
  BY <1>3, <1>8
<1>11. k[U] = g[c] + k[X]
  BY <1>7, <1>9
<1>12. k[U \cup {y}] = g[c] + (g[y] + k[X])
  BY <1>5, <1>7, <1>9
<1>13. k[U \cup {y}] = g[y] + k[U]
  BY <1>10, <1>11, <1>12
<1> QED
  BY <1>2, <1>13

(* How the library sums over the samples of a package.                     *)
Total(m, S) == MapThenSumSet(LAMBDA i : Dt(m, i), S)

LEMMA SumIsFold ==
  ASSUME NEW m, NEW S, IsFiniteSet(S), [i \in S |-> Dt(m, i)] \in [S -> Int]
  PROVE  \E k : /\ IsSum(k, S, [i \in S |-> Dt(m, i)])
                /\ Total(m, S) = k[S]
<1> DEFINE g == [i \in S |-> Dt(m, i)]
<1>1. PICK h : IsSum(h, S, g)
  <2>1. Adding(g, S) \in [S \X Int -> Int]
    BY DEF Adding
  <2>2. \A s \in SUBSET S : s # {} => AnyOf(S)[s] \in s
    BY DEF AnyOf
  <2>3. 0 \in Int
    OBVIOUS
  <2> QED
    BY <2>1, <2>2, <2>3, FoldExists DEF IsSum
<1> DEFINE Iterates(k) ==
             k = [s \in SUBSET S |-> IF s = {} THEN 0
                    ELSE LET x == CHOOSE x \in s : TRUE IN Dt(m, x) + k[s \ {x}]]
<1>2. ASSUME NEW s \in SUBSET S, s # {}
      PROVE  h[s] = Dt(m, CHOOSE x \in s : TRUE) + h[s \ {CHOOSE x \in s : TRUE}]
  <2> DEFINE x == CHOOSE x \in s : TRUE
  <2>1. x \in S /\ AnyOf(S)[s] = x /\ s \ {x} \in SUBSET S
    BY <1>2 DEF AnyOf
  <2> HIDE DEF x
  <2>2. h[s] = Adding(g, S)[<<x, h[s \ {x}]>>] /\ h[s \ {x}] \in Int
    BY <1>1, <1>2, <2>1 DEF IsSum, IsFold
  <2>3. h[s] = Dt(m, x) + h[s \ {x}]
    BY <2>1, <2>2 DEF Adding
  <2> QED
    BY <2>3 DEF x
<1>3. Iterates(h)
  BY <1>1, <1>2 DEF IsSum, IsFold
<1>4. ASSUME NEW k, Iterates(k)
      PROVE  k = h
  <2> DEFINE W == {s \in SUBSET S : k[s] # h[s]}
  <2> SUFFICES W = {}
    BY <1>1, <1>4 DEF IsSum, IsFold
  <2> SUFFICES ASSUME W # {}
               PROVE  FALSE
    OBVIOUS
  <2>1. PICK w \in W : \A X \in W : X \subseteq w => X = w
    <3>1. W \subseteq SUBSET S
      OBVIOUS
    <3> HIDE DEF W
    <3> QED
      BY <3>1, Smallest
  <2>2. w \in SUBSET S /\ w # {} /\ k[w] # h[w]
    BY <1>1, <1>4 DEF IsSum, IsFold
  <2> DEFINE x == CHOOSE x \in w : TRUE
  <2>3. x \in w /\ k[w] = Dt(m, x) + k[w \ {x}]
    BY <1>4, <2>2
  <2>4. h[w] = Dt(m, x) + h[w \ {x}]
    BY <1>2, <2>2
  <2> HIDE DEF x
  <2>5. k[w \ {x}] = h[w \ {x}]
    BY <2>1, <2>2, <2>3
  <2> QED
    BY <2>2, <2>3, <2>4, <2>5
<1>5. \E k : Iterates(k) /\ Total(m, S) = k[S]
  BY <1>3 DEF Total, MapThenSumSet, MapThenFoldSet
<1> QED
  BY <1>1, <1>4, <1>5

-----------------------------------------------------------------------------
(* How long the filter is propagated.                                      *)

(* A package with the last sample before it.                               *)
LEMMA SamplesOfPackage ==
  ASSUME NEW m, m.imu \in Seq(Nat), Len(m.imu) > 0, last_imu_ \in Int
  PROVE  /\ v_imu(m) \in Seq(Int) /\ Len(v_imu(m)) = Len(m.imu) + 1
         /\ v_imu(m)[1] = last_imu_
         /\ \A i \in 2..Len(v_imu(m)) : i - 1 \in 1..Len(m.imu) /\ v_imu(m)[i] = m.imu[i - 1]
         /\ Last(v_imu(m)) = m.imu[Len(m.imu)] /\ Last(m.imu) = m.imu[Len(m.imu)]
<1> DEFINE n == Len(m.imu)
<1>1. n \in Nat \ {0} /\ <<last_imu_>> \in Seq(Int) /\ Len(<<last_imu_>>) = 1 /\ m.imu \in Seq(Int)
  OBVIOUS
<1>2. /\ v_imu(m) \in Seq(Int) /\ Len(v_imu(m)) = n + 1
      /\ \A i \in 1..n + 1 : v_imu(m)[i] = IF i <= 1 THEN last_imu_ ELSE m.imu[i - 1]
  BY <1>1, ConcatProperties DEF v_imu
<1>3. \A i \in 2..n + 1 : i - 1 \in 1..n /\ v_imu(m)[i] = m.imu[i - 1]
  BY <1>1, <1>2
<1>4. v_imu(m)[1] = last_imu_
  BY <1>1, <1>2
<1>5. Last(v_imu(m)) = m.imu[n] /\ Last(m.imu) = m.imu[n]
  <2>1. n + 1 \in 2..n + 1 /\ (n + 1) - 1 = n
    BY <1>1
  <2>2. v_imu(m)[n + 1] = m.imu[n]
    BY <1>3, <2>1
  <2> QED
    BY <1>2, <2>2 DEF Last
<1> QED
  BY <1>2, <1>3, <1>4, <1>5

(* The intervals that a package is propagated over, and their sum as the   *)
(* library computes it.                                                    *)
LEMMA IntervalsSum ==
  ASSUME NEW m, m.imu \in Seq(Nat), Len(m.imu) > 0,
         last_imu_ \in Int, last_lidar_end_time_ \in Nat
  PROVE  /\ IsFiniteSet(Tails(m)) /\ [i \in Tails(m) |-> Dt(m, i)] \in [Tails(m) -> Int]
         /\ \E k : /\ IsSum(k, Tails(m), [i \in Tails(m) |-> Dt(m, i)])
                   /\ Total(m, Tails(m)) = k[Tails(m)]
<1> DEFINE v == v_imu(m)
<1>1. v \in Seq(Int)
  BY SamplesOfPackage
<1>2. IsFiniteSet(Tails(m))
  <2>1. Len(v) \in Nat
    BY <1>1
  <2>2. IsFiniteSet(2..Len(v))
    BY <2>1, FS_Interval
  <2> QED
    BY <2>2, FS_Subset DEF Tails
<1>3. \A i \in Tails(m) : Dt(m, i) \in Int
  <2> SUFFICES ASSUME NEW i \in Tails(m)
               PROVE  Dt(m, i) \in Int
    OBVIOUS
  <2>1. i \in 1..Len(v) /\ i - 1 \in 1..Len(v)
    BY <1>1 DEF Tails
  <2>2. v[i] \in Int /\ v[i - 1] \in Int
    BY <1>1, <2>1
  <2> HIDE DEF v
  <2>3. Dt(m, i) \in {v[i] - last_lidar_end_time_, v[i] - v[i - 1]}
    BY DEF Dt, v
  <2> QED
    BY <2>2, <2>3
<1> HIDE DEF v
<1>4. [i \in Tails(m) |-> Dt(m, i)] \in [Tails(m) -> Int]
  BY <1>3
<1> QED
  BY <1>2, <1>4, SumIsFold

(* When the last sample before a package is not after the end of the last  *)
(* scan and all of the package are, the intervals cover the time from that *)
(* end to the last sample.                                                 *)
LEMMA IntervalsCover ==
  ASSUME NEW m, m.imu \in Seq(Nat), Len(m.imu) > 0,
         last_imu_ \in Int, last_lidar_end_time_ \in Nat,
         last_imu_ <= last_lidar_end_time_,
         \A i \in 1..Len(m.imu) : m.imu[i] > last_lidar_end_time_
  PROVE  Total(m, Tails(m)) = Last(v_imu(m)) - last_lidar_end_time_
<1> DEFINE v == v_imu(m)
           n == Len(v)
           L == last_lidar_end_time_
           g == [i \in Tails(m) |-> Dt(m, i)]
<1>1. /\ n \in Nat /\ n >= 2 /\ v \in Seq(Int)
      /\ v[1] \in Int /\ v[1] <= L
      /\ \A i \in 2..n : v[i] \in Int /\ v[i] > L
      /\ Last(v) = v[n]
  <2>1. v \in Seq(Int) /\ n = Len(m.imu) + 1
    BY SamplesOfPackage
  <2>2. v[1] \in Int /\ v[1] <= L
    BY SamplesOfPackage
  <2>3. ASSUME NEW i \in 2..n
        PROVE  v[i] \in Int /\ v[i] > L
    <3>1. i - 1 \in 1..Len(m.imu) /\ v[i] = m.imu[i - 1]
      BY SamplesOfPackage
    <3>2. PICK j \in 1..Len(m.imu) : j = i - 1 /\ v[i] = m.imu[j]
      BY <3>1, Zenon
    <3>3. m.imu[j] \in Nat
      BY ElementOfSeq
    <3>4. m.imu[j] > L
      BY Zenon
    <3> QED
      BY <3>2, <3>3, <3>4
  <2> QED
    BY <2>1, <2>2, <2>3 DEF Last
<1>2. PICK k : IsSum(k, Tails(m), g) /\ Total(m, Tails(m)) = k[Tails(m)]
  BY IntervalsSum
<1>3. Tails(m) = 2..n /\ IsFiniteSet(Tails(m)) /\ g \in [Tails(m) -> Int]
  <2>1. ASSUME NEW i \in 2..n
        PROVE  v[i] >= L
    <3>1. v[i] \in Int /\ v[i] > L
      BY <1>1
    <3> QED
      BY <3>1
  <2>2. Tails(m) = 2..n
    BY <2>1 DEF Tails
  <2> QED
    BY <2>2, IntervalsSum
<1>4. /\ g[2] = v[2] - L
      /\ \A i \in 3..n : g[i] = v[i] - v[i - 1]
  <2>1. Dt(m, 2) = v[2] - L
    BY <1>1 DEF Dt
  <2>2. ASSUME NEW i \in 3..n
        PROVE  Dt(m, i) = v[i] - v[i - 1]
    <3>1. i - 1 \in 2..n
      BY <1>1
    <3>2. v[i - 1] \in Int /\ v[i - 1] > L
      BY <1>1, <3>1
    <3>3. ~(v[i - 1] < L)
      BY <3>2
    <3> QED
      BY <3>3 DEF Dt
  <2> QED
    BY <1>1, <1>3, <2>1, <2>2
<1> HIDE DEF v, n, g
<1> DEFINE J == {j \in 2..n : \A i \in 2..j : k[2..i] = v[i] - L}
<1>5. ASSUME NEW j \in 2..n
      PROVE  k[2..j] = g[j] + k[2..j - 1]
  <2> DEFINE T == 2..j - 1
             S == 2..n
  <2>1. j \in Int /\ 2 <= j /\ j <= n
    BY <1>1
  <2>2. T \in SUBSET S
    BY <1>1, <2>1
  <2>3. j \in S \ T /\ 2..j = T \cup {j}
    BY <2>1
  <2>4. IsSum(k, S, g) /\ IsFiniteSet(S) /\ g \in [S -> Int]
    BY <1>2, <1>3
  <2> HIDE DEF S, T
  <2>5. k[T \cup {j}] = g[j] + k[T]
    <3>1. j \in S /\ j \notin T
      BY <2>3
    <3>2. \A U \in SUBSET S : \A x \in S : x \notin U => k[U \cup {x}] = g[x] + k[U]
      BY <2>4, SumAdds
    <3> QED
      BY <2>2, <3>1, <3>2
  <2> QED
    BY <2>3, <2>5 DEF T
<1>6. k[2..2] = v[2] - L
  <2>1. 2..1 = {} /\ 2 - 1 = 1 /\ 2 \in 2..n
    BY <1>1
  <2>2. k[{}] = 0
    BY <1>2 DEF IsSum, IsFold
  <2>3. k[2..2] = g[2] + 0
    BY <1>5, <2>1, <2>2
  <2> QED
    BY <1>1, <1>4, <2>1, <2>3
<1>7. 2 \in J
  <2>1. 2 \in 2..n /\ \A i \in 2..2 : i = 2
    BY <1>1
  <2> QED
    BY <1>6, <2>1
<1>8. PICK j \in J : \A x \in J : x <= j
  <2>1. J \subseteq 1..n /\ J # {}
    BY <1>7
  <2> HIDE DEF J
  <2> QED
    BY <1>1, <2>1, Largest
<1>9. j = n
  <2> SUFFICES ASSUME j # n
               PROVE  FALSE
    OBVIOUS
  <2>1. j \in 2..n /\ j + 1 \in 3..n /\ j + 1 \in 2..n /\ (j + 1) - 1 = j
    BY <1>1
  <2>2. k[2..j] = v[j] - L
    BY <2>1
  <2>3. k[2..j + 1] = g[j + 1] + k[2..j]
    BY <1>5, <2>1
  <2>4. g[j + 1] = v[j + 1] - v[j]
    BY <1>4, <2>1
  <2>5. k[2..j + 1] = v[j + 1] - L
    BY <1>1, <2>1, <2>2, <2>3, <2>4
  <2>6. \A i \in 2..j + 1 : i \in 2..j \/ i = j + 1
    BY <2>1
  <2>7. j + 1 \in J
    BY <2>1, <2>5, <2>6
  <2> QED
    BY <1>8, <2>1, <2>7
<1>10. k[2..n] = v[n] - L
  BY <1>1, <1>9
<1> QED
  BY <1>1, <1>2, <1>3, <1>10 DEF v, n

(* Once a scan has been undistorted, its end is between the last sample    *)
(* that was used and those that wait.                                      *)
Reached ==
  /\ filter_time \in Int /\ last_imu_ \in Int /\ last_lidar_end_time_ \in Nat
  /\ IMUpose # <<>> =>
       /\ init_iter_num > InitCount
       /\ last_imu_ <= last_lidar_end_time_ /\ last_lidar_end_time_ <= last_timestamp_imu
       /\ \A i \in 1..Len(imu_buffer) : imu_buffer[i] > last_lidar_end_time_

PInv == OrderInv /\ Reached

PropagatedRight ==
  loops = 0 /\ last_lidar_end_time_' # last_lidar_end_time_ /\ IMUpose # <<>> =>
    filter_time' - filter_time = last_lidar_end_time_' - last_lidar_end_time_

LEMMA CallbackReaches ==
  ASSUME loops' = 0, PInv, Callback
  PROVE  PInv' /\ PropagatedRight
<1>1. UNCHANGED imuVars
  BY DEF Callback
<1>2. CASE \E s \in Scans : PclCbk(s)
  <2>1. OrderInv'
    BY <1>2, PclCbkKeepsOrder DEF PInv
  <2>2. UNCHANGED <<imu_buffer, last_timestamp_imu, init_iter_num>>
    BY <1>2 DEF PclCbk, filterVars
  <2> QED
    BY <1>1, <2>1, <2>2 DEF PInv, Reached, PropagatedRight, imuVars
<1>3. CASE \E t \in Times : ImuCbk(t)
  <2>1. PICK t \in Times : ImuCbk(t)
    BY <1>3
  <2>2. OrderInv'
    BY <2>1, ImuCbkKeepsOrder DEF PInv
  <2>3. /\ UNCHANGED init_iter_num /\ last_timestamp_imu' = t
        /\ last_timestamp_imu = -1 \/ t >= last_timestamp_imu + 1
        /\ imu_buffer' = Append(imu_buffer, t)
    BY <2>1, SampleAppended DEF PInv, filterVars
  <2>4. t \in Nat /\ imu_buffer \in Seq(Nat) /\ last_timestamp_imu \in Int
    BY DEF Times, PInv, OrderInv, FilterTypes, IInv, LidarTypes
  <2>5. ASSUME IMUpose # <<>>
        PROVE  /\ last_lidar_end_time_ < t
               /\ \A i \in 1..Len(imu_buffer') : imu_buffer'[i] > last_lidar_end_time_
    <3>1. /\ last_lidar_end_time_ \in Nat /\ last_lidar_end_time_ <= last_timestamp_imu
          /\ \A i \in 1..Len(imu_buffer) : imu_buffer[i] > last_lidar_end_time_
      BY <2>5 DEF PInv, Reached
    <3>2. last_lidar_end_time_ < t
      BY <2>3, <2>4, <3>1
    <3> QED
      BY <2>3, <2>4, <3>1, <3>2
  <2>6. Reached'
    BY <1>1, <2>3, <2>4, <2>5 DEF PInv, Reached, imuVars
  <2> QED
    BY <1>1, <2>2, <2>6 DEF PInv, PropagatedRight, imuVars
<1> QED
  BY <1>2, <1>3 DEF Callback

(* What Propagate does with a package after the end of the last scan.      *)
LEMMA PropagateReaches ==
  ASSUME NEW m, m.imu \in Seq(Nat), Len(m.imu) > 0, NEW end \in Nat,
         \A i \in 1..Len(m.imu) : m.imu[i] <= end,
         IMUpose # <<>> => \A i \in 1..Len(m.imu) : m.imu[i] > last_lidar_end_time_,
         Reached, Propagate(m, end)
  PROVE  /\ filter_time' \in Int /\ last_lidar_end_time_' = end
         /\ last_imu_' \in Nat /\ last_imu_' <= end
         /\ IMUpose # <<>> => filter_time' - filter_time = end - last_lidar_end_time_
<1>1. filter_time \in Int /\ last_imu_ \in Int /\ last_lidar_end_time_ \in Nat
  BY DEF Reached
<1>2. PICK last \in Nat : last = Last(v_imu(m)) /\ last = Last(m.imu) /\ last <= end
  <2>1. Len(m.imu) \in 1..Len(m.imu)
    OBVIOUS
  <2>2. m.imu[Len(m.imu)] \in Nat /\ m.imu[Len(m.imu)] <= end
    BY <2>1, ElementOfSeq
  <2> QED
    BY <1>1, <2>2, SamplesOfPackage
<1>3. /\ last_imu_' = last /\ last_lidar_end_time_' = end
      /\ filter_time' = filter_time + Total(m, Tails(m)) + DtToEnd(m, end)
  BY <1>2 DEF Propagate, Total
<1>4. DtToEnd(m, end) = end - last
  <2>1. DtToEnd(m, end) = (IF end > last THEN 1 ELSE -1) * (end - last)
    BY <1>2 DEF DtToEnd
  <2>2. CASE end > last
    BY <1>2, <2>1, <2>2
  <2>3. CASE ~(end > last)
    BY <1>2, <2>1, <2>3
  <2> QED
    BY <2>2, <2>3
<1>5. Total(m, Tails(m)) \in Int
  <2> DEFINE S == Tails(m)
             g == [i \in S |-> Dt(m, i)]
  <2>1. PICK k : IsSum(k, S, g) /\ Total(m, S) = k[S]
    BY <1>1, IntervalsSum
  <2>2. k \in [SUBSET S -> Int]
    BY <2>1 DEF IsSum, IsFold
  <2> HIDE DEF S
  <2>3. k[S] \in Int
    BY <2>2
  <2> QED
    BY <2>1, <2>3 DEF S
<1>6. ASSUME IMUpose # <<>>
      PROVE  Total(m, Tails(m)) = last - last_lidar_end_time_
  <2>1. last_imu_ <= last_lidar_end_time_
    BY <1>6 DEF Reached
  <2>2. \A i \in 1..Len(m.imu) : m.imu[i] > last_lidar_end_time_
    BY <1>6
  <2> QED
    BY <1>1, <1>2, <2>1, <2>2, IntervalsCover
<1>7. filter_time' \in Int
  BY <1>1, <1>2, <1>3, <1>4, <1>5
<1>8. IMUpose # <<>> => filter_time' - filter_time = end - last_lidar_end_time_
  <2> SUFFICES ASSUME IMUpose # <<>>
               PROVE  filter_time' - filter_time = end - last_lidar_end_time_
    OBVIOUS
  <2>1. filter_time' = filter_time + (last - last_lidar_end_time_) + (end - last)
    BY <1>3, <1>4, <1>6
  <2>2. filter_time \in Int /\ last_lidar_end_time_ \in Int /\ last \in Int /\ end \in Int
    BY <1>1
  <2> QED
    BY <2>1, <2>2
<1> QED
  BY <1>2, <1>3, <1>7, <1>8

LEMMA TimerReaches ==
  ASSUME PInv, Timer
  PROVE  PInv' /\ PropagatedRight
<1>1. OrderInv'
  BY TimerKeepsOrder DEF Timer, PInv
<1>2. /\ lidar_buffer # <<>> /\ imu_buffer # <<>>
      /\ lidar_end_time' = Taken.end /\ UNCHANGED stampVars
  BY DEF Timer, TimerCallback
<1>3. CASE ~ImuArrived(Taken.end)
  <2>1. UNCHANGED <<bufferVars, init_iter_num>>
    BY <1>3 DEF Timer, TimerCallback
  <2>2. UNCHANGED imuVars
    BY <2>1 DEF Timer, ProcessImu, Released, bufferVars
  <2> QED
    BY <1>1, <1>2, <2>1, <2>2 DEF PInv, Reached, PropagatedRight, imuVars, bufferVars, stampVars
<1>4. CASE ImuArrived(Taken.end)
  <2> DEFINE n == Len(imu_buffer)
  <2>1. PICK end \in Nat : end = Taken.end
    BY <1>2, TakenTypes DEF PInv
  <2>2. PICK c \in 0..n :
          /\ c > 0 => /\ \A i \in 1..c : imu_buffer[i] <= end
                      /\ \A i \in c + 1..n : imu_buffer[i] > end
          /\ meas'.imu \in Seq(Nat) /\ Len(meas'.imu) = c
          /\ \A i \in 1..c : meas'.imu[i] = imu_buffer[i]
          /\ imu_buffer' \in Seq(Nat) /\ Len(imu_buffer') = n - c
          /\ \A i \in 1..n - c : i + c \in 1..n /\ imu_buffer'[i] = imu_buffer[i + c]
          /\ Process(meas', c)
    BY <1>4, <2>1, TimerReleases DEF Timer, PInv
  <2>3. n \in Nat /\ last_timestamp_imu \in Int /\ \A i \in 1..n : imu_buffer[i] \in Nat
    <3>1. imu_buffer \in Seq(Nat) /\ last_timestamp_imu \in Int
      BY DEF PInv, OrderInv, FilterTypes, IInv, LidarTypes
    <3> QED
      BY <3>1
  <2>4. last_timestamp_imu >= end /\ last_timestamp_imu' = last_timestamp_imu
    BY <1>2, <1>4, <2>1 DEF ImuArrived, stampVars
  <2>5. filter_time \in Int /\ last_imu_ \in Int /\ last_lidar_end_time_ \in Nat
    BY DEF PInv, Reached
  <2> HIDE DEF n
  <2>6. IMUpose # <<>> => init_iter_num > InitCount /\ init_iter_num' = init_iter_num
    <3>1. init_iter_num \in Nat /\ InitCount \in Nat
      BY LioAssumption DEF PInv, OrderInv, FilterTypes
    <3> QED
      BY <2>2, <3>1 DEF PInv, Reached, Process, Undistort
  <2>7. ASSUME IMUpose # <<>>
        PROVE  /\ last_imu_ <= last_lidar_end_time_ /\ last_lidar_end_time_ <= last_timestamp_imu
               /\ \A i \in 1..n : imu_buffer[i] > last_lidar_end_time_
               /\ \A i \in 1..n - c : imu_buffer'[i] > last_lidar_end_time_
    BY <2>2, <2>7 DEF PInv, Reached, n
  <2>8. CASE UNCHANGED imuVars
    <3>1. Reached'
      BY <2>2, <2>4, <2>5, <2>6, <2>7, <2>8 DEF Reached, imuVars
    <3> QED
      BY <1>1, <2>8, <3>1 DEF PInv, PropagatedRight, imuVars
  <2>9. CASE c > 0 /\ init_iter_num <= InitCount /\ Initialise(meas')
    <3>1. IMUpose' = <<>> /\ UNCHANGED last_lidar_end_time_
      BY <2>9, LioAssumption DEF Initialise, PInv, Reached, OrderInv, FilterTypes
    <3>2. Last(meas'.imu) \in Nat
      BY <2>2, <2>9, ElementOfSeq DEF Last
    <3>3. last_imu_' \in Int /\ filter_time' \in Int
      BY <2>9, <3>2 DEF Initialise
    <3> QED
      BY <1>1, <2>5, <3>1, <3>3 DEF PInv, Reached, PropagatedRight
  <2>10. CASE c > 0 /\ ~flg_first_scan /\ ~(init_iter_num <= InitCount)
              /\ Propagate(meas', lidar_end_time')
    <3>1. Reached /\ Propagate(meas', end)
      BY <1>2, <2>1, <2>10 DEF PInv
    <3>2. \A i \in 1..c : i \in 1..n /\ meas'.imu[i] <= end
      <4>1. \A i \in 1..c : i \in 1..n
        BY <2>3
      <4> QED
        BY <2>2, <2>10, <4>1
    <3>3. IMUpose # <<>> => \A i \in 1..c : meas'.imu[i] > last_lidar_end_time_
      BY <2>2, <2>7, <3>2
    <3>4. /\ filter_time' \in Int /\ last_lidar_end_time_' = end
          /\ last_imu_' \in Nat /\ last_imu_' <= end
          /\ IMUpose # <<>> => filter_time' - filter_time = end - last_lidar_end_time_
      BY <2>2, <2>10, <3>1, <3>2, <3>3, PropagateReaches
    <3>5. init_iter_num' > InitCount
      <4>1. init_iter_num' = init_iter_num
        BY <2>2, <2>10 DEF Process, Undistort
      <4> QED
        BY <2>10, <4>1, LioAssumption DEF PInv, OrderInv, FilterTypes
    <3>6. ASSUME NEW i \in 1..n - c
          PROVE  imu_buffer'[i] > end
      <4>1. i + c \in c + 1..n
        BY <2>2, <2>3
      <4> QED
        BY <2>2, <2>10, <4>1
    <3>7. Reached'
      BY <2>2, <2>4, <3>4, <3>5, <3>6 DEF Reached
    <3> QED
      BY <1>1, <3>4, <3>7 DEF PInv, PropagatedRight
  <2> QED
    <3>1. meas'.imu = <<>> <=> ~(c > 0)
      BY <2>2
    <3> QED
      BY <2>8, <2>9, <2>10, <3>1 DEF Timer, ProcessImu
<1> QED
  BY <1>3, <1>4

(* A callback that jumps back moves nothing of the filter.                 *)
LEMMA JumpLeavesFilter ==
  ASSUME NextImu, loops' # loops
  PROVE  UNCHANGED imuVars
  BY DEF NextImu, Callback, Timer, TimerCallback, stampVars

(* Until the stamps jump back, every undistorted scan after the first      *)
(* propagates the filter by exactly the time between the ends of the two   *)
(* scans, over any number of packages, lost samples and scans that are     *)
(* skipped.                                                                *)
THEOREM FilterReachesEnd == SpecImu => PropagatedToEnd
<1> DEFINE Jumped == loops # 0
           Counted == loops \in Nat
<1>1. InitImu => Counted /\ (Jumped \/ PInv)
  BY InitOrder, ImuAssumption DEF InitImu, Init, PInv, Reached
<1>2. Counted /\ [NextImu]_allVars => Counted' /\ (Jumped' \/ ~Jumped)
  BY ImuStepIsStep, LoopsGrow
<1>3. PInv /\ ~Jumped' /\ NextImu => PInv' /\ PropagatedRight
  BY CallbackReaches, TimerReaches DEF NextImu
<1>4. PInv /\ UNCHANGED allVars => PInv'
  <2> SUFFICES ASSUME PInv, UNCHANGED allVars
               PROVE  PInv'
    OBVIOUS
  <2>1. OrderInv'
    BY StutterKeepsOrder DEF PInv, allVars
  <2> QED
    BY <2>1 DEF allVars, vars, bufferVars, stampVars, filterVars, imuVars, PInv, Reached
<1>5. Counted /\ (Jumped \/ PInv) /\ [NextImu]_allVars => Counted' /\ (Jumped' \/ PInv')
  BY <1>2, <1>3, <1>4
<1>6. Counted /\ (Jumped \/ PInv) /\ [NextImu]_allVars => [PropagatedRight]_allVars
  <2>1. ASSUME PInv, NextImu, Jumped', ~Jumped
        PROVE  PropagatedRight
    BY <2>1, JumpLeavesFilter DEF PropagatedRight, imuVars
  <2> QED
    BY <1>3, <2>1 DEF PropagatedRight
<1> QED
  <2>1. SpecImu => [][PropagatedRight]_allVars
    BY <1>1, <1>5, <1>6, PTL DEF SpecImu
  <2> QED
    BY <2>1 DEF PropagatedToEnd, PropagatedRight

-----------------------------------------------------------------------------
(* Why a scan finds samples of its own: none of its parts follows from the *)
(* others alone.                                                           *)

(* The scans wait in order, each after the end of the one before.          *)
ScansInOrder ==
  LET n == Len(lidar_buffer)
  IN /\ \A i \in 1..n - 1 : lidar_buffer[i + 1].stamp >= lidar_buffer[i].stamp + Duration
     /\ n > 0 => lidar_buffer[n].stamp = last_timestamp_lidar

(* No sample is missing between the end of the last scan and the buffer.   *)
SamplesReachBack ==
  IF imu_buffer = <<>> THEN ~lidar_pushed /\ last_timestamp_imu <= lidar_end_time
  ELSE imu_buffer[1] <= lidar_end_time + MaxGap

(* The scan that is taken, or will be, ends a Duration after the last one, *)
(* the first scan apart.                                                   *)
EndsApart ==
  IF lidar_pushed
  THEN /\ lidar_end_time = lidar_buffer[1].stamp + lidar_mean_scantime
       /\ ~flg_first_scan => imu_buffer[1] < lidar_end_time
  ELSE IF flg_first_scan THEN lidar_end_time = 0
  ELSE IF lidar_buffer = <<>> THEN last_timestamp_lidar + lidar_mean_scantime >= lidar_end_time
  ELSE lidar_buffer[1].stamp + lidar_mean_scantime >= lidar_end_time + Duration

(* Before a scan there is none; before the filter is set up, no cloud.     *)
NothingBefore ==
  /\ last_timestamp_lidar = -1 => flg_first_scan /\ lidar_buffer = <<>>
  /\ init_iter_num <= InitCount => feats_undistort = None

(* A scan that does not tell how long it lasts comes after one that does.  *)
MeanIsKnown ==
  /\ \A i \in 1..Len(lidar_buffer) :
       lidar_buffer[i].kind = "untimed" =>
         \/ lidar_mean_scantime = Duration
         \/ \E j \in 1..i - 1 : lidar_buffer[j].kind = "timed"
  /\ lidar_pushed /\ lidar_buffer[1].kind = "timed" => lidar_mean_scantime = Duration

RInv ==
  /\ OrderInv /\ ScansInOrder /\ SamplesReachBack /\ EndsApart
  /\ NothingBefore /\ MeanIsKnown /\ RegisteredInHand

-----------------------------------------------------------------------------
LEMMA InitRInv == Init => RInv
<1> SUFFICES ASSUME Init
             PROVE  RInv
  OBVIOUS
<1> USE DEF Init
<1>1. OrderInv
  BY InitOrder
<1>2. ScansInOrder
  BY DEF ScansInOrder
<1>3. SamplesReachBack /\ EndsApart
  BY DEF SamplesReachBack, EndsApart
<1>4. NothingBefore /\ MeanIsKnown /\ RegisteredInHand
  BY DEF NothingBefore, MeanIsKnown, RegisteredInHand
<1> QED
  BY <1>1, <1>2, <1>3, <1>4 DEF RInv, OrderInv

(* A new scan begins after the end of the last one in the buffer.          *)
LEMMA PclCbkKeepsRInv ==
  ASSUME loops' = 0, RInv, NEW s \in Scans, PclCbk(s)
  PROVE  RInv'
<1> DEFINE n == Len(lidar_buffer)
<1>1. OrderInv'
  BY PclCbkKeepsOrder DEF RInv
<1>2. /\ UNCHANGED <<imu_buffer, last_timestamp_imu, syncVars, filterVars>>
      /\ last_timestamp_lidar' = s.stamp
      /\ InOrder(last_timestamp_lidar, s.stamp, Duration)
      /\ lidar_buffer' = Append(lidar_buffer, s)
      /\ TimesAreKnown(s)
  <2>1. ~(s.stamp < last_timestamp_lidar)
    BY DEF PclCbk, RInv, OrderInv, IInv, LidarTypes
  <2> QED
    BY <2>1 DEF PclCbk, JumpsBack
<1>3. /\ s.stamp \in Nat /\ n \in Nat /\ lidar_buffer \in Seq(Scans)
      /\ last_timestamp_lidar \in Int /\ last_timestamp_lidar >= -1
      /\ Duration \in Nat \ {0, 1} /\ lidar_end_time \in Nat /\ lidar_mean_scantime \in Nat
  BY LioAssumption DEF RInv, OrderInv, IInv, LidarTypes, FilterTypes, Scans, Times
<1>4. /\ lidar_buffer' \in Seq(Scans) /\ Len(lidar_buffer') = n + 1
      /\ \A i \in 1..n : lidar_buffer'[i] = lidar_buffer[i]
      /\ lidar_buffer'[n + 1] = s
      /\ lidar_buffer' # <<>>
  BY <1>2, <1>3
<1>5. SamplesReachBack'
  BY <1>2, <1>3 DEF RInv, SamplesReachBack, syncVars, filterVars
<1>6. ScansInOrder'
  <2> HIDE DEF n
  <2>1. \A i \in 1..n - 1 : lidar_buffer[i + 1].stamp >= lidar_buffer[i].stamp + Duration
    BY DEF RInv, OrderInv, ScansInOrder, n
  <2>2. n > 0 => lidar_buffer[n].stamp = last_timestamp_lidar /\ last_timestamp_lidar # -1
    <3>1. n > 0 => lidar_buffer # <<>>
      BY DEF n
    <3> QED
      BY <3>1 DEF RInv, OrderInv, ScansInOrder, NothingBefore, n
  <2>3. ASSUME NEW i \in 1..n
        PROVE  lidar_buffer'[i + 1].stamp >= lidar_buffer'[i].stamp + Duration
    <3>1. CASE i \in 1..n - 1
      <4>1. i + 1 \in 1..n
        BY <1>3, <3>1
      <4> QED
        BY <1>4, <2>1, <3>1, <4>1
    <3>2. CASE i = n
      BY <1>2, <1>3, <1>4, <2>2, <3>2 DEF InOrder
    <3> QED
      BY <1>3, <3>1, <3>2
  <2> QED
    BY <1>2, <1>3, <1>4, <2>3 DEF ScansInOrder
<1>7. EndsApart'
  <2>1. lidar_buffer # <<>> => lidar_buffer'[1] = lidar_buffer[1]
    BY <1>3, <1>4
  <2>2. lidar_buffer = <<>> => lidar_buffer'[1] = s /\ ~lidar_pushed
    BY <1>2 DEF RInv, OrderInv, IInv, TakenIsFront
  <2>3. ~flg_first_scan => last_timestamp_lidar # -1
    BY DEF RInv, OrderInv, NothingBefore
  <2>4. CASE lidar_buffer # <<>>
    BY <1>2, <1>4, <2>1, <2>4 DEF RInv, OrderInv, EndsApart, syncVars, filterVars
  <2>5. CASE lidar_buffer = <<>>
    BY <1>2, <1>3, <1>4, <2>2, <2>3, <2>5 DEF RInv, OrderInv, EndsApart, InOrder, syncVars, filterVars
  <2> QED
    BY <2>4, <2>5
<1>8. NothingBefore' /\ RegisteredInHand'
  BY <1>2, <1>3 DEF RInv, OrderInv, NothingBefore, RegisteredInHand, syncVars, filterVars
<1>9. MeanIsKnown'
  <2> HIDE DEF n
  <2>1. lidar_mean_scantime \in {0, Duration} /\ UNCHANGED <<lidar_mean_scantime, lidar_pushed>>
    BY <1>2 DEF RInv, OrderInv, FilterTypes, syncVars
  <2>2. /\ \A i \in 1..n : lidar_buffer[i].kind = "untimed" =>
              \/ lidar_mean_scantime = Duration
              \/ \E j \in 1..i - 1 : lidar_buffer[j].kind = "timed"
        /\ lidar_pushed /\ lidar_buffer[1].kind = "timed" => lidar_mean_scantime = Duration
    BY DEF RInv, MeanIsKnown, n
  <2>3. ASSUME NEW i \in 1..n, lidar_buffer'[i].kind = "untimed"
        PROVE  lidar_mean_scantime = Duration \/ \E j \in 1..i - 1 : lidar_buffer'[j].kind = "timed"
    <3>1. lidar_buffer[i].kind = "untimed" /\ \A j \in 1..i - 1 : j \in 1..n
      BY <1>3, <1>4, <2>3
    <3> QED
      BY <1>4, <2>2, <3>1
  <2>4. ASSUME s.kind = "untimed"
        PROVE  lidar_mean_scantime = Duration \/ \E j \in 1..n : lidar_buffer'[j].kind = "timed"
    <3>1. lidar_mean_scantime # 0 \/ \E j \in DOMAIN lidar_buffer : lidar_buffer[j].kind = "timed"
      BY <1>2, <2>4 DEF TimesAreKnown
    <3>2. DOMAIN lidar_buffer = 1..n
      BY <1>3 DEF n
    <3> QED
      BY <1>4, <2>1, <3>1, <3>2
  <2>5. \A i \in 1..n + 1 : i \in 1..n \/ (i = n + 1 /\ i - 1 = n)
    BY <1>3
  <2>6. lidar_pushed => lidar_buffer # <<>> /\ lidar_buffer'[1] = lidar_buffer[1]
    <3>1. lidar_pushed => lidar_buffer # <<>>
      BY DEF RInv, OrderInv, IInv, TakenIsFront
    <3>2. lidar_buffer # <<>> => 1 \in 1..n
      BY <1>3 DEF n
    <3> QED
      BY <1>4, <3>1, <3>2
  <2>7. ASSUME NEW i \in 1..n + 1, lidar_buffer'[i].kind = "untimed"
        PROVE  lidar_mean_scantime = Duration \/ \E j \in 1..i - 1 : lidar_buffer'[j].kind = "timed"
    BY <1>4, <2>3, <2>4, <2>5, <2>7
  <2> QED
    BY <1>4, <2>1, <2>2, <2>6, <2>7 DEF MeanIsKnown
<1> QED
  BY <1>1, <1>5, <1>6, <1>7, <1>8, <1>9 DEF RInv, OrderInv

(* A new sample comes at most MaxGap after the last one, which the buffer  *)
(* ends with or else the last scan has used.                               *)
LEMMA ImuCbkKeepsRInv ==
  ASSUME loops' = 0, RInv, NEW t \in Times, ImuCbk(t)
  PROVE  RInv'
<1> DEFINE n == Len(imu_buffer)
<1>1. OrderInv'
  BY ImuCbkKeepsOrder DEF RInv
<1>2. /\ UNCHANGED <<lidar_buffer, time_buffer, last_timestamp_lidar, syncVars, filterVars>>
      /\ last_timestamp_imu' = t
      /\ last_timestamp_imu = -1 \/ t >= last_timestamp_imu + 1
      /\ t <= last_timestamp_imu + MaxGap
      /\ imu_buffer' = Append(imu_buffer, t)
  BY SampleAppended DEF RInv
<1>3. /\ t \in Nat /\ n \in Nat /\ imu_buffer \in Seq(Nat)
      /\ last_timestamp_imu \in Int /\ last_timestamp_imu >= -1
      /\ MaxGap \in Nat \ {0} /\ lidar_end_time \in Nat
  BY LioAssumption DEF RInv, OrderInv, IInv, LidarTypes, FilterTypes, Times
<1>4. /\ imu_buffer' \in Seq(Nat) /\ Len(imu_buffer') = n + 1
      /\ \A i \in 1..n : imu_buffer'[i] = imu_buffer[i]
      /\ imu_buffer'[n + 1] = t
      /\ imu_buffer' # <<>>
  BY <1>2, <1>3
<1>5. ScansInOrder' /\ NothingBefore' /\ MeanIsKnown' /\ RegisteredInHand'
  BY <1>2, <1>3, <1>4 DEF RInv, ScansInOrder, NothingBefore, MeanIsKnown, RegisteredInHand,
     syncVars, filterVars
<1>6. SamplesReachBack'
  <2>1. CASE imu_buffer = <<>>
    <3>1. imu_buffer'[1] = t
      BY <1>2, <2>1
    <3> QED
      BY <1>2, <1>3, <1>4, <2>1, <3>1 DEF RInv, OrderInv, SamplesReachBack, syncVars
  <2>2. CASE imu_buffer # <<>>
    <3>1. imu_buffer'[1] = imu_buffer[1]
      BY <1>3, <1>4, <2>2
    <3> QED
      BY <1>2, <1>4, <2>2, <3>1 DEF RInv, OrderInv, SamplesReachBack, syncVars
  <2> QED
    BY <2>1, <2>2
<1>7. EndsApart'
  <2>1. imu_buffer # <<>> => imu_buffer'[1] = imu_buffer[1]
    BY <1>3, <1>4
  <2>2. lidar_pushed => imu_buffer # <<>>
    BY DEF RInv, OrderInv, SamplesReachBack
  <2> QED
    BY <1>2, <2>1, <2>2 DEF RInv, OrderInv, EndsApart, syncVars, filterVars
<1> QED
  BY <1>1, <1>5, <1>6, <1>7 DEF RInv, OrderInv

(* The end of the scan in hand: a Duration after the last end, so after    *)
(* the first sample that waits.                                            *)
LEMMA TakenEnds ==
  ASSUME MaxGap < Duration, RInv, lidar_buffer # <<>>, imu_buffer # <<>>
  PROVE  /\ Taken.lidar = lidar_buffer[1]
         /\ Taken.end \in Nat /\ Taken.mean \in {0, Duration}
         /\ Taken.end = lidar_buffer[1].stamp + Taken.mean
         /\ Taken.end >= lidar_end_time
         /\ ~flg_first_scan => imu_buffer[1] < Taken.end
<1> DEFINE s == lidar_buffer[1]
<1>1. /\ s \in Scans /\ s.stamp \in Nat /\ time_buffer[1] = s.stamp
      /\ Head(lidar_buffer) = s /\ Head(time_buffer) = time_buffer[1]
  <2>1. lidar_buffer \in Seq(Scans) /\ Len(lidar_buffer) >= 1
    BY DEF RInv, OrderInv, IInv, LidarTypes
  <2>2. s \in Scans /\ time_buffer[1] = s.stamp
    BY <2>1 DEF RInv, OrderInv, IInv, Aligned
  <2> QED
    BY <2>1, <2>2 DEF Scans, Times
<1>2. /\ Duration \in Nat /\ MaxGap \in Nat /\ lidar_end_time \in Nat
      /\ lidar_mean_scantime \in {0, Duration} /\ imu_buffer[1] \in Nat
  BY LioAssumption DEF RInv, OrderInv, FilterTypes
<1>3. imu_buffer[1] <= lidar_end_time + MaxGap
  BY DEF RInv, OrderInv, SamplesReachBack
<1>4. Taken.lidar = s
  BY <1>1, TakenFromFront DEF RInv, OrderInv
<1> HIDE DEF s
<1>5. CASE lidar_pushed
  <2>1. Taken.end = lidar_end_time /\ Taken.mean = lidar_mean_scantime
    BY <1>5 DEF Taken
  <2>2. lidar_end_time = s.stamp + lidar_mean_scantime
    BY <1>5 DEF RInv, OrderInv, EndsApart, s
  <2>3. ~flg_first_scan => imu_buffer[1] < lidar_end_time
    BY <1>5 DEF RInv, OrderInv, EndsApart
  <2> QED
    BY <1>2, <1>4, <2>1, <2>2, <2>3 DEF s
<1>6. CASE ~lidar_pushed
  <2> DEFINE mean == IF s.kind = "timed" THEN Duration ELSE lidar_mean_scantime
  <2>1. Taken.end = time_buffer[1] + mean /\ Taken.mean = mean
    BY <1>1, <1>6 DEF Taken
  <2>2. mean \in {0, Duration} /\ mean >= lidar_mean_scantime
    BY <1>2
  <2> HIDE DEF mean
  <2>3. Taken.end = s.stamp + mean /\ Taken.end \in Nat
    BY <1>1, <1>2, <2>1, <2>2
  <2>4. CASE flg_first_scan
    <3>1. lidar_end_time = 0
      BY <1>6, <2>4 DEF RInv, OrderInv, EndsApart
    <3> QED
      BY <1>4, <2>1, <2>2, <2>3, <2>4, <3>1 DEF s
  <2>5. CASE ~flg_first_scan
    <3>1. s.stamp + lidar_mean_scantime >= lidar_end_time + Duration
      BY <1>6, <2>5 DEF RInv, OrderInv, EndsApart, s
    <3>2. Taken.end >= lidar_end_time + Duration
      BY <1>1, <1>2, <2>2, <2>3, <3>1
    <3> QED
      BY <1>2, <1>3, <1>4, <2>1, <2>2, <2>3, <3>2 DEF s
  <2> QED
    BY <2>4, <2>5
<1> QED
  BY <1>5, <1>6

(* A scan with points lasts a Duration, and once that is known it stays.   *)
LEMMA TakenMean ==
  ASSUME RInv, lidar_buffer # <<>>
  PROVE  /\ lidar_buffer[1].kind # "empty" => Taken.mean = Duration
         /\ lidar_mean_scantime = Duration => Taken.mean = Duration
<1>1. lidar_buffer \in Seq(Scans) /\ Head(lidar_buffer) = lidar_buffer[1]
  BY DEF RInv, OrderInv, IInv, LidarTypes
<1>2. 1 \in 1..Len(lidar_buffer) /\ lidar_buffer[1].kind \in {"timed", "untimed", "empty"}
  <2>1. Len(lidar_buffer) >= 1 /\ Len(lidar_buffer) \in Nat
    BY <1>1
  <2>2. 1 \in 1..Len(lidar_buffer) /\ lidar_buffer[1] \in Scans
    BY <1>1, <2>1
  <2> QED
    BY <2>2 DEF Scans
<1>3. 1..1 - 1 = {}
  OBVIOUS
<1>4. lidar_buffer[1].kind = "untimed" => lidar_mean_scantime = Duration
  BY <1>2, <1>3 DEF RInv, MeanIsKnown
<1>5. CASE lidar_pushed
  BY <1>2, <1>4, <1>5 DEF RInv, MeanIsKnown, Taken
<1>6. CASE ~lidar_pushed
  BY <1>1, <1>2, <1>4, <1>6 DEF Taken
<1> QED
  BY <1>5, <1>6

(* The scan is taken and waits for the rest of its samples.                *)
LEMMA TimerWaitsKeepsRInv ==
  ASSUME MaxGap < Duration, RInv, TimerCallback, ~ImuArrived(Taken.end)
  PROVE  RInv'
<1>1. OrderInv'
  BY TimerKeepsOrder DEF RInv
<1>2. /\ lidar_buffer # <<>> /\ imu_buffer # <<>>
      /\ lidar_end_time' = Taken.end /\ lidar_mean_scantime' = Taken.mean
      /\ lidar_pushed' = TRUE /\ registered' = None
      /\ UNCHANGED <<bufferVars, flg_first_scan, init_iter_num, feats_undistort, tree, stampVars>>
  BY DEF TimerCallback
<1>3. /\ Taken.end \in Nat /\ Taken.mean \in {0, Duration}
      /\ Taken.end = lidar_buffer[1].stamp + Taken.mean
      /\ Taken.end >= lidar_end_time
      /\ ~flg_first_scan => imu_buffer[1] < Taken.end
  BY <1>2, TakenEnds
<1>4. ScansInOrder'
  BY <1>2 DEF RInv, ScansInOrder, bufferVars, stampVars
<1>5. SamplesReachBack'
  <2>1. imu_buffer[1] <= lidar_end_time + MaxGap
    BY <1>2 DEF RInv, OrderInv, SamplesReachBack
  <2>2. imu_buffer[1] \in Nat /\ MaxGap \in Nat /\ lidar_end_time \in Nat
    BY <1>2, LioAssumption DEF RInv, OrderInv, FilterTypes
  <2> QED
    BY <1>2, <1>3, <2>1, <2>2 DEF SamplesReachBack, bufferVars
<1>6. EndsApart'
  BY <1>2, <1>3 DEF EndsApart, bufferVars
<1>7. NothingBefore' /\ RegisteredInHand'
  BY <1>2 DEF RInv, OrderInv, NothingBefore, RegisteredInHand, bufferVars, stampVars
<1>8. MeanIsKnown'
  <2>1. /\ lidar_buffer[1].kind # "empty" => Taken.mean = Duration
        /\ lidar_mean_scantime = Duration => Taken.mean = Duration
    BY <1>2, TakenMean
  <2> QED
    BY <1>2, <2>1 DEF RInv, MeanIsKnown, bufferVars
<1> QED
  BY <1>1, <1>4, <1>5, <1>6, <1>7, <1>8 DEF RInv, OrderInv

(* What pop_front of a deque leaves: every element but the first, each one *)
(* place further to the front.                                             *)
LEMMA TailShifts ==
  ASSUME NEW S, NEW s \in Seq(S), s # <<>>
  PROVE  /\ Tail(s) \in Seq(S) /\ Len(Tail(s)) = Len(s) - 1
         /\ \A i \in 1..Len(s) - 1 : i + 1 \in 1..Len(s) /\ Tail(s)[i] = s[i + 1]
         /\ Tail(s) = <<>> <=> Len(s) = 1
<1>1. Tail(s) \in Seq(S) /\ Len(Tail(s)) = Len(s) - 1
  BY HeadTailProperties
<1>2. \A i \in 1..Len(s) - 1 : Tail(s)[i] = s[i + 1]
  BY HeadTailProperties
<1>3. \A i \in 1..Len(s) - 1 : i + 1 \in 1..Len(s)
  OBVIOUS
<1>4. Tail(s) = <<>> <=> Len(Tail(s)) = 0
  BY <1>1, EmptySeq
<1>5. Len(s) \in Nat /\ (Len(s) - 1 = 0 <=> Len(s) = 1)
  OBVIOUS
<1> QED
  BY <1>1, <1>2, <1>3, <1>4, <1>5

(* The scan is released with its samples: the buffers lose their fronts,   *)
(* and the cloud that is registered can only be that of this scan.         *)
LEMMA TimerReleasesKeepsRInv ==
  ASSUME MaxGap < Duration, RInv, TimerCallback, ImuArrived(Taken.end)
  PROVE  RInv'
<1> DEFINE n == Len(imu_buffer)
           m == Len(lidar_buffer)
           end == Taken.end
<1>1. OrderInv'
  BY TimerKeepsOrder DEF RInv
<1>2. PICK c \in 0..n :
        /\ c > 0 <=> imu_buffer[1] < end
        /\ c > 0 => /\ \A i \in 1..c : imu_buffer[i] <= end
                    /\ \A i \in c + 1..n : imu_buffer[i] > end
        /\ lidar_buffer' = Tail(lidar_buffer) /\ lidar_pushed' = FALSE
        /\ meas'.lidar = Taken.lidar
        /\ imu_buffer' \in Seq(Nat) /\ Len(imu_buffer') = n - c
        /\ \A i \in 1..n - c : i + c \in 1..n /\ imu_buffer'[i] = imu_buffer[i + c]
        /\ Process(meas', c)
  BY TimerReleases DEF RInv
<1>3. /\ lidar_buffer # <<>> /\ imu_buffer # <<>>
      /\ lidar_end_time' = end /\ lidar_mean_scantime' = Taken.mean
      /\ UNCHANGED stampVars
  BY DEF TimerCallback
<1>4. /\ Taken.mean \in {0, Duration} /\ Taken.lidar = lidar_buffer[1]
      /\ end \in Nat /\ end = lidar_buffer[1].stamp + Taken.mean
      /\ end >= lidar_end_time
      /\ ~flg_first_scan => imu_buffer[1] < end
  BY <1>3, TakenEnds
<1> HIDE DEF end
<1>5. /\ n \in Nat \ {0} /\ imu_buffer \in Seq(Nat) /\ c \in 0..n
      /\ \A i \in 1..n : imu_buffer[i] \in Nat
      /\ \A i, j \in 1..n : i < j => imu_buffer[i] < imu_buffer[j]
      /\ \A i \in 1..n - 1 : imu_buffer[i + 1] <= imu_buffer[i] + MaxGap
      /\ imu_buffer[n] = last_timestamp_imu
      /\ MaxGap \in Nat /\ lidar_end_time \in Nat /\ init_iter_num \in Nat
      /\ imu_buffer[1] <= lidar_end_time + MaxGap
  <2>1. imu_buffer \in Seq(Nat) /\ lidar_end_time \in Nat /\ init_iter_num \in Nat
    BY DEF RInv, OrderInv, FilterTypes
  <2>2. n \in Nat \ {0}
    BY <1>3, <2>1
  <2>3. imu_buffer[1] <= lidar_end_time + MaxGap
    BY <1>3 DEF RInv, OrderInv, SamplesReachBack
  <2>4. c \in 0..n
    BY <1>2, <2>2
  <2> QED
    BY <2>1, <2>2, <2>3, <2>4, LioAssumption DEF RInv, OrderInv, ImuInOrder
<1>6. /\ m \in Nat \ {0} /\ lidar_buffer \in Seq(Scans)
      /\ \A i \in 1..m : lidar_buffer[i].stamp \in Nat
      /\ \A i \in 1..m - 1 : lidar_buffer[i + 1].stamp >= lidar_buffer[i].stamp + Duration
      /\ lidar_buffer[m].stamp = last_timestamp_lidar
      /\ last_timestamp_lidar # -1
  <2>1. lidar_buffer \in Seq(Scans)
    BY DEF RInv, OrderInv, IInv, LidarTypes
  <2>2. m \in Nat \ {0}
    BY <1>3, <2>1
  <2>3. \A i \in 1..m : lidar_buffer[i].stamp \in Nat
    <3> SUFFICES ASSUME NEW i \in 1..m
                 PROVE  lidar_buffer[i].stamp \in Nat
      OBVIOUS
    <3>1. lidar_buffer[i] \in Scans
      BY <2>1
    <3> QED
      BY <3>1 DEF Scans, Times
  <2> QED
    BY <1>3, <2>1, <2>2, <2>3 DEF RInv, OrderInv, ScansInOrder, NothingBefore
<1>7. /\ imu_buffer' \in Seq(Nat) /\ Len(imu_buffer') = n - c
      /\ \A i \in 1..n - c : i + c \in 1..n /\ imu_buffer'[i] = imu_buffer[i + c]
      /\ imu_buffer' = <<>> <=> c = n
  <2>1. imu_buffer' \in Seq(Nat) /\ Len(imu_buffer') = n - c
    BY <1>2
  <2>2. n - c = 0 <=> c = n
    BY <1>5
  <2>3. imu_buffer' = <<>> <=> Len(imu_buffer') = 0
    BY <2>1
  <2> QED
    BY <1>2, <2>1, <2>2, <2>3
<1>8. /\ lidar_buffer' \in Seq(Scans) /\ Len(lidar_buffer') = m - 1
      /\ \A i \in 1..m - 1 : i + 1 \in 1..m /\ lidar_buffer'[i] = lidar_buffer[i + 1]
      /\ lidar_buffer' = <<>> <=> m = 1
  BY <1>2, <1>3, <1>6, TailShifts
<1>9. flg_first_scan' = FALSE
  BY <1>2, <1>3 DEF Process, RInv, FilterTypes
<1>10. init_iter_num' \in Nat /\ (init_iter_num' <= InitCount => feats_undistort' = None)
  <2>1. InitCount \in Nat /\ (init_iter_num <= InitCount => feats_undistort = None)
    BY LioAssumption DEF RInv, OrderInv, NothingBefore
  <2> QED
    BY <1>2, <1>3, <1>5, <2>1 DEF Process, Undistort
<1>11. RegisteredInHand'
  <2>1. CASE flg_first_scan
    BY <1>2, <1>3, <2>1 DEF Process, RegisteredInHand
  <2>2. CASE ~flg_first_scan
    <3>1. c # 0 /\ Undistort(meas', c) /\ Register(meas')
      BY <1>2, <1>3, <1>4, <2>2 DEF Process
    <3>2. feats_undistort' = None \/ feats_undistort' = meas'.lidar
      BY <3>1 DEF Undistort, RInv, NothingBefore
    <3>3. lidar_buffer[1].kind # "empty" => Taken.mean = Duration
      BY <1>3, TakenMean
    <3>4. meas'.lidar.kind # "empty" => lidar_end_time' = meas'.lidar.stamp + Duration
      BY <1>2, <1>3, <1>4, <3>3
    <3>5. CASE registered' = None
      BY <3>5 DEF RegisteredInHand
    <3>6. CASE registered' # None
      <4>1. /\ feats_undistort' # None /\ feats_undistort'.kind # "empty"
            /\ registered' = [odometry |-> [scan |-> meas'.lidar, stamp |-> lidar_end_time'],
                              frame |-> [cloud |-> feats_undistort', stamp |-> lidar_end_time']]
        BY <3>1, <3>6 DEF Register, Odometry, Frame
      <4> QED
        BY <3>2, <3>4, <4>1 DEF RegisteredInHand
    <3> QED
      BY <3>5, <3>6
  <2> QED
    BY <2>1, <2>2
<1> HIDE DEF n, m
<1>12. ScansInOrder'
  <2>1. ASSUME NEW i \in 1..(m - 1) - 1
        PROVE  lidar_buffer'[i + 1].stamp >= lidar_buffer'[i].stamp + Duration
    <3>1. i \in 1..m - 1 /\ i + 1 \in 1..m - 1
      BY <1>6
    <3> QED
      BY <1>6, <1>8, <3>1
  <2>2. m - 1 > 0 => lidar_buffer'[m - 1].stamp = last_timestamp_lidar'
    <3> SUFFICES ASSUME m - 1 > 0
                 PROVE  lidar_buffer'[m - 1].stamp = last_timestamp_lidar'
      OBVIOUS
    <3>1. m - 1 \in 1..m - 1 /\ (m - 1) + 1 = m
      BY <1>6
    <3> QED
      BY <1>2, <1>3, <1>6, <1>8, <3>1 DEF stampVars
  <2> QED
    BY <1>8, <2>1, <2>2 DEF ScansInOrder
<1>13. SamplesReachBack'
  <2>1. CASE c = n
    <3>1. c # 0 /\ last_timestamp_imu <= end
      BY <1>2, <1>5, <2>1
    <3> QED
      BY <1>2, <1>3, <1>7, <2>1, <3>1 DEF SamplesReachBack, stampVars
  <2>2. CASE c # n
    <3>1. 1 \in 1..n - c /\ imu_buffer'[1] = imu_buffer[1 + c] /\ imu_buffer' # <<>>
      BY <1>5, <1>7, <2>2
    <3>2. CASE c = 0
      BY <1>2, <1>3, <1>4, <1>5, <3>1, <3>2 DEF SamplesReachBack
    <3>3. CASE c # 0
      <4>1. c \in 1..n - 1 /\ imu_buffer[c] <= end /\ imu_buffer[c] \in Nat /\ 1 + c = c + 1
        <5>1. c \in 1..n /\ c \in 1..c /\ c \in 1..n - 1 /\ 1 + c = c + 1
          BY <1>5, <2>2, <3>3
        <5>2. imu_buffer[c] \in Nat
          BY <1>5, <5>1
        <5>3. c > 0
          BY <5>1
        <5>4. imu_buffer[c] <= end
          BY <1>2, <5>1, <5>3
        <5> QED
          BY <5>1, <5>2, <5>4
      <4>2. c + 1 \in 1..n
        BY <1>5, <4>1
      <4>3. imu_buffer[c + 1] \in Nat /\ imu_buffer[c + 1] <= end + MaxGap
        <5>1. imu_buffer[c + 1] <= imu_buffer[c] + MaxGap
          BY <1>5, <4>1
        <5>2. imu_buffer[c + 1] \in Nat
          BY <1>5, <4>2
        <5>3. MaxGap \in Nat /\ imu_buffer[c] \in Nat /\ imu_buffer[c] <= end
          BY <1>5, <4>1
        <5> QED
          BY <1>4, <5>1, <5>2, <5>3
      <4> QED
        BY <1>2, <1>3, <3>1, <4>1, <4>3 DEF SamplesReachBack
    <3> QED
      BY <3>2, <3>3
  <2> QED
    BY <2>1, <2>2
<1>14. EndsApart'
  <2>1. Duration \in Nat /\ Taken.mean \in Nat
    BY <1>4, LioAssumption
  <2>2. CASE m = 1
    BY <1>2, <1>3, <1>4, <1>6, <1>8, <1>9, <2>1, <2>2 DEF EndsApart, stampVars
  <2>3. CASE m # 1
    <3>1. 1 \in 1..m - 1 /\ 1 + 1 \in 1..m /\ 1 \in 1..m
      BY <1>6, <2>3
    <3>2. lidar_buffer'[1].stamp >= lidar_buffer[1].stamp + Duration
      BY <1>6, <1>8, <3>1
    <3>3. lidar_buffer[1].stamp \in Nat /\ lidar_buffer'[1].stamp \in Nat
      BY <1>6, <1>8, <3>1
    <3>4. lidar_buffer'[1].stamp + Taken.mean >= end + Duration
      BY <1>4, <2>1, <3>2, <3>3
    <3> QED
      BY <1>2, <1>3, <1>8, <1>9, <2>3, <3>4 DEF EndsApart
  <2> QED
    BY <2>2, <2>3
<1>15. NothingBefore'
  BY <1>2, <1>3, <1>6, <1>10 DEF NothingBefore, stampVars
<1>16. MeanIsKnown'
  <2>1. /\ lidar_buffer[1].kind # "empty" => Taken.mean = Duration
        /\ lidar_mean_scantime = Duration => Taken.mean = Duration
    BY <1>3, TakenMean
  <2>2. \A i \in 1..m : lidar_buffer[i].kind = "untimed" =>
          \/ lidar_mean_scantime = Duration
          \/ \E j \in 1..i - 1 : lidar_buffer[j].kind = "timed"
    BY DEF RInv, MeanIsKnown, m
  <2>3. ASSUME NEW i \in 1..m - 1, lidar_buffer'[i].kind = "untimed", Taken.mean # Duration
        PROVE  \E j \in 1..i - 1 : lidar_buffer'[j].kind = "timed"
    <3>1. i + 1 \in 1..m /\ lidar_buffer[i + 1].kind = "untimed"
      BY <1>8, <2>3
    <3>2. PICK j \in 1..(i + 1) - 1 : lidar_buffer[j].kind = "timed"
      BY <2>1, <2>2, <2>3, <3>1
    <3>3. j # 1
      BY <2>1, <2>3, <3>2
    <3>4. j - 1 \in 1..i - 1 /\ j - 1 \in 1..m - 1 /\ (j - 1) + 1 = j
      BY <1>6, <3>2, <3>3
    <3>5. lidar_buffer'[j - 1].kind = "timed"
      BY <1>8, <3>2, <3>4
    <3> QED
      BY <3>4, <3>5
  <2> QED
    BY <1>2, <1>3, <1>8, <2>3 DEF MeanIsKnown
<1> QED
  BY <1>1, <1>11, <1>12, <1>13, <1>14, <1>15, <1>16 DEF RInv

LEMMA StutterKeepsRInv ==
  ASSUME RInv, UNCHANGED vars
  PROVE  RInv'
<1>1. OrderInv'
  BY StutterKeepsOrder DEF RInv
<1> QED
  BY <1>1 DEF vars, bufferVars, stampVars, syncVars, filterVars, RInv, ScansInOrder,
     SamplesReachBack, EndsApart, NothingBefore, MeanIsKnown, RegisteredInHand

(* The cloud that is registered is that of the scan in hand, and what is   *)
(* published of it carries the time of its end, until the stamps jump      *)
(* back: as no gap between IMU samples is as long as a scan, every scan    *)
(* but the first finds a sample of its own.                                *)
THEOREM CurrentScanRegistered ==
  ASSUME MaxGap < Duration
  PROVE  Spec => []RegistersCurrentScan
<1> DEFINE Jumped == loops # 0
           Counted == loops \in Nat
<1>1. Init => Counted /\ (Jumped \/ RInv)
  BY InitRInv DEF Init
<1>2. Counted /\ (Jumped \/ RInv) /\ [Next]_vars => Counted' /\ (Jumped' \/ RInv')
  BY LoopsGrow, PclCbkKeepsRInv, ImuCbkKeepsRInv, TimerWaitsKeepsRInv, TimerReleasesKeepsRInv,
     StutterKeepsRInv DEF Next
<1>3. Jumped \/ RInv => RegistersCurrentScan
  BY DEF RInv, RegistersCurrentScan
<1> QED
  BY <1>1, <1>2, <1>3, PTL DEF Spec

THEOREM CurrentScanRegisteredForImu ==
  ASSUME MaxGap < Duration
  PROVE  SpecImu => []RegistersCurrentScan
  BY CurrentScanRegistered, ImuImplementsSync, PTL

-----------------------------------------------------------------------------
(* The backward walk over the points of a scan.                            *)

LEMMA Least ==
  ASSUME NEW n \in Nat, NEW T, T \subseteq 1..n, T # {}
  PROVE  Min(T) \in T /\ \A x \in T : Min(T) <= x
<1> DEFINE U == {n + 1 - x : x \in T}
<1>1. U \subseteq 1..n /\ U # {}
  <2>1. \A x \in T : n + 1 - x \in 1..n
    OBVIOUS
  <2> QED
    BY <2>1, Zenon
<1>2. PICK m \in U : \A y \in U : y <= m
  <2> HIDE DEF U
  <2> QED
    BY <1>1, Largest
<1>3. PICK t \in T : m = n + 1 - t
  BY <1>2
<1>4. \A x \in T : t <= x
  <2> SUFFICES ASSUME NEW x \in T
               PROVE  t <= x
    OBVIOUS
  <2>1. n + 1 - x \in U
    OBVIOUS
  <2>2. n + 1 - x <= n + 1 - t
    BY <1>2, <1>3, <2>1
  <2>3. x \in Int /\ t \in Int
    OBVIOUS
  <2> QED
    BY <2>2, <2>3
<1> QED
  BY <1>4 DEF Min

(* What the walk is at: a point, and the intervals used so far for each.   *)
Walks(points) == [at : 1..Len(points), used : [1..Len(points) -> Seq(Nat)]]

(* One interval: a point that the walk has not passed is moved if it is    *)
(* later than the head of the interval, and then it is passed.             *)
Moves(points, walk, head, k, next) ==
  \A j \in 2..Len(points) :
    /\ next.used[j] = IF j <= walk.at /\ points[j] > head
                      THEN Append(walk.used[j], k) ELSE walk.used[j]
    /\ next.at >= j <=> (walk.at >= j /\ points[j] <= head)

LEMMA OneInterval ==
  ASSUME NEW points \in Seq(Nat), Len(points) >= 2,
         \A i, j \in 1..Len(points) : i < j => points[i] < points[j],
         NEW walk \in Walks(points), NEW head \in Int, NEW k \in Nat,
         NEW next, next = BackTo(points, head, walk, k)
  PROVE  next \in Walks(points) /\ Moves(points, walk, head, k, next)
<1> DEFINE N == Len(points)
           earlier == {j \in 1..walk.at : points[j] <= head}
           stop == IF earlier = {} THEN 0 ELSE Max(earlier)
<1>1. /\ N \in Nat /\ N >= 2 /\ walk.at \in 1..N /\ walk.used \in [1..N -> Seq(Nat)]
      /\ \A j \in 1..N : points[j] \in Nat
  <2>1. walk.at \in 1..N /\ walk.used \in [1..N -> Seq(Nat)]
    BY DEF Walks
  <2> QED
    BY <2>1, ElementOfSeq
<1>2. /\ stop \in 0..walk.at
      /\ \A j \in 1..walk.at : points[j] <= head <=> j <= stop
  <2>1. CASE earlier = {}
    BY <1>1, <2>1
  <2>2. CASE earlier # {}
    <3>1. earlier \subseteq 1..walk.at /\ walk.at \in Nat
      BY <1>1
    <3>2. Max(earlier) \in earlier /\ \A x \in earlier : x <= Max(earlier)
      <4> HIDE DEF earlier
      <4>1. PICK m \in earlier : \A x \in earlier : x <= m
        BY <2>2, <3>1, Largest
      <4>2. \A x \in earlier : m >= x
        BY <3>1, <4>1
      <4>3. Max(earlier) \in earlier /\ \A x \in earlier : Max(earlier) >= x
        BY <4>1, <4>2 DEF Max
      <4> QED
        BY <3>1, <4>3
    <3>3. stop = Max(earlier)
      BY <2>2
    <3> HIDE DEF stop
    <3>4. stop \in 1..walk.at /\ points[stop] <= head
      BY <3>2, <3>3
    <3>5. ASSUME NEW j \in 1..walk.at, j <= stop
          PROVE  points[j] <= head
      <4>1. j \in 1..N /\ stop \in 1..N /\ points[j] \in Nat /\ points[stop] \in Nat
        <5>1. j \in 1..N /\ stop \in 1..N
          BY <1>1, <3>4
        <5> QED
          BY <1>1, <5>1
      <4>2. CASE j = stop
        BY <3>4, <4>2
      <4>3. CASE j # stop
        <5>1. j < stop
          BY <3>5, <4>1, <4>3
        <5>2. points[j] < points[stop]
          BY <4>1, <5>1
        <5> QED
          BY <3>4, <4>1, <5>2
      <4> QED
        BY <4>2, <4>3
    <3>6. ASSUME NEW j \in 1..walk.at, points[j] <= head
          PROVE  j <= stop
      BY <3>2, <3>3, <3>6
    <3> QED
      BY <3>4, <3>5, <3>6
  <2> QED
    BY <2>1, <2>2
<1>3. /\ next.at = IF stop = 0 THEN 1 ELSE stop
      /\ next.used = [j \in 1..N |-> IF j \in stop + 1..walk.at THEN Append(walk.used[j], k)
                                     ELSE walk.used[j]]
      /\ next = [at |-> next.at, used |-> next.used]
  BY DEF BackTo
<1> HIDE DEF stop
<1>4. next.at \in 1..N
  BY <1>1, <1>2, <1>3
<1>5. next.used \in [1..N -> Seq(Nat)]
  BY <1>1, <1>3
<1>6. next \in Walks(points)
  BY <1>3, <1>4, <1>5 DEF Walks
<1>7. ASSUME NEW j \in 2..N
      PROVE  /\ next.used[j] = IF j <= walk.at /\ points[j] > head
                               THEN Append(walk.used[j], k) ELSE walk.used[j]
             /\ next.at >= j <=> (walk.at >= j /\ points[j] <= head)
  <2>1. j \in 1..N /\ points[j] \in Nat
    BY <1>1
  <2>2. CASE j <= walk.at
    <3>1. points[j] <= head <=> j <= stop
      BY <1>1, <1>2, <2>1, <2>2
    <3>2. j \in stop + 1..walk.at <=> points[j] > head
      BY <1>1, <1>2, <2>1, <2>2, <3>1
    <3>3. next.used[j] = IF points[j] > head THEN Append(walk.used[j], k) ELSE walk.used[j]
      BY <1>3, <2>1, <3>2
    <3>4. next.at >= j <=> points[j] <= head
      BY <1>1, <1>2, <1>3, <2>1, <3>1
    <3> QED
      BY <1>1, <2>1, <2>2, <3>3, <3>4
  <2>3. CASE ~(j <= walk.at)
    <3>1. j \notin stop + 1..walk.at /\ ~(next.at >= j) /\ ~(walk.at >= j)
      BY <1>1, <1>2, <1>3, <2>1, <2>3
    <3> QED
      BY <1>3, <2>1, <2>3, <3>1
  <2> QED
    BY <2>2, <2>3
<1> QED
  BY <1>6, <1>7 DEF Moves

-----------------------------------------------------------------------------
(* How the library walks over the intervals, the last one first.           *)
FirstOf(n) == [s \in SUBSET (1..n) |-> Min(s)]

OneBack(points, poses, n) ==
  [t \in (1..n) \X Walks(points) |-> BackTo(points, poses[t[1]], t[2], t[1] + 1)]

StartWalk(points) == [at |-> Len(points), used |-> [j \in DOMAIN points |-> <<>>]]

IsWalk(h, points, poses, n) ==
  IsFold(h, 1..n, Walks(points), StartWalk(points), OneBack(points, poses, n), FirstOf(n))

LEMMA WalkIsFold ==
  ASSUME NEW points \in Seq(Nat), Len(points) >= 2,
         \A i, j \in 1..Len(points) : i < j => points[i] < points[j],
         NEW poses \in Seq(Int), NEW n \in Nat, Len(poses) = n + 1
  PROVE  \E h : /\ IsWalk(h, points, poses, n)
                /\ Compensated(points, poses) = h[1..n].used
<1> DEFINE S == 1..n
           V == Walks(points)
<1>1. IsFiniteSet(S) /\ StartWalk(points) \in V
  <2>1. Len(points) \in 1..Len(points)
    OBVIOUS
  <2>2. [j \in DOMAIN points |-> <<>>] \in [1..Len(points) -> Seq(Nat)]
    OBVIOUS
  <2> QED
    BY <2>1, <2>2, FS_Interval DEF StartWalk, Walks
<1>2. \A s \in SUBSET S : s # {} => FirstOf(n)[s] = Min(s) /\ Min(s) \in s
  BY Least DEF FirstOf
<1>3. \A x \in S : poses[x] \in Int /\ x + 1 \in Nat
  <2> SUFFICES ASSUME NEW x \in S
               PROVE  poses[x] \in Int /\ x + 1 \in Nat
    OBVIOUS
  <2>1. x \in 1..Len(poses)
    OBVIOUS
  <2> QED
    BY <2>1, ElementOfSeq
<1>4. \A x \in S : \A w \in V : BackTo(points, poses[x], w, x + 1) \in V
  <2> SUFFICES ASSUME NEW x \in S, NEW w \in V
               PROVE  BackTo(points, poses[x], w, x + 1) \in V
    OBVIOUS
  <2>1. poses[x] \in Int /\ x + 1 \in Nat
    BY <1>3
  <2> DEFINE head == poses[x]
             k == x + 1
             next == BackTo(points, head, w, k)
  <2>2. head \in Int /\ k \in Nat
    BY <2>1
  <2> HIDE DEF head, k, next, S
  <2>3. next \in V
    BY <2>2, OneInterval DEF next
  <2> QED
    BY <2>3 DEF next, head, k
<1>5. OneBack(points, poses, n) \in [S \X V -> V]
  BY <1>4 DEF OneBack
<1>6. PICK h : IsWalk(h, points, poses, n)
  <2> HIDE DEF S, V
  <2>1. \A s \in SUBSET S : s # {} => FirstOf(n)[s] \in s
    BY <1>2
  <2> QED
    BY <1>1, <1>5, <2>1, FoldExists DEF IsWalk, S, V
<1> DEFINE Iterates(k) ==
             k = [s \in SUBSET S |-> IF s = {} THEN StartWalk(points)
                    ELSE LET x == Min(s) IN BackTo(points, poses[x], k[s \ {x}], x + 1)]
<1>7. ASSUME NEW s \in SUBSET S, s # {}
      PROVE  h[s] = BackTo(points, poses[Min(s)], h[s \ {Min(s)}], Min(s) + 1)
  <2> DEFINE x == Min(s)
  <2>1. x \in S /\ FirstOf(n)[s] = x /\ s \ {x} \in SUBSET S
    BY <1>2, <1>7
  <2> HIDE DEF x
  <2>2. h[s] = OneBack(points, poses, n)[<<x, h[s \ {x}]>>] /\ h[s \ {x}] \in V
    BY <1>6, <1>7, <2>1 DEF IsWalk, IsFold
  <2>3. h[s] = BackTo(points, poses[x], h[s \ {x}], x + 1)
    BY <2>1, <2>2 DEF OneBack
  <2> QED
    BY <2>3 DEF x
<1> HIDE DEF V
<1>8. h \in [SUBSET S -> V] /\ h[{}] = StartWalk(points)
  BY <1>6 DEF IsWalk, IsFold, V
<1>9. Iterates(h)
  BY <1>7, <1>8
<1>10. ASSUME NEW k, Iterates(k)
       PROVE  k = h
  <2> DEFINE W == {s \in SUBSET S : k[s] # h[s]}
  <2> SUFFICES W = {}
    BY <1>8, <1>10
  <2> SUFFICES ASSUME W # {}
               PROVE  FALSE
    OBVIOUS
  <2>1. PICK w \in W : \A X \in W : X \subseteq w => X = w
    <3>1. W \subseteq SUBSET S
      OBVIOUS
    <3> HIDE DEF W, S
    <3> QED
      BY <1>1, <3>1, Smallest
  <2>2. w \in SUBSET S /\ w # {} /\ k[w] # h[w]
    BY <1>8, <1>10
  <2> DEFINE x == Min(w)
  <2>3. x \in w /\ k[w] = BackTo(points, poses[x], k[w \ {x}], x + 1)
    BY <1>2, <1>10, <2>2
  <2>4. h[w] = BackTo(points, poses[x], h[w \ {x}], x + 1)
    BY <1>7, <2>2
  <2> HIDE DEF x, S
  <2>5. k[w \ {x}] = h[w \ {x}]
    BY <2>1, <2>2, <2>3
  <2> QED
    BY <2>2, <2>3, <2>4, <2>5
<1>11. /\ DOMAIN Front(poses) = S
       /\ DOMAIN [i \in S |-> i] = S
  <2>1. Front(poses) = SubSeq(poses, 1, n)
    BY DEF Front
  <2> QED
    BY <2>1, SubSeqProperties
<1>12. \E k : Iterates(k) /\ Compensated(points, poses) = k[S].used
  <2> DEFINE f == [i \in S |-> i]
             k == CHOOSE k : k = [s \in SUBSET S |-> IF s = {} THEN StartWalk(points)
                    ELSE LET x == Min(s) IN BackTo(points, poses[f[x]], k[s \ {x}], f[x] + 1)]
  <2>1. Compensated(points, poses) = k[S].used
    BY <1>11 DEF Compensated, FoldRightDomain, FoldRight, MapThenFoldSet, StartWalk
  <2>2. ASSUME NEW q
        PROVE  /\ q = [s \in SUBSET S |-> IF s = {} THEN StartWalk(points)
                    ELSE LET x == Min(s) IN BackTo(points, poses[f[x]], q[s \ {x}], f[x] + 1)]
               <=> Iterates(q)
    BY <1>2
  <2>3. Iterates(k)
    <3> HIDE DEF f
    <3> QED
      BY <1>9, <2>2
  <2> QED
    BY <2>1, <2>3
<1> QED
  BY <1>6, <1>10, <1>12

(* Each point later than the first is moved for the last interval that     *)
(* begins before it, and for no other, if one of them does.                *)
LEMMA EachMovedOnce ==
  ASSUME NEW points \in Seq(Nat), Len(points) >= 2,
         \A i, j \in 1..Len(points) : i < j => points[i] < points[j],
         NEW poses \in Seq(Int), Len(poses) > 1, poses[1] = 0
  PROVE  \A j \in 2..Len(points) :
           \E i \in 1..Len(poses) - 1 :
             /\ Compensated(points, poses)[j] = <<i + 1>>
             /\ poses[i] < points[j]
             /\ \A l \in i + 1..Len(poses) - 1 : poses[l] >= points[j]
<1> DEFINE n == Len(poses) - 1
           N == Len(points)
<1>1. /\ n \in Nat \ {0} /\ N \in Nat /\ N >= 2 /\ Len(poses) = n + 1
      /\ \A i \in 1..n : poses[i] \in Int
      /\ \A j \in 1..N : points[j] \in Nat
  <2>1. \A i \in 1..Len(poses) : poses[i] \in Int
    BY ElementOfSeq
  <2>2. \A j \in 1..N : points[j] \in Nat
    BY ElementOfSeq
  <2>3. n \in Nat \ {0} /\ N \in Nat /\ N >= 2 /\ Len(poses) = n + 1
    <3>1. Len(poses) \in Nat /\ Len(points) \in Nat
      BY LenProperties
    <3>2. n \in Nat \ {0} /\ Len(poses) = n + 1
      <4>1. \A a \in Nat : a > 1 => a - 1 \in Nat \ {0} /\ a = (a - 1) + 1
        BY ONLY SMT
      <4> QED
        BY <3>1, <4>1
    <3>3. N \in Nat /\ N >= 2
      BY <3>1
    <3> QED
      BY <3>2, <3>3
  <2>4. \A i \in 1..n : i \in 1..Len(poses)
    OBVIOUS
  <2> QED
    BY <2>1, <2>2, <2>3, <2>4
<1>2. PICK h : IsWalk(h, points, poses, n) /\ Compensated(points, poses) = h[1..n].used
  BY <1>1, WalkIsFold
<1> HIDE DEF n, N
<1> DEFINE Passed(w, j, i) == /\ w.used[j] = <<i + 1>> /\ poses[i] < points[j]
                             /\ \A l \in i + 1..n : poses[l] >= points[j]
           Ahead(w, j, m) == w.used[j] = <<>> /\ \A l \in m..n : poses[l] >= points[j]
           Stage(m) == \A j \in 2..N :
             IF h[m..n].at >= j THEN Ahead(h[m..n], j, m)
             ELSE \E i \in m..n : Passed(h[m..n], j, i)
           J == {m \in 1..n + 1 : Stage(m)}
<1>3. \A s \in SUBSET (1..n) : h[s] \in Walks(points)
  BY <1>2 DEF IsWalk, IsFold
<1>4. ASSUME NEW m \in 1..n
      PROVE  h[m..n] = BackTo(points, poses[m], h[m + 1..n], m + 1)
  <2> DEFINE s == m..n
             r == m + 1..n
  <2>1. s \in SUBSET (1..n) /\ r \in SUBSET (1..n) /\ s # {} /\ r = s \ {m}
    <3>1. \A x \in m..n : x \in 1..n /\ (x = m \/ x \in m + 1..n)
      BY <1>1
    <3>2. \A x \in m + 1..n : x \in m..n /\ x # m
      BY <1>1
    <3>3. m \in m..n
      BY <1>1
    <3> QED
      BY <3>1, <3>2, <3>3
  <2>2. Min(s) = m
    <3>1. Min(s) \in s /\ \A x \in s : Min(s) <= x
      <4> HIDE DEF s
      <4> QED
        BY <1>1, <2>1, Least
    <3>2. m \in s
      BY <1>1
    <3> QED
      BY <3>1, <3>2
  <2> HIDE DEF s, r
  <2>3. h[s] = OneBack(points, poses, n)[<<FirstOf(n)[s], h[s \ {FirstOf(n)[s]}]>>]
    BY <1>2, <2>1 DEF IsWalk, IsFold
  <2>4. FirstOf(n)[s] = m
    BY <2>1, <2>2 DEF FirstOf
  <2>5. h[s] = OneBack(points, poses, n)[<<m, h[r]>>]
    BY <2>1, <2>3, <2>4
  <2>6. h[r] \in Walks(points)
    BY <1>3, <2>1
  <2>7. h[s] = BackTo(points, poses[m], h[r], m + 1)
    BY <2>5, <2>6 DEF OneBack
  <2> QED
    BY <2>7 DEF s, r
<1>5. n + 1 \in J
  <2>1. n + 1..n = {} /\ n + 1 \in 1..n + 1
    BY <1>1
  <2>2. h[n + 1..n] = StartWalk(points)
    BY <1>2, <2>1 DEF IsWalk, IsFold
  <2>3. h[n + 1..n].at = N /\ \A j \in 2..N : h[n + 1..n].used[j] = <<>>
    BY <1>1, <2>2 DEF StartWalk, N
  <2>4. Stage(n + 1)
    BY <1>1, <2>1, <2>3
  <2> QED
    BY <2>1, <2>4
<1>6. ASSUME NEW m \in 1..n, Stage(m + 1)
      PROVE  Stage(m)
  <2> DEFINE w == h[m + 1..n]
             next == h[m..n]
             head == poses[m]
             k == m + 1
  <2>1. m + 1..n \in SUBSET (1..n) /\ head \in Int /\ k \in Nat /\ m \in m..n
    BY <1>1
  <2>2. w \in Walks(points) /\ next = BackTo(points, head, w, k)
    BY <1>3, <1>4, <2>1
  <2>3. next \in Walks(points) /\ Moves(points, w, head, k, next)
    <3>1. head \in Int /\ k \in Nat
      BY <2>1
    <3> HIDE DEF w, next, head, k
    <3>2. w \in Walks(points)
      BY <2>2
    <3>3. next = BackTo(points, head, w, k)
      BY <2>2
    <3> QED
      BY <3>1, <3>2, <3>3, OneInterval
  <2>4. /\ \A l \in m..n : l = m \/ l \in m + 1..n
        /\ \A l \in m + 1..n : l \in m..n
    BY <1>1
  <2>5. w.at \in Int /\ next.at \in Int
    <3> HIDE DEF w, next
    <3> QED
      BY <2>2, <2>3 DEF Walks
  <2> SUFFICES ASSUME NEW j \in 2..N
               PROVE  IF next.at >= j THEN Ahead(next, j, m)
                      ELSE \E i \in m..n : Passed(next, j, i)
    OBVIOUS
  <2>6. IF w.at >= j THEN Ahead(w, j, m + 1) ELSE \E i \in m + 1..n : Passed(w, j, i)
    BY <1>6
  <2> HIDE DEF w, next
  <2>7. points[j] \in Nat /\ j \in Nat /\ head \in Int
    BY <1>1, <2>1
  <2>8. /\ next.used[j] = IF j <= w.at /\ points[j] > head
                          THEN Append(w.used[j], m + 1) ELSE w.used[j]
        /\ next.at >= j <=> (w.at >= j /\ points[j] <= head)
    BY <2>3 DEF N, Moves
  <2>9. CASE w.at >= j /\ points[j] <= head
    <3>1. next.at >= j /\ w.used[j] = <<>> /\ ~(points[j] > head)
      <4>1. w.used[j] = <<>>
        BY <2>6, <2>9
      <4>2. next.at >= j
        BY <2>8, <2>9
      <4>3. ~(points[j] > head)
        BY <2>7, <2>9
      <4> QED
        BY <4>1, <4>2, <4>3
    <3>2. \A l \in m..n : poses[l] >= points[j]
      BY <2>4, <2>6, <2>7, <2>9
    <3> QED
      BY <2>8, <3>1, <3>2
  <2>10. CASE w.at >= j /\ ~(points[j] <= head)
    <3>1. w.used[j] = <<>> /\ \A l \in m + 1..n : poses[l] >= points[j]
      BY <2>6, <2>10
    <3>2. ~(next.at >= j)
      BY <2>10, <2>8
    <3>3. points[j] > head /\ j <= w.at
      <4>1. \A x, y \in Int : ~(x <= y) => x > y
        BY ONLY SMT
      <4>2. \A x, y \in Int : x >= y => y <= x
        BY ONLY SMT
      <4>3. w.at \in Int /\ points[j] \in Int /\ j \in Int /\ head \in Int
        BY <2>5, <2>7
      <4> QED
        BY <2>10, <4>1, <4>2, <4>3
    <3>4. next.used[j] = <<m + 1>>
      BY <2>8, <3>1, <3>3
    <3>5. Passed(next, j, m)
      BY <3>1, <3>3, <3>4
    <3> QED
      BY <2>1, <3>2, <3>5
  <2>11. CASE ~(w.at >= j)
    <3>1. PICK i \in m + 1..n : Passed(w, j, i)
      BY <2>6, <2>11
    <3>2. ~(next.at >= j) /\ ~(j <= w.at)
      BY <2>5, <2>7, <2>8, <2>11
    <3>3. next.used[j] = w.used[j]
      BY <2>8, <3>2
    <3>4. Passed(next, j, i)
      BY <3>1, <3>3
    <3> QED
      BY <2>4, <3>2, <3>4
  <2> QED
    BY <2>9, <2>10, <2>11
<1>7. Stage(1)
  <2>1. J \subseteq 1..n + 1 /\ J # {} /\ n + 1 \in Nat
    <3> HIDE DEF Stage
    <3> QED
      BY <1>1, <1>5
  <2>2. PICK m \in J : \A x \in J : m <= x
    <3> HIDE DEF J
    <3> QED
      BY <2>1, Least
  <2>3. CASE m = 1
    BY <2>3
  <2>4. CASE m # 1
    <3>1. m - 1 \in 1..n /\ (m - 1) + 1 = m /\ m - 1 \in 1..n + 1 /\ ~(m <= m - 1)
      <4> HIDE DEF J, Stage
      <4>1. m \in 1..n + 1 /\ n \in Nat
        BY <1>1, <2>1, <2>2
      <4> HIDE DEF n
      <4> QED
        BY <2>4, <4>1
    <3>2. Stage((m - 1) + 1)
      BY <3>1
    <3>3. Stage(m - 1)
      <4> HIDE DEF Stage
      <4> QED
        BY <1>6, <3>1, <3>2
    <3> QED
      BY <2>2, <3>1, <3>3
  <2> QED
    BY <2>3, <2>4
<1>8. ASSUME NEW j \in 2..N
      PROVE  \E i \in 1..n : Passed(h[1..n], j, i)
  <2>1. 1 \in 1..N /\ j \in 1..N /\ 1 < j /\ 1 \in 1..n
    BY <1>1
  <2>2. points[1] < points[j]
    BY <2>1 DEF N
  <2>3. ~(poses[1] >= points[j])
    BY <1>1, <2>1, <2>2
  <2>4. ~Ahead(h[1..n], j, 1)
    BY <2>1, <2>3
  <2> QED
    BY <1>7, <2>4
<1>9. \A j \in 2..N : \E i \in 1..n :
        /\ Compensated(points, poses)[j] = <<i + 1>>
        /\ poses[i] < points[j]
        /\ \A l \in i + 1..n : poses[l] >= points[j]
  BY <1>2, <1>8
<1> QED
  BY <1>9 DEF n, N

-----------------------------------------------------------------------------
(* What the walk is made over, whether or not the stamps jump back: times  *)
(* at samples, after one at the beginning of a scan, and that scan.        *)
WalkTypes ==
  /\ lidar_buffer \in Seq(Scans) /\ time_buffer \in Seq(Times) /\ imu_buffer \in Seq(Nat)
  /\ Len(lidar_buffer) <= Len(time_buffer)
  /\ meas = [lidar |-> meas.lidar, beg |-> meas.beg, imu |-> meas.imu]
  /\ lidar_pushed => meas.lidar \in Scans /\ meas.beg \in Nat
  /\ lidar_end_time \in Nat /\ lidar_mean_scantime \in Nat
  /\ last_imu_ \in Int

PosesOfScan ==
  /\ IMUpose \in Seq(Int)
  /\ IMUpose # <<>> => IMUpose[1] = 0 /\ feats_undistort \in Scans

(* sync_packages takes no more samples than there are.                     *)
LEMMA CountInBuffer ==
  ASSUME imu_buffer \in Seq(Nat), imu_buffer # <<>>, NEW end \in Nat
  PROVE  ImuCount(end) \in 0..Len(imu_buffer)
<1> DEFINE n == Len(imu_buffer)
           T == {c \in 1..n : /\ \A i \in 1..c : imu_buffer[i] <= end
                              /\ \A i \in 1..c - 1 : imu_buffer[i] < end}
<1>1. n \in Nat \ {0}
  OBVIOUS
<1>2. \A i \in 1..n : imu_buffer[i] \in Nat
  BY ElementOfSeq
<1>3. CASE imu_buffer[1] >= end
  BY <1>1, <1>3 DEF ImuCount
<1>4. CASE ~(imu_buffer[1] >= end)
  <2>1. 1 \in 1..n /\ imu_buffer[1] <= end
    BY <1>1, <1>2, <1>4
  <2>2. 1 \in T
    <3>1. \A i \in 1..1 : i = 1
      OBVIOUS
    <3>2. \A i \in 1..1 - 1 : FALSE
      OBVIOUS
    <3> QED
      BY <2>1, <3>1, <3>2
  <2>3. PICK c \in T : \A x \in T : x <= c
    <3>1. T \subseteq 1..n /\ T # {}
      BY <2>2
    <3> HIDE DEF T, n
    <3> QED
      BY <1>1, <3>1, Largest
  <2>4. c \in 1..n /\ (\A i \in 1..c : imu_buffer[i] <= end) /\ (\A i \in 1..c - 1 : imu_buffer[i] < end)
    OBVIOUS
  <2>5. c = n \/ imu_buffer[c] = end \/ imu_buffer[c + 1] > end
    <3> SUFFICES ASSUME c # n, imu_buffer[c] # end, ~(imu_buffer[c + 1] > end)
                 PROVE  FALSE
      OBVIOUS
    <3>1. c + 1 \in 1..n /\ c \in 1..c /\ (c + 1) - 1 = c
      BY <1>1, <2>4
    <3>2. imu_buffer[c + 1] <= end /\ imu_buffer[c] < end
      BY <1>2, <2>4, <3>1
    <3>3. \A i \in 1..c + 1 : i \in 1..c \/ i = c + 1
      BY <2>4
    <3>4. \A i \in 1..c : i \in 1..c - 1 \/ i = c
      BY <2>4
    <3>5. \A i \in 1..c + 1 : imu_buffer[i] <= end
      BY <2>4, <3>2, <3>3
    <3>6. \A i \in 1..(c + 1) - 1 : imu_buffer[i] < end
      BY <2>4, <3>1, <3>2, <3>4
    <3>7. c + 1 \in T
      BY <3>1, <3>5, <3>6
    <3>8. c + 1 <= c
      BY <2>3, <3>7
    <3> QED
      BY <2>4, <3>8
  <2>6. ImuCount(end) \in 1..n
    <3> HIDE DEF T
    <3> QED
      BY <1>4, <2>4, <2>5 DEF ImuCount
  <2> QED
    BY <1>1, <2>6
<1> QED
  BY <1>3, <1>4

LEMMA TakenIsScan ==
  ASSUME WalkTypes, lidar_buffer # <<>>
  PROVE  /\ Taken.lidar \in Scans /\ Taken.beg \in Nat
         /\ Taken.end \in Nat /\ Taken.mean \in Nat
<1>1. CASE lidar_pushed
  BY <1>1 DEF WalkTypes, Taken
<1>2. CASE ~lidar_pushed
  <2> DEFINE s == Head(lidar_buffer)
             mean == IF s.kind = "timed" THEN Duration ELSE lidar_mean_scantime
  <2>1. s \in Scans /\ Head(time_buffer) \in Nat
    <3>1. time_buffer # <<>> /\ time_buffer \in Seq(Times) /\ lidar_buffer \in Seq(Scans)
      <4>1. /\ time_buffer \in Seq(Times) /\ lidar_buffer \in Seq(Scans)
            /\ Len(lidar_buffer) <= Len(time_buffer)
        BY DEF WalkTypes
      <4> QED
        BY <4>1
    <3>2. Head(lidar_buffer) \in Scans
      BY <3>1
    <3>3. Head(time_buffer) \in Times
      BY <3>1
    <3> QED
      BY <3>2, <3>3 DEF Times
  <2>2. mean \in Nat
    BY LioAssumption DEF WalkTypes
  <2> HIDE DEF s, mean
  <2>3. Taken = [lidar |-> s, beg |-> Head(time_buffer), end |-> Head(time_buffer) + mean, mean |-> mean]
    BY <1>2 DEF Taken, s, mean
  <2> QED
    BY <2>1, <2>2, <2>3
<1> QED
  BY <1>1, <1>2

(* A propagation leaves the beginning of the scan and the poses at samples.*)
LEMMA PosesKept ==
  ASSUME NEW m, m.imu \in Seq(Nat), Len(m.imu) > 0, m.beg \in Nat, NEW end,
         last_imu_ \in Int, Propagate(m, end)
  PROVE  IMUpose' \in Seq(Int) /\ IMUpose'[1] = 0 /\ last_imu_' \in Int
<1> DEFINE v == v_imu(m)
           n == Len(v)
           c == Cardinality(Tails(m))
           f == [k \in 1..c |-> v[n - c + k] - m.beg]
<1>1. v \in Seq(Int) /\ n = Len(m.imu) + 1 /\ Last(m.imu) = m.imu[Len(m.imu)]
  BY SamplesOfPackage
<1>2. n \in Nat /\ n >= 2 /\ \A i \in 1..n : v[i] \in Int
  BY <1>1, ElementOfSeq
<1>3. c \in 0..n - 1
  <2>1. IsFiniteSet(2..n) /\ Cardinality(2..n) = n - 1
    BY <1>2, FS_Interval
  <2>2. Tails(m) \in SUBSET (2..n)
    BY DEF Tails
  <2>3. IsFiniteSet(Tails(m)) /\ c <= n - 1
    BY <2>1, <2>2, FS_Subset
  <2> HIDE DEF n
  <2> QED
    BY <1>2, <2>3, FS_CardinalityType
<1>4. f \in Seq(Int)
  <2> HIDE DEF v, n, c
  <2>1. ASSUME NEW k \in 1..c
        PROVE  v[n - c + k] - m.beg \in Int
    <3>1. n - c + k \in 1..n
      BY <1>2, <1>3
    <3>2. v[n - c + k] \in Int
      BY <1>2, <3>1
    <3> QED
      BY <3>2
  <2>2. c \in Nat
    BY <1>2, <1>3
  <2> QED
    BY <2>1, <2>2
<1>5. IMUpose' = <<0>> \o f
  BY DEF Propagate
<1> HIDE DEF f
<1>6. IMUpose' \in Seq(Int) /\ IMUpose'[1] = 0
  BY <1>4, <1>5
<1>7. last_imu_' \in Int
  <2>1. Len(m.imu) \in 1..Len(m.imu)
    OBVIOUS
  <2>2. m.imu[Len(m.imu)] \in Nat
    BY <2>1, ElementOfSeq
  <2> QED
    BY <1>1, <2>2 DEF Propagate
<1> QED
  BY <1>6, <1>7

LEMMA CallbackKeepsPoses ==
  ASSUME WalkTypes, PosesOfScan, Callback
  PROVE  WalkTypes' /\ PosesOfScan'
<1>1. UNCHANGED imuVars
  BY DEF Callback
<1>2. CASE \E s \in Scans : PclCbk(s)
  <2> PICK s \in Scans : PclCbk(s)
    BY <1>2
  <2>1. /\ lidar_buffer' \in {<<s>>, Append(lidar_buffer, s)}
        /\ time_buffer' = Append(time_buffer, s.stamp) /\ s.stamp \in Times
        /\ UNCHANGED <<imu_buffer, syncVars, filterVars>>
    BY DEF PclCbk, Scans
  <2>2. lidar_buffer' \in Seq(Scans) /\ Len(lidar_buffer') <= Len(lidar_buffer) + 1
    <3>1. lidar_buffer \in Seq(Scans) /\ Len(lidar_buffer) \in Nat
      BY DEF WalkTypes
    <3>2. CASE lidar_buffer' = <<s>>
      BY <3>1, <3>2
    <3>3. CASE lidar_buffer' = Append(lidar_buffer, s)
      BY <3>1, <3>3
    <3> QED
      BY <2>1, <3>2, <3>3
  <2>3. time_buffer' \in Seq(Times) /\ Len(time_buffer') = Len(time_buffer) + 1
    BY <2>1 DEF WalkTypes
  <2>4. WalkTypes'
    <3>1. lidar_buffer \in Seq(Scans) /\ time_buffer \in Seq(Times) /\ Len(lidar_buffer) <= Len(time_buffer)
      BY DEF WalkTypes
    <3>2. Len(lidar_buffer') <= Len(time_buffer')
      BY <2>2, <2>3, <3>1
    <3> QED
      BY <1>1, <2>1, <2>2, <2>3, <3>2 DEF WalkTypes, syncVars, imuVars
  <2> QED
    BY <1>1, <2>1, <2>4 DEF PosesOfScan, imuVars, filterVars
<1>3. CASE \E t \in Times : ImuCbk(t)
  <2> PICK t \in Times : ImuCbk(t)
    BY <1>3
  <2>1. /\ imu_buffer' \in {<<t>>, Append(imu_buffer, t)} /\ t \in Nat
        /\ UNCHANGED <<lidar_buffer, time_buffer, syncVars, filterVars>>
    BY DEF ImuCbk, Times
  <2>2. imu_buffer' \in Seq(Nat)
    <3>1. imu_buffer \in Seq(Nat)
      BY DEF WalkTypes
    <3>2. Append(imu_buffer, t) \in Seq(Nat) /\ <<t>> \in Seq(Nat)
      BY <2>1, <3>1
    <3> QED
      BY <2>1, <3>2
  <2> QED
    BY <1>1, <2>1, <2>2 DEF WalkTypes, PosesOfScan, syncVars, imuVars, filterVars
<1> QED
  BY <1>2, <1>3 DEF Callback

LEMMA TimerKeepsPoses ==
  ASSUME WalkTypes, PosesOfScan, Timer
  PROVE  WalkTypes' /\ PosesOfScan'
<1>1. /\ lidar_buffer # <<>> /\ imu_buffer # <<>> /\ TimerCallback /\ ProcessImu
      /\ lidar_end_time' = Taken.end /\ lidar_mean_scantime' = Taken.mean
  BY DEF Timer, TimerCallback
<1>2. /\ Taken.lidar \in Scans /\ Taken.beg \in Nat
      /\ Taken.end \in Nat /\ Taken.mean \in Nat
  BY <1>1, TakenIsScan
<1>3. CASE ~ImuArrived(Taken.end)
  <2>1. /\ lidar_pushed' = TRUE /\ meas' = [meas EXCEPT !.lidar = Taken.lidar, !.beg = Taken.beg]
        /\ UNCHANGED <<lidar_buffer, time_buffer, imu_buffer, feats_undistort>>
    BY <1>1, <1>3 DEF TimerCallback, bufferVars
  <2>2. meas' = [lidar |-> Taken.lidar, beg |-> Taken.beg, imu |-> meas.imu]
    BY <2>1 DEF WalkTypes
  <2>3. UNCHANGED imuVars
    BY <1>1, <2>1 DEF ProcessImu, Released
  <2> QED
    BY <1>1, <1>2, <2>1, <2>2, <2>3 DEF WalkTypes, PosesOfScan, imuVars
<1>4. CASE ImuArrived(Taken.end)
  <2> DEFINE c == ImuCount(Taken.end)
             n == Len(imu_buffer)
  <2>1. /\ meas' = [lidar |-> Taken.lidar, beg |-> Taken.beg, imu |-> SubSeq(imu_buffer, 1, c)]
        /\ imu_buffer' = SubSeq(imu_buffer, c + 1, n)
        /\ lidar_buffer' = Tail(lidar_buffer) /\ time_buffer' = Tail(time_buffer)
        /\ lidar_pushed' = FALSE /\ Process(meas', c)
    BY <1>1, <1>4 DEF TimerCallback, PopScan
  <2>2. c \in 0..n /\ n \in Nat /\ imu_buffer \in Seq(Nat)
    BY <1>1, <1>2, CountInBuffer DEF WalkTypes
  <2> HIDE DEF c, n
  <2>3. meas'.imu \in Seq(Nat) /\ Len(meas'.imu) = c /\ imu_buffer' \in Seq(Nat)
    <3>1. \A i \in 1..c : i \in 1..n
      BY <2>2
    <3>2. \A i \in c + 1..n : i \in 1..n
      BY <2>2
    <3> QED
      BY <2>1, <2>2, <3>1, <3>2 DEF n
  <2>4. /\ lidar_buffer' \in Seq(Scans) /\ time_buffer' \in Seq(Times)
        /\ Len(lidar_buffer') <= Len(time_buffer') /\ lidar_buffer' # lidar_buffer
    <3>1. /\ lidar_buffer \in Seq(Scans) /\ time_buffer \in Seq(Times)
          /\ Len(lidar_buffer) <= Len(time_buffer) /\ time_buffer # <<>>
      BY <1>1 DEF WalkTypes
    <3> QED
      BY <1>1, <2>1, <3>1
  <2>5. meas'.lidar = Taken.lidar /\ meas'.beg = Taken.beg
    BY <2>1
  <2>6. CASE flg_first_scan \/ meas'.imu = <<>>
    <3>1. UNCHANGED imuVars
      BY <1>1, <2>6 DEF ProcessImu
    <3>2. UNCHANGED feats_undistort
      BY <2>1, <2>3, <2>6 DEF Process, Undistort
    <3> QED
      BY <1>1, <1>2, <2>1, <2>3, <2>4, <2>5, <3>1, <3>2 DEF WalkTypes, PosesOfScan, imuVars
  <2>7. CASE ~flg_first_scan /\ meas'.imu # <<>>
    <3>1. c # 0 /\ Undistort(meas', c) /\ Len(meas'.imu) > 0
      BY <2>1, <2>2, <2>3, <2>7 DEF Process
    <3>2. CASE init_iter_num <= InitCount
      <4>1. UNCHANGED <<IMUpose, feats_undistort>> /\ last_imu_' = Last(meas'.imu)
        BY <1>1, <2>4, <2>7, <3>1, <3>2 DEF ProcessImu, Released, Initialise, Undistort
      <4>2. last_imu_' \in Int
        BY <2>3, <3>1, <4>1 DEF Last
      <4> QED
        BY <1>1, <1>2, <2>1, <2>3, <2>4, <2>5, <4>1, <4>2 DEF WalkTypes, PosesOfScan
    <3>3. CASE ~(init_iter_num <= InitCount)
      <4>1. Propagate(meas', lidar_end_time') /\ feats_undistort' = Taken.lidar
        BY <1>1, <2>4, <2>5, <2>7, <3>1, <3>3 DEF ProcessImu, Released, Undistort
      <4>2. PICK m : m = meas' /\ m.imu \in Seq(Nat) /\ Len(m.imu) > 0 /\ m.beg \in Nat
        BY <1>2, <2>3, <2>5, <3>1
      <4>3. IMUpose' \in Seq(Int) /\ IMUpose'[1] = 0 /\ last_imu_' \in Int
        BY <4>1, <4>2, PosesKept DEF WalkTypes
      <4> QED
        BY <1>1, <1>2, <2>1, <2>3, <2>4, <2>5, <4>1, <4>3 DEF WalkTypes, PosesOfScan
    <3> QED
      BY <3>2, <3>3
  <2> QED
    BY <2>6, <2>7
<1> QED
  BY <1>3, <1>4

(* The points of a scan are in the order of their times.                   *)
LEMMA PointsAscend ==
  ASSUME NEW s \in Scans, NEW points \in PointsOf(s)
  PROVE  /\ points \in Seq(Nat)
         /\ \A i, j \in 1..Len(points) : i < j => points[i] < points[j]
<1> DEFINE N == Len(points)
<1>1. points \in Ascending
  BY DEF PointsOf, Scans
<1>2. PICK n \in 0..Duration + 1 : points \in [1..n -> 0..Duration]
  BY <1>1 DEF Ascending
<1>3. points \in Seq(Nat) /\ N \in Nat /\ \A j \in 1..N : points[j] \in Nat
  <2>1. n \in Nat /\ Duration \in Nat
    BY LioAssumption
  <2>2. points \in Seq(Nat)
    BY <1>2, <2>1
  <2> QED
    BY <2>2, ElementOfSeq, LenProperties
<1>4. \A j \in 2..N : points[j - 1] < points[j]
  BY <1>1 DEF Ascending
<1> HIDE DEF N
<1>5. ASSUME NEW i \in 1..N
      PROVE  \A j \in 1..N : i < j => points[i] < points[j]
  <2> DEFINE T == {j \in 1..N : i < j /\ ~(points[i] < points[j])}
  <2> SUFFICES ASSUME T # {}
               PROVE  FALSE
    OBVIOUS
  <2>1. PICK j \in T : \A x \in T : j <= x
    <3>1. T \subseteq 1..N
      OBVIOUS
    <3> HIDE DEF T
    <3> QED
      BY <1>3, <3>1, Least
  <2>2. j \in 2..N /\ j - 1 \in 1..N /\ ~(j <= j - 1) /\ i <= j - 1
    BY <1>3
  <2>3. points[j - 1] < points[j] /\ points[j - 1] \in Nat /\ points[j] \in Nat /\ points[i] \in Nat
    <3>1. j \in 1..N
      BY <2>2
    <3> QED
      BY <1>3, <1>4, <2>2, <3>1
  <2>4. CASE i = j - 1
    BY <2>3, <2>4
  <2>5. CASE i # j - 1
    <3>1. i < j - 1
      BY <1>3, <2>2, <2>5
    <3>2. points[i] < points[j - 1]
      BY <2>1, <2>2, <3>1
    <3> QED
      BY <2>3, <3>2
  <2> QED
    BY <2>4, <2>5
<1> QED
  BY <1>3, <1>5 DEF N

(* Every point later than the beginning of its scan is moved once, with    *)
(* the interval that holds it, for scans of any length and any number of   *)
(* samples in them, whatever samples were lost and however often the       *)
(* stamps jump back.                                                       *)
THEOREM PointsMovedOnce == SpecImu => []MovedOnce
<1>1. InitImu => WalkTypes /\ PosesOfScan
  <2> SUFFICES ASSUME InitImu
               PROVE  WalkTypes /\ PosesOfScan
    OBVIOUS
  <2>1. /\ lidar_buffer = <<>> /\ time_buffer = <<>> /\ imu_buffer = <<>>
        /\ lidar_pushed = FALSE /\ lidar_end_time = 0 /\ lidar_mean_scantime = 0
        /\ meas = [lidar |-> None, beg |-> 0, imu |-> <<>>]
        /\ last_imu_ = 0 /\ IMUpose = <<>>
    BY DEF InitImu, Init
  <2>2. WalkTypes
    BY <2>1 DEF WalkTypes
  <2> QED
    BY <2>1, <2>2 DEF PosesOfScan
<1>2. WalkTypes /\ PosesOfScan /\ [NextImu]_allVars => WalkTypes' /\ PosesOfScan'
  <2>1. ASSUME WalkTypes, PosesOfScan, UNCHANGED allVars
        PROVE  WalkTypes' /\ PosesOfScan'
    BY <2>1 DEF allVars, vars, bufferVars, syncVars, filterVars, imuVars, WalkTypes, PosesOfScan
  <2> QED
    BY <2>1, CallbackKeepsPoses, TimerKeepsPoses DEF NextImu
<1>3. WalkTypes /\ PosesOfScan => MovedOnce
  <2> SUFFICES ASSUME PosesOfScan, Len(IMUpose) > 1, NEW points \in PointsOf(feats_undistort),
                      NEW j \in 2..Len(points)
               PROVE  \E k \in 2..Len(IMUpose) :
                        /\ Compensated(points, IMUpose)[j] = <<k>>
                        /\ IMUpose[k - 1] < points[j]
                        /\ \A i \in k..Len(IMUpose) - 1 : IMUpose[i] >= points[j]
    BY DEF MovedOnce
  <2>1. IMUpose \in Seq(Int) /\ IMUpose[1] = 0 /\ feats_undistort \in Scans
    BY DEF PosesOfScan
  <2>2. /\ points \in Seq(Nat)
        /\ \A i, l \in 1..Len(points) : i < l => points[i] < points[l]
    BY <2>1, PointsAscend
  <2>3. Len(points) >= 2
    BY <2>2
  <2>4. PICK poses : poses = IMUpose
    OBVIOUS
  <2>5. PICK i \in 1..Len(poses) - 1 :
          /\ Compensated(points, poses)[j] = <<i + 1>>
          /\ poses[i] < points[j]
          /\ \A l \in i + 1..Len(poses) - 1 : poses[l] >= points[j]
    BY <2>1, <2>2, <2>3, <2>4, EachMovedOnce
  <2>6. i + 1 \in 2..Len(poses) /\ (i + 1) - 1 = i
    BY <2>1, <2>4
  <2> QED
    BY <2>4, <2>5, <2>6
<1> QED
  BY <1>1, <1>2, <1>3, PTL DEF SpecImu
=============================================================================
