---------------------------- MODULE FrontProofs ----------------------------
(***************************************************************************)
(* Proofs about LidarConfig and LidarFront, for every number of lidars and *)
(* settings and every user file: a lidar samples only when it is set up, no*)
(* bit of set_bits is forgotten, and no point is lost on the way to its    *)
(* frame.                                                                  *)
(***************************************************************************)
EXTENDS FrontProps, FiniteSetTheorems, SequenceTheorems, TLAPS

(* What l was sent has been confirmed or still has its bit.                *)
Settled(l, settings) == settings \ set_bits[l] \subseteq confirmed[l]

(* Between two announcements that holds of all settings of a lidar that    *)
(* has a command under way, within one of those sent so far.               *)
Prepared ==
  \A l \in Lidars :
    IF announcing = l THEN Settled(l, Wanted(l) \ todo)
    ELSE (\E s \in Settings : inflight[l][s] > 0) => Settled(l, Wanted(l))

IInv == ConfigTypeOK /\ Prepared /\ SamplesConfigured /\ NoBitForgotten

-----------------------------------------------------------------------------
LEMMA WantedAreSettings == \A l \in Lidars : Wanted(l) \subseteq Settings
BY ConfigAssumption DEF Wanted

LEMMA InitInv == Init => IInv
<1> SUFFICES ASSUME Init
             PROVE  IInv
  OBVIOUS
<1> USE ConfigAssumption DEF Init
<1>1. ConfigTypeOK
  BY DEF ConfigTypeOK, Settings, Commands
<1>2. Prepared
  BY DEF Prepared, Settings, Commands
<1>3. SamplesConfigured /\ NoBitForgotten
  BY DEF SamplesConfigured, NoBitForgotten
<1> QED
  BY <1>1, <1>2, <1>3 DEF IInv

(* The commands of a lidar after one more is sent.                         *)
LEMMA SendCounts ==
  ASSUME IInv, NEW l \in Lidars, NEW c \in Commands, Send(l, c)
  PROVE  /\ inflight' \in [Lidars -> [Commands -> Nat]]
         /\ inflight'[l][c] > 0
         /\ \A k \in Lidars, d \in Commands :
              (k # l \/ d # c) => inflight'[k][d] = inflight[k][d]
         /\ \A k \in Lidars, d \in Commands : inflight'[k][d] >= inflight[k][d]
BY DEF IInv, ConfigTypeOK, Send

(* The commands of a lidar after one is answered.                          *)
LEMMA AnsweredCounts ==
  ASSUME IInv, NEW l \in Lidars, NEW c \in Commands, Answered(l, c)
  PROVE  /\ inflight' \in [Lidars -> [Commands -> Nat]]
         /\ inflight[l][c] > 0
         /\ \A k \in Lidars, d \in Commands :
              (k # l \/ d # c) => inflight'[k][d] = inflight[k][d]
         /\ \A k \in Lidars, d \in Commands : inflight'[k][d] <= inflight[k][d]
BY DEF IInv, ConfigTypeOK, Answered

LEMMA CommandKinds ==
  /\ Settings \subseteq Commands
  /\ WorkMode \in Commands
  /\ WorkMode \notin Settings
BY ConfigAssumption DEF Settings, Commands, WorkMode

LEMMA AnnounceKeepsInv ==
  ASSUME IInv, NEW l \in Lidars, Announce(l)
  PROVE  IInv'
<1> USE DEF Announce, lidarVars, historyVars, mutexVars
<1>1. /\ announcing = None
      /\ UNCHANGED <<set_bits, sampling, confirmed, failed, normal, troubles>>
      /\ None \notin Lidars
  BY ConfigAssumption
<1>2. CASE l \in indexed
  <2>1. announcing' = l /\ todo' = Wanted(l) /\ UNCHANGED <<indexed, inflight>>
    BY <1>2
  <2>2. ConfigTypeOK'
    BY <1>1, <2>1, WantedAreSettings, ConfigAssumption DEF IInv, ConfigTypeOK
  <2>3. Prepared'
    <3> SUFFICES ASSUME NEW k \in Lidars
                 PROVE  IF announcing' = k THEN Settled(k, Wanted(k) \ todo)'
                        ELSE ((\E s \in Settings : inflight[k][s] > 0) => Settled(k, Wanted(k)))'
      BY DEF Prepared
    <3>1. CASE k = l
      BY <1>1, <2>1, <3>1 DEF Settled
    <3>2. CASE k # l
      BY <1>1, <2>1, <3>2 DEF IInv, Prepared, Settled, Wanted
    <3> QED
      BY <3>1, <3>2
  <2>4. SamplesConfigured' /\ NoBitForgotten'
    BY <1>1, <2>1 DEF IInv, SamplesConfigured, NoBitForgotten, Wanted
  <2> QED
    BY <2>2, <2>3, <2>4 DEF IInv
<1>3. CASE l \notin indexed
  <2>1. UNCHANGED <<announcing, todo>>
    BY <1>3
  <2>2. \/ UNCHANGED <<indexed, inflight>>
        \/ indexed' = indexed \cup {l} /\ Send(l, WorkMode)
    BY <1>3
  <2>3. /\ inflight' \in [Lidars -> [Commands -> Nat]]
        /\ \A k \in Lidars, s \in Settings : inflight'[k][s] = inflight[k][s]
        /\ indexed' \subseteq Lidars
    BY <2>2, SendCounts, CommandKinds DEF IInv, ConfigTypeOK
  <2>4. ConfigTypeOK'
    BY <1>1, <2>1, <2>3, ConfigAssumption DEF IInv, ConfigTypeOK
  <2>5. Prepared'
    BY <1>1, <2>1, <2>3 DEF IInv, Prepared, Settled, Wanted
  <2>6. SamplesConfigured'
    BY <1>1 DEF IInv, SamplesConfigured, Wanted
  <2>7. NoBitForgotten'
    BY <1>1, <2>3 DEF IInv, ConfigTypeOK, NoBitForgotten
  <2> QED
    BY <2>4, <2>5, <2>6, <2>7 DEF IInv
<1> QED
  BY <1>2, <1>3

(* A setting leaves todo and its bit is set.                               *)
LEMMA SendSettingKeepsInv ==
  ASSUME IInv, SendSetting
  PROVE  IInv'
<1> DEFINE l == announcing
<1>1. l \in Lidars
  BY DEF SendSetting, IInv, ConfigTypeOK
<1>2. PICK s \in todo :
        /\ set_bits' = [set_bits EXCEPT ![l] = @ \cup {s}]
        /\ Send(l, s)
        /\ todo' = todo \ {s}
  BY DEF SendSetting
<1>3. UNCHANGED <<indexed, announcing, sampling, normal, confirmed, failed, inputs, troubles>>
  BY DEF SendSetting, historyVars
<1>4. s \in Settings /\ s \in Commands
  BY <1>2, CommandKinds DEF IInv, ConfigTypeOK
<1>5. /\ inflight' \in [Lidars -> [Commands -> Nat]]
      /\ inflight'[l][s] > 0
      /\ \A k \in Lidars, d \in Commands : (k # l \/ d # s) => inflight'[k][d] = inflight[k][d]
      /\ \A k \in Lidars, d \in Commands : inflight'[k][d] >= inflight[k][d]
  BY <1>1, <1>2, <1>4, SendCounts
<1>6. /\ set_bits' \in [Lidars -> SUBSET Settings]
      /\ set_bits'[l] = set_bits[l] \cup {s}
      /\ \A k \in Lidars : k # l => set_bits'[k] = set_bits[k]
  BY <1>1, <1>2, <1>4 DEF IInv, ConfigTypeOK
<1>7. ConfigTypeOK'
  BY <1>2, <1>3, <1>5, <1>6 DEF IInv, ConfigTypeOK
<1>8. Prepared'
  <2> SUFFICES ASSUME NEW k \in Lidars
               PROVE  IF announcing' = k THEN Settled(k, Wanted(k) \ todo)'
                      ELSE ((\E d \in Settings : inflight[k][d] > 0) => Settled(k, Wanted(k)))'
    BY DEF Prepared
  <2>1. CASE k = l
    BY <1>1, <1>2, <1>3, <1>6, <2>1 DEF IInv, Prepared, Settled, Wanted
  <2>2. CASE k # l
    <3>1. \A d \in Settings : inflight'[k][d] = inflight[k][d]
      BY <1>5, <2>2, CommandKinds
    <3> QED
      BY <1>3, <1>6, <2>2, <3>1 DEF IInv, Prepared, Settled, Wanted
  <2> QED
    BY <2>1, <2>2
<1>9. SamplesConfigured'
  BY <1>3 DEF IInv, SamplesConfigured, Wanted
<1>10. NoBitForgotten'
  <2> SUFFICES ASSUME NEW k \in Lidars, NEW b \in set_bits'[k]
               PROVE  inflight'[k][b] > 0 \/ b \in failed'[k]
    BY DEF NoBitForgotten
  <2>1. CASE k = l /\ b = s
    BY <1>5, <2>1
  <2>2. CASE ~(k = l /\ b = s)
    <3>1. b \in set_bits[k] /\ b \in Commands
      BY <1>6, <2>2, CommandKinds DEF IInv, ConfigTypeOK
    <3>2. inflight[k][b] > 0 \/ b \in failed[k]
      BY <3>1 DEF IInv, NoBitForgotten
    <3> QED
      BY <1>3, <1>5, <2>2, <3>1, <3>2
  <2> QED
    BY <2>1, <2>2
<1> QED
  BY <1>7, <1>8, <1>9, <1>10 DEF IInv

(* All settings are sent: without a bit each of them is confirmed.         *)
LEMMA EndSettingsKeepsInv ==
  ASSUME IInv, EndSettings
  PROVE  IInv'
<1> DEFINE l == announcing
<1>1. l \in Lidars /\ None \notin Lidars
  BY ConfigAssumption DEF EndSettings, IInv, ConfigTypeOK
<1>2. /\ todo = {} /\ announcing' = None
      /\ sampling' = IF set_bits[l] = {} THEN sampling \cup {l} ELSE sampling
      /\ Send(l, WorkMode)
      /\ UNCHANGED <<indexed, todo, set_bits, normal, confirmed, failed, inputs, troubles>>
  BY DEF EndSettings, historyVars
<1>3. /\ inflight' \in [Lidars -> [Commands -> Nat]]
      /\ \A k \in Lidars, s \in Settings : inflight'[k][s] = inflight[k][s]
  BY <1>1, <1>2, SendCounts, CommandKinds
<1>4. Settled(l, Wanted(l))
  BY <1>1, <1>2 DEF IInv, Prepared, Settled
<1>5. ConfigTypeOK'
  BY <1>1, <1>2, <1>3 DEF IInv, ConfigTypeOK
<1>6. Prepared'
  BY <1>1, <1>2, <1>3, <1>4 DEF IInv, Prepared, Settled, Wanted
<1>7. SamplesConfigured'
  BY <1>1, <1>2, <1>4 DEF IInv, SamplesConfigured, Settled, Wanted
<1>8. NoBitForgotten'
  BY <1>2, <1>3 DEF IInv, ConfigTypeOK, NoBitForgotten
<1> QED
  BY <1>5, <1>6, <1>7, <1>8 DEF IInv

(* The lock is free, so all settings have been sent: the last bit that goes*)
(* is the last confirmation.                                               *)
LEMMA ConfirmKeepsInv ==
  ASSUME IInv, NEW l \in Lidars, NEW s \in Settings, Confirm(l, s)
  PROVE  IInv'
<1>1. s \in Commands /\ None \notin Lidars
  BY CommandKinds, ConfigAssumption
<1>2. /\ announcing = None
      /\ Answered(l, s)
      /\ set_bits' = [set_bits EXCEPT ![l] = @ \ {s}]
      /\ sampling' = IF set_bits'[l] = {} THEN sampling \cup {l} ELSE sampling
      /\ confirmed' = [confirmed EXCEPT ![l] = @ \cup {s}]
      /\ UNCHANGED <<indexed, announcing, todo, normal, failed, inputs, troubles>>
  BY DEF Confirm, mutexVars
<1>3. /\ inflight' \in [Lidars -> [Commands -> Nat]]
      /\ inflight[l][s] > 0
      /\ \A k \in Lidars, d \in Commands : (k # l \/ d # s) => inflight'[k][d] = inflight[k][d]
      /\ \A k \in Lidars, d \in Commands : inflight'[k][d] <= inflight[k][d]
  BY <1>1, <1>2, AnsweredCounts
<1>4. /\ set_bits' \in [Lidars -> SUBSET Settings]
      /\ set_bits'[l] = set_bits[l] \ {s}
      /\ \A k \in Lidars : k # l => set_bits'[k] = set_bits[k]
  BY <1>2 DEF IInv, ConfigTypeOK
<1>5. /\ confirmed' \in [Lidars -> SUBSET Settings]
      /\ confirmed'[l] = confirmed[l] \cup {s}
      /\ \A k \in Lidars : k # l => confirmed'[k] = confirmed[k]
  BY <1>2 DEF IInv, ConfigTypeOK
<1>6. Settled(l, Wanted(l))'
  <2>1. Settled(l, Wanted(l))
    BY <1>1, <1>2, <1>3 DEF IInv, Prepared
  <2> QED
    BY <1>4, <1>5, <2>1 DEF Settled, Wanted
<1>7. ConfigTypeOK'
  BY <1>2, <1>3, <1>4, <1>5 DEF IInv, ConfigTypeOK
<1>8. Prepared'
  <2> SUFFICES ASSUME NEW k \in Lidars
               PROVE  ((\E d \in Settings : inflight[k][d] > 0) => Settled(k, Wanted(k)))'
    BY <1>1, <1>2 DEF Prepared
  <2>1. CASE k = l
    BY <1>6, <2>1
  <2>2. CASE k # l
    <3>1. \A d \in Settings : inflight'[k][d] = inflight[k][d]
      BY <1>3, <2>2, CommandKinds
    <3> QED
      BY <1>1, <1>2, <1>4, <1>5, <2>2, <3>1 DEF IInv, Prepared, Settled, Wanted
  <2> QED
    BY <2>1, <2>2
<1>9. SamplesConfigured'
  <2> SUFFICES ASSUME NEW k \in sampling'
               PROVE  Wanted(k) \subseteq confirmed'[k]
    BY DEF SamplesConfigured, Wanted
  <2>1. CASE k \in sampling
    BY <1>5, <2>1 DEF IInv, ConfigTypeOK, SamplesConfigured
  <2>2. CASE k \notin sampling
    <3>1. k = l /\ set_bits'[l] = {}
      BY <1>2, <2>2
    <3> QED
      BY <1>6, <3>1 DEF Settled, Wanted
  <2> QED
    BY <2>1, <2>2
<1>10. NoBitForgotten'
  <2> SUFFICES ASSUME NEW k \in Lidars, NEW b \in set_bits'[k]
               PROVE  inflight'[k][b] > 0 \/ b \in failed'[k]
    BY DEF NoBitForgotten
  <2>1. b \in set_bits[k] /\ (k # l \/ b # s) /\ b \in Commands
    BY <1>4, CommandKinds DEF IInv, ConfigTypeOK
  <2>2. inflight[k][b] > 0 \/ b \in failed[k]
    BY <2>1 DEF IInv, NoBitForgotten
  <2> QED
    BY <1>2, <1>3, <2>1, <2>2
<1> QED
  BY <1>7, <1>8, <1>9, <1>10 DEF IInv

LEMMA WorkModeChangedKeepsInv ==
  ASSUME IInv, NEW l \in Lidars, WorkModeChanged(l)
  PROVE  IInv'
<1>1. /\ Answered(l, WorkMode)
      /\ normal' = normal \cup {l}
      /\ UNCHANGED <<indexed, announcing, todo, set_bits, sampling, confirmed, failed, inputs, troubles>>
  BY DEF WorkModeChanged, mutexVars, lidarVars
<1>2. /\ inflight' \in [Lidars -> [Commands -> Nat]]
      /\ \A k \in Lidars, s \in Settings : inflight'[k][s] = inflight[k][s]
  BY <1>1, AnsweredCounts, CommandKinds
<1>3. ConfigTypeOK'
  BY <1>1, <1>2 DEF IInv, ConfigTypeOK
<1>4. Prepared' /\ SamplesConfigured'
  BY <1>1, <1>2 DEF IInv, Prepared, Settled, Wanted, SamplesConfigured
<1>5. NoBitForgotten'
  BY <1>1, <1>2 DEF IInv, ConfigTypeOK, NoBitForgotten
<1> QED
  BY <1>3, <1>4, <1>5 DEF IInv

(* What is sent again is still under way; what is refused is known to be.  *)
LEMMA TroubleKeepsInv ==
  ASSUME IInv, NEW l \in Lidars, NEW c \in Commands, TimeOut(l, c) \/ Fail(l, c)
  PROVE  IInv'
<1> USE DEF TimeOut, Fail, mutexVars, lidarVars, historyVars
<1>1. /\ UNCHANGED <<indexed, announcing, todo, set_bits, sampling, normal, confirmed, inputs>>
      /\ troubles < MaxTroubles /\ troubles' = troubles + 1
  OBVIOUS
<1>2. /\ failed' \in [Lidars -> SUBSET Commands]
      /\ \A k \in Lidars : failed[k] \subseteq failed'[k]
  <2>1. failed \in [Lidars -> SUBSET Commands]
    BY DEF IInv, ConfigTypeOK
  <2>2. failed' = failed \/ failed' = [failed EXCEPT ![l] = @ \cup {c}]
    OBVIOUS
  <2> QED
    BY <2>1, <2>2
<1>3. \/ UNCHANGED inflight
      \/ Answered(l, c) /\ c \in failed'[l]
  BY DEF IInv, ConfigTypeOK
<1>4. /\ inflight' \in [Lidars -> [Commands -> Nat]]
      /\ \A k \in Lidars, d \in Commands : inflight'[k][d] <= inflight[k][d]
      /\ \A k \in Lidars, d \in Commands : inflight'[k][d] = inflight[k][d] \/ d \in failed'[k]
  BY <1>3, AnsweredCounts DEF IInv, ConfigTypeOK
<1>5. ConfigTypeOK'
  BY <1>1, <1>2, <1>4, ConfigAssumption DEF IInv, ConfigTypeOK
<1>6. Prepared'
  <2>1. \A k \in Lidars : (\E s \in Settings : inflight'[k][s] > 0)
                            => (\E s \in Settings : inflight[k][s] > 0)
    BY <1>4, CommandKinds DEF IInv, ConfigTypeOK
  <2> QED
    BY <1>1, <2>1 DEF IInv, Prepared, Settled, Wanted
<1>7. SamplesConfigured'
  BY <1>1 DEF IInv, SamplesConfigured, Wanted
<1>8. NoBitForgotten'
  BY <1>1, <1>2, <1>4, CommandKinds DEF IInv, ConfigTypeOK, NoBitForgotten
<1> QED
  BY <1>5, <1>6, <1>7, <1>8 DEF IInv

LEMMA NextKeepsInv == IInv /\ [Next]_configVars => IInv'
<1> SUFFICES ASSUME IInv, [Next]_configVars
             PROVE  IInv'
  OBVIOUS
<1>1. ASSUME NEW l \in Lidars, Announce(l)
      PROVE  IInv'
  BY <1>1, AnnounceKeepsInv
<1>2. CASE SendSetting
  BY <1>2, SendSettingKeepsInv
<1>3. CASE EndSettings
  BY <1>3, EndSettingsKeepsInv
<1>4. ASSUME NEW l \in Lidars, NEW c \in Commands, Answer(l, c)
      PROVE  IInv'
  BY <1>4, ConfirmKeepsInv, WorkModeChangedKeepsInv, TroubleKeepsInv DEF Answer
<1>5. CASE UNCHANGED configVars
  BY <1>5 DEF configVars, mutexVars, lidarVars, historyVars, IInv, ConfigTypeOK,
     Prepared, Settled, Wanted, SamplesConfigured, NoBitForgotten
<1> QED
  BY <1>1, <1>2, <1>3, <1>4, <1>5 DEF Next

-----------------------------------------------------------------------------
LEMMA InvHolds == Spec => []IInv
<1> QED
  BY InitInv, NextKeepsInv, PTL DEF Spec

-----------------------------------------------------------------------------
(* The way of the points.                                                  *)

PacketOf == [lidar : Lidars, point : Nat]

FrontTypeOK ==
  /\ raw_packet_queue_ \in Seq(PacketOf)
  /\ points_clouds_ \in [Lidars -> Seq(Nat)]
  /\ processor \in {"top", "take", "process", "timer", "store", "stopped"}
  /\ processor \in {"process", "timer"} => raw_data \in PacketOf
  /\ frame_ \in Seq([lidar : Lidars, base : Nat, points : Seq(Nat)])
  /\ frame_ # <<>> => processor = "store"
  /\ sent \in [Lidars -> Nat]
  /\ stored \in [Lidars -> Seq(Nat)]
  /\ dropped \in [Lidars -> SUBSET Nat]

(* A lidar of the user's file always has its index.                        *)
FrontInv ==
  /\ IInv
  /\ FrontTypeOK
  /\ DOMAIN UserConfig \subseteq indexed
  /\ EveryPointOnce

LEMMA RunOfPoints ==
  ASSUME NEW a \in Nat, NEW b \in Nat, a <= b
  PROVE  /\ Run(a, b) \in Seq(Nat)
         /\ Len(Run(a, b)) = b - a
         /\ DOMAIN Run(a, b) = 1..b - a
         /\ \A i \in 1..b - a : Run(a, b)[i] = a + i
         /\ ToSet(Run(a, b)) = a + 1..b
         /\ Run(a, b) = <<>> <=> a = b
<1> DEFINE r == Run(a, b)
<1>1. /\ r \in [1..b - a -> Nat]
      /\ \A i \in 1..b - a : r[i] = a + i
  BY DEF Run
<1>2. b - a \in Nat
  OBVIOUS
<1> HIDE DEF r
<1>3. r \in Seq(Nat) /\ Len(r) = b - a /\ DOMAIN r = 1..b - a
  BY <1>1, <1>2
<1>4. ToSet(r) = a + 1..b
  <2>1. ASSUME NEW p \in a + 1..b
        PROVE  p \in ToSet(r)
    <3>1. p - a \in 1..b - a /\ r[p - a] = p
      BY <1>1
    <3> QED
      BY <1>3, <3>1 DEF ToSet
  <2>2. ASSUME NEW p \in ToSet(r)
        PROVE  p \in a + 1..b
    <3>1. PICK i \in 1..b - a : p = r[i]
      BY <1>3 DEF ToSet
    <3> QED
      BY <1>1, <3>1
  <2> QED
    BY <2>1, <2>2
<1>5. r = <<>> <=> a = b
  BY <1>3
<1> QED
  BY <1>1, <1>3, <1>4, <1>5 DEF r

LEMMA RunGrows ==
  ASSUME NEW a \in Nat, NEW b \in Nat, a <= b
  PROVE  Append(Run(a, b), b + 1) = Run(a, b + 1)
<1> DEFINE r == Run(a, b)
           q == Run(a, b + 1)
<1>1. r \in Seq(Nat) /\ Len(r) = b - a /\ \A i \in 1..b - a : r[i] = a + i
  BY RunOfPoints
<1>2. q \in Seq(Nat) /\ Len(q) = b + 1 - a /\ \A i \in 1..b + 1 - a : q[i] = a + i
  BY RunOfPoints
<1> HIDE DEF r, q
<1>3. Append(r, b + 1) \in Seq(Nat) /\ Len(Append(r, b + 1)) = b + 1 - a
  BY <1>1
<1>4. ASSUME NEW i \in 1..b + 1 - a
      PROVE  Append(r, b + 1)[i] = q[i]
  <2>1. CASE i = b + 1 - a
    BY <1>1, <1>2, <2>1
  <2>2. CASE i # b + 1 - a
    <3>1. i \in 1..b - a
      BY <2>2
    <3> QED
      BY <1>1, <1>2, <3>1
  <2> QED
    BY <2>1, <2>2
<1>5. Append(r, b + 1) = q
  BY <1>2, <1>3, <1>4
<1> QED
  BY <1>5 DEF r, q

LEMMA AppendedRun ==
  ASSUME NEW s \in Seq(Nat), NEW a \in Nat, NEW b \in Nat, a <= b,
         Ascending(s), ToSet(s) \subseteq 1..a
  PROVE  /\ s \o Run(a, b) \in Seq(Nat)
         /\ Ascending(s \o Run(a, b))
         /\ ToSet(s \o Run(a, b)) = ToSet(s) \cup (a + 1..b)
<1> DEFINE r == Run(a, b)
           n == Len(s)
           c == s \o Run(a, b)
<1>1. /\ r \in Seq(Nat) /\ Len(r) = b - a /\ ToSet(r) = a + 1..b
      /\ \A i \in 1..b - a : r[i] = a + i
  BY RunOfPoints
<1>2. n \in Nat /\ DOMAIN s = 1..n /\ b - a \in Nat /\ c = s \o r
  OBVIOUS
<1> HIDE DEF r
<1>3. /\ c \in Seq(Nat) /\ Len(c) = n + (b - a) /\ DOMAIN c = 1..n + (b - a)
      /\ \A i \in 1..n : c[i] = s[i]
  <2>1. /\ s \o r \in Seq(Nat) /\ Len(s \o r) = Len(s) + Len(r)
        /\ \A i \in 1..Len(s) + Len(r) :
             (s \o r)[i] = IF i <= Len(s) THEN s[i] ELSE r[i - Len(s)]
    BY <1>1, ConcatProperties
  <2>2. c \in Seq(Nat) /\ Len(c) = n + (b - a)
    BY <1>1, <1>2, <2>1
  <2>3. \A i \in 1..n : c[i] = s[i]
    BY <1>1, <1>2, <2>1
  <2> QED
    BY <2>2, <2>3
<1>4. \A i \in 1..b - a : n + i \in DOMAIN c /\ c[n + i] = a + i
  <2> SUFFICES ASSUME NEW i \in 1..b - a
               PROVE  n + i \in DOMAIN c /\ c[n + i] = a + i
    OBVIOUS
  <2>1. n + i \in 1..n + (b - a) /\ n + i \notin 1..n /\ (n + i) - n = i
    BY <1>2
  <2>2. c[n + i] = r[(n + i) - n]
    BY <1>1, <1>2, <2>1
  <2> QED
    BY <1>1, <1>3, <2>1, <2>2
<1> HIDE DEF c, n
<1>5. \A i \in 1..n : i \in DOMAIN c /\ c[i] = s[i] /\ s[i] \in 1..a
  BY <1>2, <1>3 DEF ToSet
<1>6. \A i \in DOMAIN c : i \notin 1..n => i - n \in 1..b - a /\ c[i] = a + (i - n)
  <2> SUFFICES ASSUME NEW i \in DOMAIN c, i \notin 1..n
               PROVE  i - n \in 1..b - a /\ c[i] = a + (i - n)
    OBVIOUS
  <2>1. i - n \in 1..b - a /\ n + (i - n) = i
    BY <1>2, <1>3
  <2> QED
    BY <1>4, <2>1
<1>7. Ascending(c)
  <2> SUFFICES ASSUME NEW i \in DOMAIN c, NEW j \in DOMAIN c, i < j
               PROVE  c[i] < c[j]
    BY DEF Ascending
  <2>1. CASE i \in 1..n /\ j \in 1..n
    BY <1>2, <1>5, <2>1 DEF Ascending
  <2>2. CASE i \in 1..n /\ j \notin 1..n
    BY <1>2, <1>5, <1>6, <2>2
  <2>3. CASE i \notin 1..n
    <3>1. j \notin 1..n /\ i \in Nat /\ j \in Nat
      BY <1>2, <1>3, <2>3
    <3>2. c[i] = a + (i - n) /\ c[j] = a + (j - n)
      BY <1>6, <2>3, <3>1
    <3> QED
      BY <1>2, <3>1, <3>2
  <2> QED
    BY <2>1, <2>2, <2>3
<1>8. ToSet(c) \subseteq ToSet(s) \cup (a + 1..b)
  <2> SUFFICES ASSUME NEW i \in DOMAIN c
               PROVE  c[i] \in ToSet(s) \cup (a + 1..b)
    BY DEF ToSet
  <2>1. CASE i \in 1..n
    BY <1>2, <1>5, <2>1 DEF ToSet
  <2>2. CASE i \notin 1..n
    BY <1>2, <1>6, <2>2
  <2> QED
    BY <2>1, <2>2
<1>9. ToSet(s) \subseteq ToSet(c)
  BY <1>2, <1>5 DEF ToSet
<1>10. a + 1..b \subseteq ToSet(c)
  <2> SUFFICES ASSUME NEW p \in a + 1..b
               PROVE  p \in ToSet(c)
    OBVIOUS
  <2>1. p - a \in 1..b - a /\ a + (p - a) = p
    OBVIOUS
  <2>2. n + (p - a) \in DOMAIN c /\ c[n + (p - a)] = p
    BY <1>4, <2>1
  <2> QED
    BY <2>2 DEF ToSet
<1> QED
  BY <1>3, <1>7, <1>8, <1>9, <1>10 DEF c

(* SetToSeq lists a finite set, each element once.                         *)
LEMMA SetToSeqLists ==
  ASSUME NEW S, IsFiniteSet(S)
  PROVE  /\ SetToSeq(S) \in Seq(S)
         /\ \A i, j \in DOMAIN SetToSeq(S) : SetToSeq(S)[i] = SetToSeq(S)[j] => i = j
         /\ \A x \in S : \E i \in DOMAIN SetToSeq(S) : SetToSeq(S)[i] = x
<1> DEFINE n == Cardinality(S)
           f == SetToSeq(S)
<1>1. n \in Nat /\ ExistsBijection(1..n, S)
  BY FS_CardinalityType
<1>2. \E g \in [1..n -> S] : IsInjective(g)
  BY <1>1 DEF ExistsBijection, Bijection, Injection
<1>3. f \in [1..n -> S] /\ IsInjective(f)
  BY <1>2 DEF SetToSeq
<1> HIDE DEF f
<1>4. f \in Injection(1..n, S)
  BY <1>3 DEF Injection
<1>5. f \in Surjection(1..n, S)
  BY <1>1, <1>4, FS_Interval, FS_Injection
<1>6. \A x \in S : \E i \in 1..n : f[i] = x
  BY <1>5 DEF Surjection
<1> HIDE DEF n
<1>7. f \in Seq(S) /\ DOMAIN f = 1..n
  BY <1>1, <1>3
<1> QED
  BY <1>3, <1>6, <1>7 DEF IsInjective, f

-----------------------------------------------------------------------------
LEMMA FrontInitInv == FrontInit => FrontInv
<1> SUFFICES ASSUME FrontInit
             PROVE  FrontInv
  OBVIOUS
<1> USE DEF FrontInit, PubInit
<1>1. IInv
  BY InitInv
<1>2. FrontTypeOK
  BY DEF FrontTypeOK
<1>3. DOMAIN UserConfig \subseteq indexed
  BY DEF Init
<1>4. EveryPointOnce
  <2> SUFFICES ASSUME NEW l \in Lidars
               PROVE  InPlace(l, 0, 0, 0)
    BY DEF EveryPointOnce
  <2>1. HandedOn(l, 0)
    BY DEF HandedOn, Ascending, ToSet
  <2>2. Framed(l, 0, 0)
    BY DEF Framed
  <2>3. points_clouds_[l] = Run(0, 0)
    BY RunOfPoints
  <2>4. ~InHand(l) /\ Taken(l, 0) = 0
    BY DEF InHand, Taken
  <2>5. Queued(l, 0)
    BY DEF Queued
  <2> QED
    BY <2>1, <2>2, <2>3, <2>4, <2>5 DEF InPlace
<1> QED
  BY <1>1, <1>2, <1>3, <1>4 DEF FrontInv

(* What a step does not touch stays in its place.                          *)
LEMMA ElsewhereInPlace ==
  ASSUME NEW l \in Lidars,
         UNCHANGED <<stored[l], dropped[l], frame_, points_clouds_[l], sent[l]>>,
         UNCHANGED <<InHand(l), raw_data>> ,
         \A t \in 0..sent[l] : Queued(l, t) => Queued(l, t)',
         \E a, b, c \in 0..sent[l] : InPlace(l, a, b, c)
  PROVE  (\E a, b, c \in 0..sent[l] : InPlace(l, a, b, c))'
<1>1. PICK a \in 0..sent[l], b \in 0..sent[l], c \in 0..sent[l] : InPlace(l, a, b, c)
  OBVIOUS
<1>2. HandedOn(l, a)' /\ Framed(l, a, b)'
  BY <1>1 DEF InPlace, HandedOn, Framed
<1>3. Taken(l, c)' = Taken(l, c) /\ Taken(l, c) \in 0..sent[l]
  BY <1>1 DEF InPlace, Taken
<1>4. Queued(l, Taken(l, c))'
  BY <1>1, <1>3 DEF InPlace
<1> QED
  BY <1>1, <1>2, <1>3, <1>4 DEF InPlace

(* A step of the announcement or of an answer leaves the points alone, and *)
(* no lidar loses its index.                                               *)
LEMMA NextKeepsFrontInv ==
  ASSUME FrontInv, [Next]_configVars, UNCHANGED pubVars
  PROVE  FrontInv'
<1> USE DEF pubVars, threadVars
<1>1. IInv'
  BY NextKeepsInv DEF FrontInv
<1>2. FrontTypeOK'
  BY DEF FrontInv, FrontTypeOK
<1>3. indexed \subseteq indexed'
  BY DEF Next, Announce, SendSetting, EndSettings, Answer, Confirm, WorkModeChanged, TimeOut,
     Fail, configVars
<1>4. EveryPointOnce'
  BY DEF FrontInv, EveryPointOnce, InPlace, HandedOn, Framed, InHand, Taken, Queued
<1> QED
  BY <1>1, <1>2, <1>3, <1>4 DEF FrontInv

(* A packet more counts as an input of the configuration.                  *)
LEMMA InputKeepsInv ==
  ASSUME IInv, inputs < MaxInputs, inputs' = inputs + 1,
         UNCHANGED <<indexed, mutexVars, lidarVars, inflight, historyVars, troubles>>
  PROVE  IInv'
BY ConfigAssumption DEF IInv, ConfigTypeOK, mutexVars, lidarVars, historyVars, Prepared, Settled,
   Wanted, SamplesConfigured, NoBitForgotten

LEMMA ImuPacketKeepsFrontInv ==
  ASSUME FrontInv, NEW sync \in BOOLEAN, ImuPacket(sync),
         UNCHANGED <<indexed, mutexVars, lidarVars, inflight, historyVars, troubles>>
  PROVE  FrontInv'
<1> USE DEF ImuPacket, threadVars
<1>1. IInv'
  BY InputKeepsInv DEF FrontInv
<1>2. FrontTypeOK'
  BY DEF FrontInv, FrontTypeOK
<1>3. EveryPointOnce'
  BY DEF FrontInv, EveryPointOnce, InPlace, HandedOn, Framed, InHand, Taken, Queued
<1> QED
  BY <1>1, <1>2, <1>3 DEF FrontInv

(* The new packet is the last of its lidar, and its point comes after all  *)
(* the others.                                                             *)
LEMMA PacketKeepsFrontInv ==
  ASSUME FrontInv, NEW l \in Lidars, NEW sync \in BOOLEAN, Packet(l, sync),
         UNCHANGED <<indexed, mutexVars, lidarVars, inflight, historyVars, troubles>>
  PROVE  FrontInv'
<1> DEFINE q == raw_packet_queue_
           n == Len(raw_packet_queue_)
           Mine(k) == {i \in DOMAIN raw_packet_queue_ : raw_packet_queue_[i].lidar = k}
<1>1. /\ UNCHANGED threadVars /\ UNCHANGED <<is_quit_, stored, dropped>>
      /\ sent' = [sent EXCEPT ![l] = @ + 1]
      /\ q' = Append(q, [lidar |-> l, point |-> sent[l] + 1])
  BY DEF Packet
<1>2. q \in Seq(PacketOf) /\ sent \in [Lidars -> Nat]
  BY DEF FrontInv, FrontTypeOK
<1>3. /\ q' \in Seq(PacketOf) /\ n \in Nat /\ DOMAIN q = 1..n /\ DOMAIN q' = 1..n + 1
      /\ \A i \in 1..n : q'[i] = q[i]
      /\ q'[n + 1] = [lidar |-> l, point |-> sent[l] + 1]
      /\ sent' \in [Lidars -> Nat] /\ sent'[l] = sent[l] + 1
      /\ \A k \in Lidars \ {l} : sent'[k] = sent[k]
  BY <1>1, <1>2 DEF PacketOf
<1>4. IInv'
  BY InputKeepsInv DEF FrontInv, Packet
<1>5. FrontTypeOK'
  BY <1>1, <1>3 DEF FrontInv, FrontTypeOK, threadVars
<1>6. UNCHANGED indexed
  OBVIOUS
<1>7. ASSUME NEW k \in Lidars
      PROVE  (\E a, b, c \in 0..sent[k] : InPlace(k, a, b, c))'
  <2>1. CASE k # l
    <3>1. Mine(k)' = Mine(k)
      BY <1>3, <2>1
    <3>2. ASSUME NEW t \in 0..sent[k], Queued(k, t)
          PROVE  Queued(k, t)'
      BY <1>3, <2>1, <3>1, <3>2 DEF Queued
    <3>3. UNCHANGED <<stored[k], dropped[k], frame_, points_clouds_[k], sent[k]>>
      BY <1>1, <1>3, <2>1 DEF threadVars
    <3>4. UNCHANGED <<InHand(k), raw_data>>
      BY <1>1 DEF threadVars, InHand
    <3>5. \E a, b, c \in 0..sent[k] : InPlace(k, a, b, c)
      BY DEF FrontInv, EveryPointOnce
    <3> QED
      BY <3>2, <3>3, <3>4, <3>5, ElsewhereInPlace
  <2>2. CASE k = l
    <3>1. PICK a \in 0..sent[l], b \in 0..sent[l], c \in 0..sent[l] : InPlace(l, a, b, c)
      BY DEF FrontInv, EveryPointOnce
    <3>2. a \in 0..sent'[l] /\ b \in 0..sent'[l] /\ c \in 0..sent'[l]
      BY <1>2, <1>3
    <3>3. HandedOn(l, a)' /\ Framed(l, a, b)'
      BY <1>1, <3>1 DEF InPlace, HandedOn, Framed, threadVars
    <3>4. Taken(l, c)' = Taken(l, c) /\ Taken(l, c) \in 0..sent[l] /\ (InHand(l)' => InHand(l))
      BY <1>1, <1>2, <3>1 DEF InPlace, Taken, InHand, threadVars
    <3> DEFINE t == Taken(l, c)
    <3> HIDE DEF t
    <3>5. /\ {q[i].point : i \in Mine(l)} = t + 1..sent[l]
          /\ \A i, j \in Mine(l) : i < j => q[i].point < q[j].point
      BY <3>1 DEF InPlace, Queued, t
    <3>6. Mine(l)' = Mine(l) \cup {n + 1} /\ Mine(l) \subseteq 1..n
      BY <1>3
    <3>7. \A i \in Mine(l) : q'[i].point = q[i].point /\ q[i].point \in t + 1..sent[l]
      BY <1>3, <3>5, <3>6
    <3>8. q'[n + 1].point = sent[l] + 1
      BY <1>3
    <3>9. {q'[i].point : i \in Mine(l)'} = t + 1..sent'[l]
      <4>1. {q'[i].point : i \in Mine(l)'} = {q[i].point : i \in Mine(l)} \cup {sent[l] + 1}
        BY <3>6, <3>7, <3>8
      <4>2. (t + 1..sent[l]) \cup {sent[l] + 1} = t + 1..sent'[l]
        BY <1>2, <1>3, <3>4 DEF t
      <4> QED
        BY <3>5, <4>1, <4>2
    <3>10. ASSUME NEW i \in Mine(l)', NEW j \in Mine(l)', i < j
           PROVE  q'[i].point < q'[j].point
      <4>1. CASE j = n + 1
        <5>1. i \in Mine(l)
          BY <1>3, <3>6, <3>10, <4>1
        <5> QED
          BY <1>2, <3>4, <3>7, <3>8, <4>1, <5>1 DEF t
      <4>2. CASE j # n + 1
        <5>1. i \in Mine(l) /\ j \in Mine(l)
          BY <1>3, <3>6, <3>10, <4>2
        <5> QED
          BY <3>5, <3>7, <3>10, <5>1
      <4> QED
        BY <4>1, <4>2
    <3>11. Queued(l, t)'
      BY <3>4, <3>9, <3>10 DEF Queued, t
    <3>12. points_clouds_'[l] = Run(b, c) /\ (InHand(l)' => raw_data'.point = c + 1)
      BY <1>1, <3>1, <3>4 DEF InPlace, threadVars
    <3>13. Taken(l, c)' <= sent'[l]
      BY <1>2, <1>3, <3>4
    <3> QED
      BY <2>2, <3>1, <3>2, <3>3, <3>4, <3>11, <3>12, <3>13 DEF InPlace, t
  <2> QED
    BY <2>1, <2>2
<1> QED
  BY <1>4, <1>5, <1>6, <1>7 DEF FrontInv, EveryPointOnce

LEMMA CheckQuitKeepsFrontInv ==
  ASSUME FrontInv, CheckQuit \/ Uninit, UNCHANGED configVars
  PROVE  FrontInv'
<1> USE DEF CheckQuit, Uninit, threadVars
<1>1. IInv'
  BY NextKeepsInv DEF FrontInv
<1>2. FrontTypeOK' /\ UNCHANGED indexed
  BY DEF FrontInv, FrontTypeOK, configVars
<1>3. \A l \in Lidars : InHand(l)' = InHand(l)
  BY DEF InHand
<1>4. EveryPointOnce'
  BY <1>3 DEF FrontInv, EveryPointOnce, InPlace, HandedOn, Framed, Taken, Queued
<1> QED
  BY <1>1, <1>2, <1>4 DEF FrontInv

(* The head of the queue is the oldest packet of its lidar.                *)
LEMMA TakePacketKeepsFrontInv ==
  ASSUME FrontInv, TakePacket, UNCHANGED configVars
  PROVE  FrontInv'
<1> DEFINE q == raw_packet_queue_
           n == Len(raw_packet_queue_)
           Mine(k) == {i \in DOMAIN raw_packet_queue_ : raw_packet_queue_[i].lidar = k}
<1>1. IInv' /\ UNCHANGED indexed
  BY NextKeepsInv DEF FrontInv, configVars
<1>2. /\ processor = "take"
      /\ UNCHANGED <<points_clouds_, frame_, sent, stored, dropped>>
  BY DEF TakePacket
<1>3. q \in Seq(PacketOf) /\ sent \in [Lidars -> Nat] /\ frame_ = <<>>
  BY <1>2 DEF FrontInv, FrontTypeOK
<1>4. CASE q = <<>>
  <2>1. processor' = "top" /\ UNCHANGED <<q, raw_data>>
    BY <1>4 DEF TakePacket
  <2>2. FrontTypeOK'
    BY <1>2, <2>1 DEF FrontInv, FrontTypeOK
  <2>3. \A l \in Lidars : InHand(l)' = InHand(l)
    BY <1>2, <2>1 DEF InHand
  <2>4. EveryPointOnce'
    BY <1>2, <2>1, <2>3 DEF FrontInv, EveryPointOnce, InPlace, HandedOn, Framed, Taken, Queued
  <2> QED
    BY <1>1, <2>2, <2>4 DEF FrontInv
<1>5. CASE q # <<>>
  <2>1. processor' = "process" /\ raw_data' = Head(q) /\ q' = Tail(q)
    BY <1>5 DEF TakePacket
  <2>2. /\ n \in Nat \ {0} /\ DOMAIN q = 1..n /\ DOMAIN q' = 1..n - 1
        /\ q' \in Seq(PacketOf) /\ raw_data' = q[1] /\ q[1] \in PacketOf
        /\ \A i \in 1..n - 1 : q'[i] = q[i + 1]
    BY <1>3, <1>5, <2>1
  <2>3. FrontTypeOK'
    BY <1>2, <1>3, <2>1, <2>2 DEF FrontInv, FrontTypeOK
  <2> DEFINE l == q[1].lidar
  <2>4. ASSUME NEW k \in Lidars
        PROVE  (\E a, b, c \in 0..sent[k] : InPlace(k, a, b, c))'
    <3>1. PICK a \in 0..sent[k], b \in 0..sent[k], c \in 0..sent[k] : InPlace(k, a, b, c)
      BY DEF FrontInv, EveryPointOnce
    <3>2. HandedOn(k, a)' /\ Framed(k, a, b)' /\ points_clouds_'[k] = Run(b, c) /\ sent'[k] = sent[k]
      BY <1>2, <3>1 DEF InPlace, HandedOn, Framed
    <3>3. ~InHand(k) /\ Taken(k, c) = c
      BY <1>2 DEF InHand, Taken
    <3>4. /\ {q[i].point : i \in Mine(k)} = c + 1..sent[k]
          /\ \A i, j \in Mine(k) : i < j => q[i].point < q[j].point
      BY <3>1, <3>3 DEF InPlace, Queued
    <3>5. \A i \in 1..n - 1 : i \in Mine(k)' <=> i + 1 \in Mine(k)
      BY <2>2
    <3>6. Mine(k)' \subseteq 1..n - 1 /\ Mine(k) \subseteq 1..n
      BY <2>2
    <3>7. \A i, j \in Mine(k)' : i < j => q'[i].point < q'[j].point
      <4> SUFFICES ASSUME NEW i \in Mine(k)', NEW j \in Mine(k)', i < j
                   PROVE  q'[i].point < q'[j].point
        OBVIOUS
      <4>1. i + 1 \in Mine(k) /\ j + 1 \in Mine(k) /\ i + 1 < j + 1
        BY <3>5, <3>6
      <4>2. q'[i] = q[i + 1] /\ q'[j] = q[j + 1]
        BY <2>2, <3>6
      <4> QED
        BY <3>4, <4>1, <4>2
    <3>8. {q'[i].point : i \in Mine(k)'} = {q[i].point : i \in Mine(k) \ {1}}
      <4>1. ASSUME NEW i \in Mine(k)'
            PROVE  i + 1 \in Mine(k) \ {1} /\ q'[i].point = q[i + 1].point
        BY <2>2, <3>5, <3>6
      <4>2. ASSUME NEW i \in Mine(k) \ {1}
            PROVE  i - 1 \in Mine(k)' /\ q'[i - 1].point = q[i].point
        <5>1. i - 1 \in 1..n - 1 /\ (i - 1) + 1 = i
          BY <2>2, <3>6
        <5> QED
          BY <2>2, <3>5, <5>1
      <4> QED
        BY <4>1, <4>2
    <3>9. CASE k = l
      <4>1. 1 \in Mine(k)
        BY <2>2, <3>9
      <4>2. q[1].point \in c + 1..sent[k]
        BY <3>4, <4>1
      <4>3. \A i \in Mine(k) \ {1} : q[1].point < q[i].point
        BY <3>4, <3>6, <4>1
      <4>4. q[1].point = c + 1
        <5>1. c + 1 \in c + 1..sent[k]
          BY <1>3, <4>2
        <5>2. PICK i \in Mine(k) : q[i].point = c + 1
          BY <3>4, <5>1
        <5>3. CASE i = 1
          BY <5>2, <5>3
        <5>4. CASE i # 1
          BY <4>2, <4>3, <5>2, <5>4, <1>3
        <5> QED
          BY <5>3, <5>4
      <4>5. {q[i].point : i \in Mine(k) \ {1}} = c + 2..sent[k]
        <5>1. ASSUME NEW i \in Mine(k) \ {1}
              PROVE  q[i].point \in c + 2..sent[k]
          <6>1. q[i].point \in c + 1..sent[k] /\ c + 1 < q[i].point
            BY <3>4, <4>3, <4>4
          <6> QED
            BY <1>3, <6>1
        <5>2. ASSUME NEW p \in c + 2..sent[k]
              PROVE  \E i \in Mine(k) \ {1} : q[i].point = p
          <6>1. p \in c + 1..sent[k] /\ p # c + 1
            BY <1>3
          <6>2. PICK i \in Mine(k) : q[i].point = p
            BY <3>4, <6>1
          <6> QED
            BY <4>4, <6>1, <6>2
        <5> QED
          BY <5>1, <5>2
      <4>6. InHand(k)' /\ Taken(k, c)' = c + 1 /\ raw_data'.point = c + 1
        BY <2>1, <2>2, <3>9, <4>4 DEF InHand, Taken
      <4>7. c + 1 <= sent'[k] /\ (c + 1) + 1 = c + 2
        BY <1>2, <1>3, <4>2
      <4>8. Queued(k, c + 1)'
        BY <1>2, <3>7, <3>8, <4>5, <4>7 DEF Queued
      <4> QED
        BY <3>1, <3>2, <4>6, <4>7, <4>8 DEF InPlace
    <3>10. CASE k # l
      <4>1. 1 \notin Mine(k)
        BY <3>10
      <4>2. ~InHand(k)' /\ Taken(k, c)' = c
        BY <2>1, <2>2, <3>10 DEF InHand, Taken
      <4>3. Queued(k, c)'
        BY <1>2, <3>4, <3>7, <3>8, <4>1 DEF Queued
      <4> QED
        BY <1>2, <1>3, <3>1, <3>2, <4>2, <4>3 DEF InPlace
    <3> QED
      BY <3>9, <3>10
  <2> QED
    BY <1>1, <2>3, <2>4 DEF FrontInv, EveryPointOnce
<1> QED
  BY <1>4, <1>5

(* The point in the hand is the next of those collected.                   *)
LEMMA ProcessPacketKeepsFrontInv ==
  ASSUME FrontInv, ProcessPacket, UNCHANGED configVars
  PROVE  FrontInv'
<1> DEFINE l == raw_data.lidar
<1>1. IInv' /\ UNCHANGED indexed
  BY NextKeepsInv DEF FrontInv, configVars
<1>2. /\ processor = "process" /\ processor' = "timer"
      /\ points_clouds_' = [points_clouds_ EXCEPT ![l] = Append(@, raw_data.point)]
      /\ UNCHANGED <<raw_packet_queue_, raw_data, frame_, sent, stored, dropped>>
  BY DEF ProcessPacket, Collected
<1>3. /\ raw_data \in PacketOf /\ points_clouds_ \in [Lidars -> Seq(Nat)]
      /\ sent \in [Lidars -> Nat] /\ frame_ = <<>>
  BY <1>2 DEF FrontInv, FrontTypeOK
<1>4. points_clouds_' \in [Lidars -> Seq(Nat)]
  BY <1>2, <1>3 DEF PacketOf
<1>5. FrontTypeOK'
  BY <1>2, <1>3, <1>4 DEF FrontInv, FrontTypeOK
<1>6. ASSUME NEW k \in Lidars
      PROVE  (\E a, b, c \in 0..sent[k] : InPlace(k, a, b, c))'
  <2>1. PICK a \in 0..sent[k], b \in 0..sent[k], c \in 0..sent[k] : InPlace(k, a, b, c)
    BY DEF FrontInv, EveryPointOnce
  <2>2. HandedOn(k, a)' /\ Framed(k, a, b)' /\ UNCHANGED sent[k] /\ ~InHand(k)'
    BY <1>2, <2>1 DEF InPlace, HandedOn, Framed, InHand
  <2>3. CASE k = l
    <3>1. InHand(k) /\ Taken(k, c) = c + 1 /\ raw_data.point = c + 1 /\ c + 1 <= sent[k]
      BY <1>2, <2>1, <2>3 DEF InHand, Taken, InPlace
    <3>2. c + 1 \in 0..sent'[k] /\ b <= c + 1
      BY <1>3, <2>1, <2>2, <3>1 DEF InPlace
    <3>3. points_clouds_'[k] = Run(b, c + 1)
      <4>1. points_clouds_'[k] = Append(points_clouds_[k], c + 1)
        BY <1>2, <1>3, <2>3, <3>1
      <4>2. points_clouds_[k] = Run(b, c) /\ b <= c /\ b \in Nat /\ c \in Nat
        BY <1>3, <2>1 DEF InPlace
      <4> QED
        BY <4>1, <4>2, RunGrows
    <3>4. Queued(k, c + 1)' /\ Taken(k, c + 1)' = c + 1
      BY <1>2, <2>1, <2>2, <3>1 DEF InPlace, Queued, Taken
    <3> QED
      BY <2>1, <2>2, <3>1, <3>2, <3>3, <3>4 DEF InPlace
  <2>4. CASE k # l
    <3>1. ~InHand(k) /\ Taken(k, c) = c /\ Taken(k, c)' = c
      BY <2>2, <2>4 DEF InHand, Taken
    <3>2. points_clouds_'[k] = points_clouds_[k] /\ Queued(k, c)'
      BY <1>2, <1>3, <2>1, <2>4, <3>1 DEF InPlace, Queued
    <3> QED
      BY <2>1, <2>2, <3>1, <3>2 DEF InPlace
  <2> QED
    BY <2>3, <2>4
<1> QED
  BY <1>1, <1>5, <1>6 DEF FrontInv, EveryPointOnce

(* What the frame of some lidars holds.                                    *)
LEMMA FrameLists ==
  ASSUME FrontInv, NEW ls, ls \subseteq Lidars
  PROVE  /\ Frame(ls) \in Seq([lidar : Lidars, base : Nat, points : Seq(Nat)])
         /\ \A i \in DOMAIN Frame(ls) :
              LET l == Frame(ls)[i].lidar
              IN /\ l \in ls /\ points_clouds_[l] # <<>>
                 /\ Frame(ls)[i].base = points_clouds_[l][1]
                 /\ Frame(ls)[i].points = points_clouds_[l]
         /\ \A i, j \in DOMAIN Frame(ls) : Frame(ls)[i].lidar = Frame(ls)[j].lidar => i = j
         /\ \A l \in ls : points_clouds_[l] # <<>>
                            => \E i \in DOMAIN Frame(ls) : Frame(ls)[i].lidar = l
<1> DEFINE Entry(l) == [lidar |-> l, base |-> BaseTime(l), points |-> points_clouds_[l]]
           full == {k \in ls : points_clouds_[k] # <<>>}
           S == {Entry(l) : l \in full}
<1>1. points_clouds_ \in [Lidars -> Seq(Nat)]
  BY DEF FrontInv, FrontTypeOK
<1>2. IsFiniteSet(S)
  <2>1. IsFiniteSet(full)
    BY ConfigAssumption, FS_Subset
  <2> DEFINE f == [l \in full |-> Entry(l)]
  <2>2. f \in [full -> S] /\ \A e \in S : \E l \in full : f[l] = e
    OBVIOUS
  <2> HIDE DEF f, S, full
  <2>3. f \in Surjection(full, S)
    BY <2>2 DEF Surjection
  <2> QED
    BY <2>1, <2>3, FS_Surjection
<1>3. S \subseteq [lidar : Lidars, base : Nat, points : Seq(Nat)]
  <2> SUFFICES ASSUME NEW l \in full
               PROVE  Entry(l) \in [lidar : Lidars, base : Nat, points : Seq(Nat)]
    OBVIOUS
  <2>1. points_clouds_[l] \in Seq(Nat) /\ points_clouds_[l] # <<>> /\ l \in Lidars
    BY <1>1
  <2>2. BaseTime(l) \in Nat
    BY <2>1 DEF BaseTime
  <2> QED
    BY <2>1, <2>2
<1> DEFINE F == SetToSeq(S)
<1>4. Frame(ls) = F
  BY DEF Frame
<1> HIDE DEF F
<1>5. /\ F \in Seq(S)
      /\ \A i, j \in DOMAIN F : F[i] = F[j] => i = j
      /\ \A x \in S : \E i \in DOMAIN F : F[i] = x
  BY <1>2, SetToSeqLists DEF F
<1>6. \A i \in DOMAIN F : F[i] \in S
  BY <1>5
<1>7. F \in Seq([lidar : Lidars, base : Nat, points : Seq(Nat)])
  <2> DEFINE T == [lidar : Lidars, base : Nat, points : Seq(Nat)]
  <2> HIDE DEF S, T
  <2>1. F \in [1..Len(F) -> S] /\ Len(F) \in Nat
    BY <1>5
  <2>2. S \subseteq T
    BY <1>3 DEF T
  <2>3. F \in Seq(T)
    BY <2>1, <2>2
  <2> QED
    BY <2>3 DEF T
<1>8. ASSUME NEW i \in DOMAIN F
      PROVE  LET l == F[i].lidar
             IN /\ l \in ls /\ points_clouds_[l] # <<>>
                /\ F[i].base = points_clouds_[l][1]
                /\ F[i].points = points_clouds_[l]
                /\ F[i] = Entry(l)
  <2>1. PICK l \in full : F[i] = Entry(l)
    BY <1>6
  <2> QED
    BY <2>1 DEF BaseTime
<1>9. \A i, j \in DOMAIN F : F[i].lidar = F[j].lidar => i = j
  BY <1>5, <1>8
<1>10. ASSUME NEW l \in ls, points_clouds_[l] # <<>>
       PROVE  \E i \in DOMAIN F : F[i].lidar = l
  <2>1. Entry(l) \in S
    BY <1>10
  <2> HIDE DEF S
  <2>2. PICK i \in DOMAIN F : F[i] = Entry(l)
    BY <1>5, <2>1
  <2> QED
    BY <2>2
<1> QED
  BY <1>4, <1>7, <1>8, <1>9, <1>10

LEMMA FrameHasAll ==
  ASSUME FrontInv, NEW ls, ls \subseteq Lidars, NEW l \in ls, points_clouds_[l] # <<>>
  PROVE  \E i \in DOMAIN Frame(ls) : Frame(ls)[i].lidar = l
<1> DEFINE F == Frame(ls)
<1>1. \A k \in ls : points_clouds_[k] # <<>> => \E i \in DOMAIN F : F[i].lidar = k
  BY FrameLists
<1> HIDE DEF F
<1> QED
  BY <1>1 DEF F

(* The lidars in the frame have their collected points in it now.          *)
LEMMA CheckTimerKeepsFrontInv ==
  ASSUME FrontInv, NEW due \in BOOLEAN, CheckTimer(due), UNCHANGED configVars
  PROVE  FrontInv'
<1>1. IInv' /\ UNCHANGED indexed
  BY NextKeepsInv DEF FrontInv, configVars
<1>2. /\ processor = "timer"
      /\ UNCHANGED <<raw_packet_queue_, raw_data, sent, stored, dropped>>
  BY DEF CheckTimer
<1>3. /\ raw_data \in PacketOf /\ points_clouds_ \in [Lidars -> Seq(Nat)]
      /\ sent \in [Lidars -> Nat] /\ frame_ = <<>>
  BY <1>2 DEF FrontInv, FrontTypeOK
<1>4. CASE processor' = "top" /\ UNCHANGED <<points_clouds_, points_, frame_>>
  <2>1. FrontTypeOK'
    BY <1>2, <1>4 DEF FrontInv, FrontTypeOK
  <2>2. \A l \in Lidars : InHand(l)' = InHand(l)
    BY <1>2, <1>4 DEF InHand
  <2>3. EveryPointOnce'
    BY <1>2, <1>4, <2>2 DEF FrontInv, EveryPointOnce, InPlace, HandedOn, Framed, Taken, Queued
  <2> QED
    BY <1>1, <2>1, <2>3 DEF FrontInv
<1>5. ASSUME NEW ls, ls \subseteq Lidars, Swap(ls), frame_' = Frame(ls), processor' = "store"
      PROVE  FrontInv'
  <2>1. /\ points_clouds_' \in [Lidars -> Seq(Nat)]
        /\ \A l \in ls : points_clouds_'[l] = <<>>
        /\ \A l \in Lidars \ ls : points_clouds_'[l] = points_clouds_[l]
    BY <1>3, <1>5 DEF Swap
  <2>2. FrontTypeOK'
    BY <1>2, <1>3, <1>5, <2>1, FrameLists DEF FrontInv, FrontTypeOK
  <2>3. ASSUME NEW l \in Lidars
        PROVE  (\E a, b, c \in 0..sent[l] : InPlace(l, a, b, c))'
    <3>1. PICK a \in 0..sent[l], b \in 0..sent[l], c \in 0..sent[l] : InPlace(l, a, b, c)
      BY DEF FrontInv, EveryPointOnce
    <3>2. a = b /\ b <= c /\ points_clouds_[l] = Run(a, c) /\ a \in Nat /\ c \in Nat
      BY <1>3, <3>1 DEF InPlace, Framed
    <3>3. HandedOn(l, a)' /\ UNCHANGED sent[l] /\ ~InHand(l)'
      BY <1>2, <1>5, <3>1 DEF InPlace, HandedOn, InHand
    <3>4. Taken(l, c) = c /\ Taken(l, c)' = c
      BY <1>2, <1>5 DEF InHand, Taken
    <3>5. Queued(l, c)' /\ c <= sent'[l]
      BY <1>2, <3>1, <3>4 DEF InPlace, Queued
    <3>6. Run(a, c) = <<>> <=> a = c
      BY <3>2, RunOfPoints
    <3>7. CASE l \in ls
      <4>1. points_clouds_'[l] = Run(c, c)
        BY <2>1, <3>2, <3>7, RunOfPoints
      <4>2. Framed(l, a, c)'
        <5>1. ASSUME NEW i \in DOMAIN frame_', frame_'[i].lidar = l
              PROVE  a < c /\ frame_'[i].base = a + 1 /\ frame_'[i].points = Run(a, c)
          <6>1. /\ points_clouds_[l] # <<>>
                /\ frame_'[i].base = points_clouds_[l][1]
                /\ frame_'[i].points = points_clouds_[l]
            BY <1>5, <5>1, FrameLists
          <6>2. a < c
            BY <3>2, <3>6, <6>1
          <6>3. Run(a, c)[1] = a + 1
            BY <3>2, <6>2 DEF Run
          <6> QED
            BY <3>2, <6>1, <6>2, <6>3
        <5>2. \A i, j \in DOMAIN frame_' :
                frame_'[i].lidar = l /\ frame_'[j].lidar = l => i = j
          BY <1>5, FrameLists
        <5>3. a = c \/ \E i \in DOMAIN frame_' : frame_'[i].lidar = l
          <6>1. a # c => points_clouds_[l] # <<>>
            BY <3>2, <3>6
          <6>2. points_clouds_[l] # <<>> => \E i \in DOMAIN Frame(ls) : Frame(ls)[i].lidar = l
            BY <1>5, <3>7, FrameHasAll
          <6> QED
            BY <1>5, <6>1, <6>2
        <5> QED
          BY <5>1, <5>2, <5>3 DEF Framed
      <4> QED
        BY <3>1, <3>2, <3>3, <3>4, <3>5, <4>1, <4>2 DEF InPlace
    <3>8. CASE l \notin ls
      <4>1. \A i \in DOMAIN frame_' : frame_'[i].lidar # l
        BY <1>5, <3>8, FrameLists
      <4>2. Framed(l, a, b)'
        BY <3>2, <4>1 DEF Framed
      <4>3. points_clouds_'[l] = Run(b, c)
        BY <2>1, <3>2, <3>8
      <4> QED
        BY <3>1, <3>2, <3>3, <3>4, <3>5, <4>2, <4>3 DEF InPlace
    <3> QED
      BY <3>7, <3>8
  <2> QED
    BY <1>1, <2>2, <2>3 DEF FrontInv, EveryPointOnce
<1>6. raw_data.lidar \in Lidars
  BY <1>3 DEF PacketOf
<1> QED
  BY <1>4, <1>5, <1>6 DEF CheckTimer

(* The head of the frame is handed on after all that was before it.        *)
LEMMA StorePointsKeepsFrontInv ==
  ASSUME FrontInv, StorePoints, UNCHANGED configVars
  PROVE  FrontInv'
<1>1. IInv' /\ UNCHANGED indexed
  BY NextKeepsInv DEF FrontInv, configVars
<1>2. /\ processor = "store"
      /\ UNCHANGED <<raw_packet_queue_, points_clouds_, raw_data, sent>>
  BY DEF StorePoints
<1>3. /\ frame_ \in Seq([lidar : Lidars, base : Nat, points : Seq(Nat)])
      /\ sent \in [Lidars -> Nat] /\ stored \in [Lidars -> Seq(Nat)]
      /\ dropped \in [Lidars -> SUBSET Nat]
  BY DEF FrontInv, FrontTypeOK
<1>4. CASE frame_ = <<>>
  <2>1. processor' = "top" /\ UNCHANGED <<frame_, stored, dropped>>
    BY <1>4 DEF StorePoints
  <2>2. FrontTypeOK'
    BY <1>2, <1>3, <1>4, <2>1 DEF FrontInv, FrontTypeOK
  <2>3. \A l \in Lidars : InHand(l)' = InHand(l)
    BY <1>2, <2>1 DEF InHand
  <2>4. EveryPointOnce'
    BY <1>2, <2>1, <2>3 DEF FrontInv, EveryPointOnce, InPlace, HandedOn, Framed, Taken, Queued
  <2> QED
    BY <1>1, <2>2, <2>4 DEF FrontInv
<1>5. CASE frame_ # <<>>
  <2> DEFINE n == Len(frame_)
             e == frame_[1]
  <2>1. /\ n \in Nat \ {0} /\ DOMAIN frame_ = 1..n
        /\ Head(frame_) = e
    BY <1>3, <1>5
  <2>0. PICK l \in Lidars : l = e.lidar
    <3> DEFINE T == [lidar : Lidars, base : Nat, points : Seq(Nat)]
    <3>1. frame_ \in Seq(T)
      BY <1>3
    <3> HIDE DEF T
    <3>2. e \in T
      BY <2>1, <3>1
    <3> QED
      BY <3>2 DEF T
  <2>2. /\ frame_' = Tail(frame_) /\ processor' = "store"
        /\ IF l \in indexed
           THEN /\ stored' = [stored EXCEPT ![l] = @ \o e.points]
                /\ UNCHANGED dropped
           ELSE /\ dropped' = [dropped EXCEPT ![l] = @ \cup ToSet(e.points)]
                /\ UNCHANGED stored
    BY <1>2, <1>5, <2>0, <2>1 DEF StorePoints
  <2>3. /\ frame_' \in Seq([lidar : Lidars, base : Nat, points : Seq(Nat)])
        /\ DOMAIN frame_' = 1..n - 1
        /\ \A i \in 1..n - 1 : frame_'[i] = frame_[i + 1]
    BY <1>3, <1>5, <2>1, <2>2
  <2>4. \A k \in Lidars : ~InHand(k) /\ ~InHand(k)'
    BY <1>2, <2>2 DEF InHand
  <2>5. \A k \in Lidars \ {l} : stored'[k] = stored[k] /\ dropped'[k] = dropped[k]
    BY <1>3, <2>0, <2>2
  <2>10. frame_[1].lidar = l /\ frame_[1].points = e.points
    BY <2>0
  <2> HIDE DEF n, e
  <2>6. ASSUME NEW k \in Lidars, NEW a \in Nat, NEW b \in Nat, Framed(k, a, b)
        PROVE  /\ k = l => Framed(k, b, b)' /\ a < b /\ e.points = Run(a, b)
               /\ k # l => Framed(k, a, b)'
    <3>1. \A i \in 1..n - 1 : i + 1 \in DOMAIN frame_ /\ i + 1 # 1 /\ frame_'[i] = frame_[i + 1]
      BY <2>1, <2>3
    <3>2. CASE k = l
      <4>1. 1 \in DOMAIN frame_ /\ \A i \in DOMAIN frame_ : frame_[i].lidar = k => i = 1
        BY <2>1, <2>6, <2>10, <3>2 DEF Framed
      <4>2. \A i \in DOMAIN frame_' : frame_'[i].lidar # k
        BY <2>3, <3>1, <4>1
      <4>3. a < b /\ e.points = Run(a, b)
        BY <2>6, <2>10, <3>2, <4>1 DEF Framed
      <4>4. Framed(k, b, b)'
        BY <4>2 DEF Framed
      <4> QED
        BY <3>2, <4>3, <4>4
    <3>3. CASE k # l
      <4>1. ASSUME NEW i \in DOMAIN frame_', frame_'[i].lidar = k
            PROVE  a < b /\ frame_'[i].base = a + 1 /\ frame_'[i].points = Run(a, b)
        <5>1. i + 1 \in DOMAIN frame_ /\ frame_'[i] = frame_[i + 1]
          BY <2>3, <3>1
        <5> QED
          BY <2>6, <4>1, <5>1 DEF Framed
      <4>2. ASSUME NEW i \in DOMAIN frame_', NEW j \in DOMAIN frame_',
                   frame_'[i].lidar = k, frame_'[j].lidar = k
            PROVE  i = j
        <5>1. i + 1 = j + 1
          BY <2>3, <2>6, <3>1, <4>2 DEF Framed
        <5> QED
          BY <2>3, <5>1
      <4>3. a = b \/ \E i \in DOMAIN frame_' : frame_'[i].lidar = k
        <5> SUFFICES ASSUME a # b
                     PROVE  \E i \in DOMAIN frame_' : frame_'[i].lidar = k
          OBVIOUS
        <5>1. PICK i \in DOMAIN frame_ : frame_[i].lidar = k
          BY <2>6 DEF Framed
        <5>2. i - 1 \in 1..n - 1 /\ (i - 1) + 1 = i
          <6>1. i \in 1..n /\ i # 1
            BY <2>1, <2>10, <3>3, <5>1
          <6> QED
            BY <2>1, <6>1
        <5>3. frame_'[i - 1].lidar = k
          BY <2>3, <5>1, <5>2
        <5> QED
          BY <2>3, <5>2, <5>3
      <4> QED
        BY <3>3, <4>1, <4>2, <4>3 DEF Framed
    <3> QED
      BY <3>2, <3>3
  <2>7. ASSUME NEW a \in Nat, NEW b \in Nat, a < b, HandedOn(l, a), e.points = Run(a, b)
        PROVE  HandedOn(l, b)' /\ stored'[l] \in Seq(Nat) /\ dropped'[l] \in SUBSET Nat
    <3> DEFINE s == stored[l]
               r == Run(a, b)
    <3>1. s \in Seq(Nat) /\ dropped[l] \in SUBSET Nat
      BY <1>3, <2>0
    <3>2. ToSet(r) = a + 1..b
      BY <2>7, RunOfPoints
    <3>3. /\ Ascending(s) /\ ToSet(s) = (1..a) \ dropped[l] /\ dropped[l] \subseteq 1..a
          /\ l \in DOMAIN UserConfig => dropped[l] = {}
      BY <2>7 DEF HandedOn
    <3>4. (1..a) \cup (a + 1..b) = 1..b /\ (1..a) \cap (a + 1..b) = {}
      BY <2>7
    <3>5. CASE l \in indexed
      <4>1. stored'[l] = s \o r /\ dropped'[l] = dropped[l]
        BY <1>3, <2>0, <2>2, <2>7, <3>5
      <4>2. /\ s \o r \in Seq(Nat) /\ Ascending(s \o r)
            /\ ToSet(s \o r) = ToSet(s) \cup (a + 1..b)
        BY <2>7, <3>1, <3>3, AppendedRun
      <4>3. ToSet(s \o r) = (1..b) \ dropped[l] /\ dropped[l] \subseteq 1..b
        BY <3>3, <3>4, <4>2
      <4> QED
        BY <3>1, <3>3, <4>1, <4>2, <4>3 DEF HandedOn
    <3>6. CASE l \notin indexed
      <4>1. stored'[l] = s /\ dropped'[l] = dropped[l] \cup (a + 1..b)
        BY <1>3, <2>0, <2>2, <2>7, <3>2, <3>6
      <4>2. l \notin DOMAIN UserConfig
        BY <3>6 DEF FrontInv
      <4>3. (1..a) \ dropped[l] = (1..b) \ (dropped[l] \cup (a + 1..b))
        BY <3>4
      <4>4. dropped'[l] \subseteq 1..b /\ dropped'[l] \in SUBSET Nat
        BY <3>1, <3>3, <3>4, <4>1
      <4> QED
        BY <3>1, <3>3, <4>1, <4>2, <4>3, <4>4 DEF HandedOn
    <3> QED
      BY <3>5, <3>6
  <2>8. ASSUME NEW k \in Lidars
        PROVE  (\E a, b, c \in 0..sent[k] : InPlace(k, a, b, c))'
    <3>1. PICK a \in 0..sent[k], b \in 0..sent[k], c \in 0..sent[k] : InPlace(k, a, b, c)
      BY DEF FrontInv, EveryPointOnce
    <3>2. a \in Nat /\ b \in Nat /\ UNCHANGED sent[k] /\ points_clouds_'[k] = Run(b, c)
      BY <1>2, <1>3, <3>1 DEF InPlace
    <3>3. Taken(k, c) = c /\ Taken(k, c)' = c /\ Queued(k, c)'
      BY <1>2, <2>4, <3>1 DEF InPlace, Taken, Queued
    <3>4. CASE k = l
      <4>1. HandedOn(l, a) /\ Framed(k, a, b)
        BY <3>1, <3>4 DEF InPlace
      <4>2. Framed(k, b, b)' /\ a < b /\ e.points = Run(a, b)
        BY <2>6, <3>2, <3>4, <4>1
      <4>3. HandedOn(k, b)'
        BY <2>7, <3>2, <3>4, <4>1, <4>2
      <4> QED
        BY <1>3, <2>4, <3>1, <3>2, <3>3, <4>2, <4>3 DEF InPlace
    <3>5. CASE k # l
      <4>1. HandedOn(k, a)' /\ Framed(k, a, b)'
        BY <2>5, <2>6, <3>1, <3>2, <3>5 DEF InPlace, HandedOn
      <4> QED
        BY <1>3, <2>4, <3>1, <3>2, <3>3, <4>1 DEF InPlace
    <3> QED
      BY <3>4, <3>5
  <2>9. FrontTypeOK'
    <3>1. PICK a \in 0..sent[l], b \in 0..sent[l], c \in 0..sent[l] : InPlace(l, a, b, c)
      BY <2>0 DEF FrontInv, EveryPointOnce
    <3>2. stored'[l] \in Seq(Nat) /\ dropped'[l] \in SUBSET Nat
      <4>1. HandedOn(l, a) /\ Framed(l, a, b) /\ a \in Nat /\ b \in Nat
        BY <1>3, <2>0, <3>1 DEF InPlace
      <4>2. a < b /\ e.points = Run(a, b)
        BY <2>0, <2>6, <4>1
      <4> QED
        BY <2>7, <4>1, <4>2
    <3>3. stored' \in [Lidars -> Seq(Nat)] /\ dropped' \in [Lidars -> SUBSET Nat]
      BY <1>3, <2>0, <2>2, <3>2
    <3> QED
      BY <1>2, <2>2, <2>3, <3>3 DEF FrontInv, FrontTypeOK
  <2> QED
    BY <1>1, <2>8, <2>9 DEF FrontInv, EveryPointOnce
<1> QED
  BY <1>4, <1>5

LEMMA FrontNextKeepsInv == FrontInv /\ [FrontNext]_vars => FrontInv'
<1> SUFFICES ASSUME FrontInv, [FrontNext]_vars
             PROVE  FrontInv'
  OBVIOUS
<1>1. CASE Next /\ UNCHANGED pubVars
  BY <1>1, NextKeepsFrontInv
<1>2. ASSUME NEW sync \in BOOLEAN, ImuPacket(sync) \/ \E l \in Lidars : Packet(l, sync),
             UNCHANGED <<indexed, mutexVars, lidarVars, inflight, historyVars, troubles>>
      PROVE  FrontInv'
  BY <1>2, ImuPacketKeepsFrontInv, PacketKeepsFrontInv
<1>3. CASE Process /\ UNCHANGED configVars
  BY <1>3, CheckQuitKeepsFrontInv, TakePacketKeepsFrontInv, ProcessPacketKeepsFrontInv,
     CheckTimerKeepsFrontInv, StorePointsKeepsFrontInv DEF Process
<1>4. CASE Uninit /\ UNCHANGED configVars
  BY <1>4, CheckQuitKeepsFrontInv
<1>5. CASE UNCHANGED vars
  BY <1>5, NextKeepsFrontInv DEF vars
<1> QED
  BY <1>1, <1>2, <1>3, <1>4, <1>5 DEF FrontNext

-----------------------------------------------------------------------------
LEMMA FrontInvHolds == FrontSpec => []FrontInv
<1> QED
  BY FrontInitInv, FrontNextKeepsInv, PTL DEF FrontSpec

(* Every variable of the configuration has its type, for every user file,  *)
(* with packets or without.                                                *)
THEOREM TypeCorrect == (Spec => []ConfigTypeOK) /\ (FrontSpec => []ConfigTypeOK)
<1>1. IInv => ConfigTypeOK
  BY DEF IInv
<1>2. FrontInv => IInv
  BY DEF FrontInv
<1> QED
  BY <1>1, <1>2, InvHolds, FrontInvHolds, PTL

(* A lidar whose connect_state is sampling confirmed all its settings.     *)
THEOREM SampledIsConfigured ==
  (Spec => []SamplesConfigured) /\ (FrontSpec => []SamplesConfigured)
<1>1. IInv => SamplesConfigured
  BY DEF IInv
<1>2. FrontInv => IInv
  BY DEF FrontInv
<1> QED
  BY <1>1, <1>2, InvHolds, FrontInvHolds, PTL

(* A bit that is set has a command under way, or its setting was refused.  *)
THEOREM BitsAreCleared == (Spec => []NoBitForgotten) /\ (FrontSpec => []NoBitForgotten)
<1>1. IInv => NoBitForgotten
  BY DEF IInv
<1>2. FrontInv => IInv
  BY DEF FrontInv
<1> QED
  BY <1>1, <1>2, InvHolds, FrontInvHolds, PTL

(* Every point a lidar sent is stored, dropped before the lidar has an     *)
(* index, or at one place on its way, in order, whatever the synchronisation*)
(* and the frames do.                                                      *)
THEOREM PointsOnce == FrontSpec => []EveryPointOnce
<1>1. FrontInv => EveryPointOnce
  BY DEF FrontInv
<1> QED
  BY <1>1, FrontInvHolds, PTL
=============================================================================
