------------------------- MODULE AdaptiveModeProofs -------------------------
(* Proofs about AdaptiveMode, for every value of its constants.            *)
EXTENDS AdaptiveMode, TLAPS

\* The clock is never behind a recorded time; PUBACKs are awaited in the order of
\* sending; a running timer was started by a message still awaited.
TimerInv ==
    /\ now > SlowLimit
    /\ send_time <= now
    /\ slow_since <= now
    /\ \A i \in DOMAIN unacked : unacked[i].sent <= now
    /\ \A i, j \in DOMAIN unacked : i < j => unacked[i].sent <= unacked[j].sent
    /\ send_time > 0 => \E i \in DOMAIN unacked : unacked[i].sent = send_time

\* The ring holds the last samples: going back from the slot before the next one
\* to be written meets them from the newest to the oldest.
RingInv ==
    /\ \A k \in Slots : k < Len(samples) =>
         lat_pre[(count_for_lat + 4 - k) % 5] = samples[Len(samples) - k]
    /\ Len(samples) >= 1 => threshold_l = Total(lat_pre) \div Window

\* Typing and the timer invariant are inductive together: the type of a sample
\* depends on the timer having started in the past.
LEMMA TimerInductive == Spec => [](TypeOK /\ TimerInv)
<1> USE ConstantsAssumption
<1>1. Init => TypeOK /\ TimerInv
  BY DEF Init, TypeOK, TimerInv, Fresh, Window, Slots
<1>2. TypeOK /\ TimerInv /\ [Next]_vars => TypeOK' /\ TimerInv'
  <2> SUFFICES ASSUME TypeOK, TimerInv, [Next]_vars PROVE TypeOK' /\ TimerInv'
    OBVIOUS
  <2>0. \A i \in DOMAIN unacked : unacked[i].sent \in Nat
    <3>1. \A i \in DOMAIN unacked : unacked[i] \in Awaited
      BY DEF TypeOK
    <3> QED BY <3>1 DEF Awaited
  <2>1. ASSUME NEW threshold \in Thresholds, Connect(threshold)
        PROVE TypeOK' /\ TimerInv'
    BY <2>1 DEF Connect, Fresh, TypeOK, TimerInv, Window, Slots
  <2>2. ASSUME NEW probe \in BOOLEAN, NEW large \in BOOLEAN, Publish(probe, large)
        PROVE TypeOK' /\ TimerInv'
    <3> DEFINE m == [probe |-> probe, sent |-> now]
    <3>1. CASE unacked' = unacked /\ (send_time' = send_time)
      BY <2>2, <3>1, SMTT(30) DEF Publish, ModeAtInsert, TypeOK, TimerInv, ring, ghosts
    <3>2. CASE unacked' = Append(unacked, m) /\ send_time' \in {send_time, now}
      <4>1. m \in Awaited /\ m.sent = now
        BY DEF TypeOK, Awaited
      <4>2. TypeOK'
        BY <2>2, <3>2, <4>1 DEF Publish, ModeAtInsert, TypeOK, ring, ghosts
      <4>3. /\ DOMAIN unacked = 1..Len(unacked)
            /\ DOMAIN unacked' = 1..(Len(unacked) + 1)
            /\ Len(unacked) \in Nat
            /\ unacked'[Len(unacked) + 1].sent = now
            /\ \A i \in DOMAIN unacked : unacked'[i] = unacked[i]
        BY <3>2, <4>1 DEF TypeOK
      <4>4. /\ now' = now /\ now \in Nat /\ send_time \in Nat
            /\ slow_since' = slow_since
        BY <2>2 DEF Publish, TypeOK
      <4>5. TimerInv'
        BY <2>0, <3>2, <4>3, <4>4 DEF TimerInv
      <4> QED BY <4>2, <4>5
    <3>3. \/ unacked' = unacked /\ send_time' = send_time
          \/ unacked' = Append(unacked, m) /\ send_time' \in {send_time, now}
      BY <2>2 DEF Publish
    <3> QED BY <3>1, <3>2, <3>3
  <2>3. CASE Puback
    <3>0. /\ unacked' = Tail(unacked)
          /\ now' = now
          /\ flag' = flag
          /\ connects' = connects
      BY <2>3 DEF Puback
    <3>1. /\ Tail(unacked) \in Seq(Awaited)
          /\ DOMAIN Tail(unacked) = 1..(Len(unacked) - 1)
          /\ \A i \in DOMAIN Tail(unacked) : Tail(unacked)[i] = unacked[i + 1]
          /\ DOMAIN unacked = 1..Len(unacked)
          /\ Len(unacked) \in Nat
          /\ Head(unacked).sent = unacked[1].sent
          /\ 1 \in DOMAIN unacked
      BY <2>3 DEF Puback, TypeOK
    <3>t. ASSUME send_time' = 0, slow_since' \in {now, slow_since} PROVE TimerInv'
      <4>1. \A i \in DOMAIN unacked' :
              i \in Int /\ i + 1 \in DOMAIN unacked /\ unacked'[i] = unacked[i + 1]
        BY <3>0, <3>1
      <4>2. \A i \in DOMAIN unacked' : unacked'[i].sent <= now'
        BY <3>0, <4>1 DEF TimerInv
      <4>3. \A i, j \in DOMAIN unacked' :
              i < j => unacked'[i].sent <= unacked'[j].sent
        BY <4>1 DEF TimerInv
      <4> QED BY <3>0, <3>t, <4>2, <4>3 DEF TypeOK, TimerInv
    <3>2. CASE send_time > 0
      <4> DEFINE lat == now - send_time
                 pre == [lat_pre EXCEPT ![Slot(count_for_lat)] = lat]
                 round == now - Head(unacked).sent
      <4>1. /\ lat_pre' = pre
            /\ count_for_lat' = Slot(count_for_lat) + 1
            /\ threshold_l' = Total(pre) \div Window
            /\ mode' \in {"normal", "slow"}
            /\ slow_mode_time' \in {0, now, slow_mode_time}
            /\ send_time' = 0
            /\ samples' = Append(samples, lat)
            /\ trip' = round
            /\ slow_since' \in {now, slow_since}
            /\ held_for' = held_for
        BY <2>3, <3>2 DEF Puback, EnterSlow, TimerAfterSample
      <4>2. lat \in Nat
        BY DEF TypeOK, TimerInv
      <4>3. Slot(count_for_lat) \in Slots
        BY DEF TypeOK, Slot, Slots, Window
      <4>4. pre \in [Slots -> Nat]
        BY <4>2, <4>3 DEF TypeOK
      <4>5. Total(pre) \div Window \in Nat
        <5> HIDE DEF pre
        <5>1. Total(pre) \in Nat
          BY <4>4 DEF Total, Slots, Window
        <5> QED BY <5>1 DEF Window
      <4>6. count_for_lat' \in 0..Window
        BY <4>1, <4>3 DEF Slots, Window
      <4>7. round \in Nat
        BY <3>1, <2>0, SMTT(30) DEF TypeOK, TimerInv
      <4>8. TypeOK'
        <5> HIDE DEF lat, pre, round
        <5>1. samples' \in Seq(Nat)
          BY <4>1, <4>2 DEF TypeOK
        <5> QED BY <2>3, <3>0, <3>1, <4>1, <4>4, <4>5, <4>6, <4>7, <5>1
               DEF TypeOK
      <4>9. TimerInv'
        BY <3>t, <4>1
      <4> QED BY <4>8, <4>9
    <3>3. CASE ~(send_time > 0)
      <4>1. UNCHANGED <<lat_pre, count_for_lat, threshold_l, mode, slow_mode_time,
                        send_time, samples, trip, slow_since, held_for>>
        BY <2>3, <3>3 DEF Puback, ring, ghosts
      <4>2. TypeOK'
        BY <3>0, <3>1, <4>1 DEF TypeOK
      <4>3. TimerInv'
        BY <3>t, <3>3, <4>1 DEF TypeOK
      <4> QED BY <4>2, <4>3
    <3> QED BY <3>2, <3>3
  <2>4. CASE UnsubscribeLatency
    BY <2>4 DEF UnsubscribeLatency, TypeOK, TimerInv, ring, ghosts
  <2>5. ASSUME NEW step \in Steps, Tick(step) PROVE TypeOK' /\ TimerInv'
    <3>0. step \in Nat
      OBVIOUS
    <3>1. TypeOK'
      BY <2>5, <3>0 DEF Tick, TypeOK, ring, ghosts
    <3>2. TimerInv'
      BY <2>0, <2>5, <3>0 DEF Tick, TypeOK, TimerInv, ghosts
    <3> QED BY <3>1, <3>2
  <2>6. CASE UNCHANGED vars
    BY <2>6 DEF vars, TypeOK, TimerInv, ring, ghosts
  <2> QED BY <2>1, <2>2, <2>3, <2>4, <2>5, <2>6 DEF Next
<1> QED BY <1>1, <1>2, PTL DEF Spec

\* However often the ring has wrapped around, the threshold that the next sample
\* is compared with is the mean of the last five.
THEOREM ThresholdIsMean == Spec => []ThresholdIsRecentMean
<1> USE ConstantsAssumption
<1>1. Init => RingInv
  BY DEF Init, RingInv, Slots, Window
<1>2. TypeOK /\ TimerInv /\ RingInv /\ [Next]_vars => RingInv'
  <2> SUFFICES ASSUME TypeOK, TimerInv, RingInv, [Next]_vars PROVE RingInv'
    OBVIOUS
  <2>1. ASSUME NEW threshold \in Thresholds, Connect(threshold) PROVE RingInv'
    BY <2>1 DEF Connect, RingInv, Slots, Window
  <2>2. CASE Puback /\ send_time > 0
    <3> DEFINE lat == now - send_time
               c == count_for_lat % 5
               n == Len(samples)
    <3>1. /\ lat_pre' = [lat_pre EXCEPT ![c] = lat]
          /\ count_for_lat' = c + 1
          /\ samples' = Append(samples, lat)
          /\ threshold_l' = Total(lat_pre') \div Window
      BY <2>2, Zenon DEF Puback, Slot, Window
    <3>2. lat \in Nat /\ c \in 0..4 /\ n \in Nat /\ count_for_lat \in 0..5
      BY DEF TypeOK, TimerInv, Window
    <3>3. /\ Len(samples') = n + 1
          /\ samples'[n + 1] = lat
          /\ \A i \in 1..n : samples'[i] = samples[i]
      BY <3>1, <3>2 DEF TypeOK
    <3>4. ASSUME NEW k \in Slots, k < n + 1
          PROVE  lat_pre'[(c + 1 + 4 - k) % 5] = samples'[n + 1 - k]
      <4>1. CASE k = 0
        <5>1. (c + 1 + 4 - k) % 5 = c
          BY <3>2, <4>1
        <5> QED BY <3>1, <3>2, <3>3, <4>1, <5>1 DEF TypeOK, Slots, Window
      <4>2. CASE k # 0
        <5>1. /\ k - 1 \in Slots /\ k - 1 < n
              /\ (c + 1 + 4 - k) % 5 = (count_for_lat + 4 - (k - 1)) % 5
              /\ (c + 1 + 4 - k) % 5 # c
              /\ (c + 1 + 4 - k) % 5 \in Slots
          BY <3>2, <3>4, <4>2 DEF Slots, Window
        <5>2. lat_pre[(count_for_lat + 4 - (k - 1)) % 5] = samples[n - (k - 1)]
          BY <5>1 DEF RingInv
        <5>3. n + 1 - k = n - (k - 1) /\ n + 1 - k \in 1..n
          BY <3>2, <3>4, <4>2 DEF Slots, Window
        <5> DEFINE x == (c + 1 + 4 - k) % 5
        <5>4. x \in Slots /\ x # c /\ lat_pre[x] = samples[n + 1 - k]
          BY <5>1, <5>2, <5>3
        <5> HIDE DEF c, lat, n, x
        <5>5. lat_pre'[x] = lat_pre[x]
          BY <3>1, <5>4 DEF TypeOK
        <5>6. samples'[n + 1 - k] = samples[n + 1 - k]
          BY <3>3, <5>3
        <5>7. lat_pre'[x] = samples'[n + 1 - k]
          BY <5>4, <5>5, <5>6
        <5> QED BY <5>7, Zenon DEF x
      <4> QED BY <4>1, <4>2
    <3>5. ASSUME NEW k \in Slots, k < Len(samples')
          PROVE  lat_pre'[(count_for_lat' + 4 - k) % 5] = samples'[Len(samples') - k]
      <4>1. k \in Int /\ k < n + 1 /\ count_for_lat' + 4 - k = c + 1 + 4 - k
        BY <3>1, <3>2, <3>3, <3>5 DEF Slots, Window
      <4> QED BY <3>3, <3>4, <4>1
    <3> QED BY <3>1, <3>5, Zenon DEF RingInv
  <2>3. CASE UNCHANGED <<lat_pre, count_for_lat, threshold_l, samples>>
    BY <2>3 DEF RingInv, Total
  <2> QED BY <2>1, <2>2, <2>3, Zenon
          DEF Next, Publish, Puback, UnsubscribeLatency, Tick, vars, ring, ghosts
<1>3. TypeOK /\ RingInv => ThresholdIsRecentMean
  <2> SUFFICES ASSUME TypeOK, RingInv, Len(samples) >= Window
               PROVE  threshold_l = RecentMean(samples)
    BY DEF ThresholdIsRecentMean
  <2> DEFINE n == Len(samples)
  <2>1. n \in Nat /\ \A i \in 1..n : samples[i] \in Nat
    BY DEF TypeOK
  <2>2. \A k \in 0..4 : lat_pre[(count_for_lat + 4 - k) % 5] = samples[n - k]
    BY <2>1, SMTT(30) DEF RingInv, Slots, Window
  <2>3. /\ lat_pre[(count_for_lat + 4) % 5] = samples[n]
        /\ lat_pre[(count_for_lat + 3) % 5] = samples[n - 1]
        /\ lat_pre[(count_for_lat + 2) % 5] = samples[n - 2]
        /\ lat_pre[(count_for_lat + 1) % 5] = samples[n - 3]
        /\ lat_pre[count_for_lat % 5] = samples[n - 4]
    BY <2>1, <2>2 DEF TypeOK, Window
  <2>4. Total(lat_pre) = samples[n] + samples[n - 1] + samples[n - 2]
                           + samples[n - 3] + samples[n - 4]
    <3>0. Slots = 0..4
      BY DEF Slots, Window
    <3>1. /\ lat_pre[0] \in Nat
          /\ lat_pre[1] \in Nat
          /\ lat_pre[2] \in Nat
          /\ lat_pre[3] \in Nat
          /\ lat_pre[4] \in Nat
      BY <3>0 DEF TypeOK
    <3> DEFINE a == lat_pre[0]
               b == lat_pre[1]
               c == lat_pre[2]
               d == lat_pre[3]
               e == lat_pre[4]
    <3>a. Total(lat_pre) = a + b + c + d + e
      BY DEF Total
    <3>b. a \in Nat /\ b \in Nat /\ c \in Nat /\ d \in Nat /\ e \in Nat
      BY <3>1
    <3> HIDE DEF a, b, c, d, e
    <3>9. LET t == Total(lat_pre) IN
          /\ t = e + d + c + b + a
          /\ t = a + e + d + c + b
          /\ t = b + a + e + d + c
          /\ t = c + b + a + e + d
          /\ t = d + c + b + a + e
      BY <3>a, <3>b
    <3> HIDE DEF n
    <3>2. count_for_lat \in {0, 1, 2, 3, 4, 5}
      BY DEF TypeOK, Window
    <3>3. CASE count_for_lat = 0
      <4>1. /\ lat_pre[4] = samples[n]
            /\ lat_pre[3] = samples[n - 1]
            /\ lat_pre[2] = samples[n - 2]
            /\ lat_pre[1] = samples[n - 3]
            /\ lat_pre[0] = samples[n - 4]
        BY <2>3, <3>3
      <4> QED BY <3>9, <4>1, Zenon DEF a, b, c, d, e
    <3>4. CASE count_for_lat = 1
      <4>1. /\ lat_pre[0] = samples[n]
            /\ lat_pre[4] = samples[n - 1]
            /\ lat_pre[3] = samples[n - 2]
            /\ lat_pre[2] = samples[n - 3]
            /\ lat_pre[1] = samples[n - 4]
        BY <2>3, <3>4
      <4> QED BY <3>9, <4>1, Zenon DEF a, b, c, d, e
    <3>5. CASE count_for_lat = 2
      <4>1. /\ lat_pre[1] = samples[n]
            /\ lat_pre[0] = samples[n - 1]
            /\ lat_pre[4] = samples[n - 2]
            /\ lat_pre[3] = samples[n - 3]
            /\ lat_pre[2] = samples[n - 4]
        BY <2>3, <3>5
      <4> QED BY <3>9, <4>1, Zenon DEF a, b, c, d, e
    <3>6. CASE count_for_lat = 3
      <4>1. /\ lat_pre[2] = samples[n]
            /\ lat_pre[1] = samples[n - 1]
            /\ lat_pre[0] = samples[n - 2]
            /\ lat_pre[4] = samples[n - 3]
            /\ lat_pre[3] = samples[n - 4]
        BY <2>3, <3>6
      <4> QED BY <3>9, <4>1, Zenon DEF a, b, c, d, e
    <3>7. CASE count_for_lat = 4
      <4>1. /\ lat_pre[3] = samples[n]
            /\ lat_pre[2] = samples[n - 1]
            /\ lat_pre[1] = samples[n - 2]
            /\ lat_pre[0] = samples[n - 3]
            /\ lat_pre[4] = samples[n - 4]
        BY <2>3, <3>7
      <4> QED BY <3>9, <4>1, Zenon DEF a, b, c, d, e
    <3>8. CASE count_for_lat = 5
      <4>1. /\ lat_pre[4] = samples[n]
            /\ lat_pre[3] = samples[n - 1]
            /\ lat_pre[2] = samples[n - 2]
            /\ lat_pre[1] = samples[n - 3]
            /\ lat_pre[0] = samples[n - 4]
        BY <2>3, <3>8
      <4> QED BY <3>9, <4>1, Zenon DEF a, b, c, d, e
    <3> QED BY <3>2, <3>3, <3>4, <3>5, <3>6, <3>7, <3>8
  <2> QED BY <2>4 DEF RingInv, RecentMean, Window
<1> QED BY TimerInductive, <1>1, <1>2, <1>3, PTL DEF Spec

\* The type invariant, for every value of the constants.
THEOREM TypeCorrect == Spec => []TypeOK
BY TimerInductive, PTL

\* A sample never exceeds the round trip of the message whose PUBACK ended it: the
\* probe whose sending started the timer is still awaited, and PUBACKs come in the
\* order of sending.
THEOREM SamplesNeverOverestimate == Spec => []NeverOverestimates
<1> USE ConstantsAssumption
<1>1. Init => NeverOverestimates
  BY SMTT(30) DEF Init, NeverOverestimates
<1>2. TypeOK /\ TimerInv /\ NeverOverestimates /\ [Next]_vars
        => NeverOverestimates'
  <2> SUFFICES ASSUME TypeOK, TimerInv, NeverOverestimates, [Next]_vars
               PROVE  NeverOverestimates'
    OBVIOUS
  <2>1. ASSUME NEW threshold \in Thresholds, Connect(threshold)
        PROVE  NeverOverestimates'
    BY <2>1 DEF Connect, NeverOverestimates
  <2>2. CASE Puback /\ send_time > 0
    <3> DEFINE lat == now - send_time
               round == now - Head(unacked).sent
    <3>1. samples' = Append(samples, lat) /\ trip' = round
      BY <2>2 DEF Puback
    <3>2. PICK i \in DOMAIN unacked : unacked[i].sent = send_time
      BY <2>2 DEF TimerInv
    <3>3. /\ DOMAIN unacked = 1..Len(unacked) /\ Len(unacked) \in Nat
          /\ unacked # <<>>
      BY <2>2 DEF TypeOK, Puback
    <3>4. /\ 1 \in DOMAIN unacked /\ i \in Int /\ (1 < i \/ i = 1)
          /\ Head(unacked) = unacked[1]
      BY <3>2, <3>3
    <3>5. unacked[1] \in Awaited
      BY <3>4 DEF TypeOK
    <3>6. unacked[1].sent \in Nat
      BY <3>5 DEF Awaited
    <3>7. unacked[1].sent <= send_time
      BY <3>2, <3>4, <3>6 DEF TimerInv
    <3>8. lat \in Int /\ lat <= round
      BY <3>4, <3>6, <3>7 DEF TypeOK
    <3>9. Len(samples') = Len(samples) + 1 /\ samples'[Len(samples) + 1] = lat
      BY <3>1, <3>8 DEF TypeOK
    <3> QED BY <3>1, <3>8, <3>9 DEF NeverOverestimates
  <2>3. CASE UNCHANGED <<samples, trip>>
    BY <2>3 DEF NeverOverestimates
  <2> QED BY <2>1, <2>2, <2>3, Zenon
          DEF Next, Publish, Puback, UnsubscribeLatency, Tick, vars, ghosts
<1> QED BY TimerInductive, <1>1, <1>2, PTL DEF Spec

\* In slow mode the recorded time is the time of entry, for every history of probes.
THEOREM SlowTimeIsEntry == Spec => []SlowSinceEntry
<1>1. Init => SlowSinceEntry
  BY DEF Init, SlowSinceEntry
<1>2. TypeOK /\ SlowSinceEntry /\ [Next]_vars => SlowSinceEntry'
  <2> SUFFICES ASSUME TypeOK, SlowSinceEntry, [Next]_vars PROVE SlowSinceEntry'
    OBVIOUS
  <2>1. ASSUME NEW threshold \in Thresholds, Connect(threshold)
        PROVE  SlowSinceEntry'
    BY <2>1 DEF Connect, SlowSinceEntry
  <2>2. ASSUME NEW probe \in BOOLEAN, NEW large \in BOOLEAN, Publish(probe, large)
        PROVE  SlowSinceEntry'
    BY <2>2 DEF Publish, ModeAtInsert, SlowSinceEntry, ghosts
  <2>3. CASE Puback
    BY <2>3 DEF Puback, EnterSlow, SlowSinceEntry, TypeOK, ghosts
  <2>4. CASE UnsubscribeLatency \/ (\E step \in Steps : Tick(step)) \/ UNCHANGED vars
    BY <2>4 DEF UnsubscribeLatency, Tick, vars, SlowSinceEntry, ghosts
  <2> QED BY <2>1, <2>2, <2>3, <2>4 DEF Next
<1> QED BY TypeCorrect, <1>1, <1>2, PTL DEF Spec

\* No large message is held back once SlowLimit has passed since slow mode began.
THEOREM HoldingEnds == Spec => []HeldOnlyWithinLimit
<1> USE ConstantsAssumption
<1>1. Init => HeldOnlyWithinLimit
  BY SMTT(30) DEF Init, HeldOnlyWithinLimit
<1>2. TypeOK /\ SlowSinceEntry /\ HeldOnlyWithinLimit /\ [Next]_vars
        => HeldOnlyWithinLimit'
  <2> SUFFICES ASSUME TypeOK, SlowSinceEntry, HeldOnlyWithinLimit, [Next]_vars
               PROVE  HeldOnlyWithinLimit'
    OBVIOUS
  <2>1. CASE held_for' = held_for
    BY <2>1 DEF HeldOnlyWithinLimit
  <2>2. ASSUME NEW probe \in BOOLEAN, NEW large \in BOOLEAN, Publish(probe, large),
               ModeAtInsert = "slow"
        PROVE  HeldOnlyWithinLimit'
    <3>1. mode = "slow" /\ ~(slow_mode_time + SlowLimit < now)
      BY <2>2 DEF ModeAtInsert
    <3>2. held_for' \in {held_for, now - slow_since}
      BY <2>2 DEF Publish
    <3> QED BY <2>1, <3>1, <3>2 DEF SlowSinceEntry, HeldOnlyWithinLimit, TypeOK
  <2> QED BY <2>1, <2>2, Zenon
          DEF Next, Connect, Publish, Puback, UnsubscribeLatency, Tick, vars, ghosts
<1> QED BY <1>1, <1>2, TypeCorrect, SlowTimeIsEntry, PTL DEF Spec

\* A sample turns the mode to slow exactly if it reaches the mean of the five samples
\* before it.
THEOREM ModeIsVerdict == Spec => ModeFollowsMean
<1> DEFINE A == Len(samples) >= Window /\ Len(samples') = Len(samples) + 1 =>
                  (mode' = "slow")
                    = (samples'[Len(samples')] >= RecentMean(samples))
<1>1. TypeOK /\ TimerInv /\ ThresholdIsRecentMean /\ [Next]_vars => A \/ UNCHANGED vars
  <2> SUFFICES ASSUME TypeOK, TimerInv, ThresholdIsRecentMean, Next,
                      Len(samples) >= Window, Len(samples') = Len(samples) + 1
               PROVE  (mode' = "slow")
                        = (samples'[Len(samples')] >= RecentMean(samples))
    OBVIOUS
  <2>1. Len(samples) \in Nat /\ samples' # samples /\ samples' # <<>>
    BY DEF TypeOK
  <2>2. Puback /\ send_time > 0
    BY <2>1, Zenon DEF Next, Connect, Publish, Puback, UnsubscribeLatency, Tick, ghosts
  <2>3. now - send_time \in Int
    BY DEF TypeOK
  <2>4. samples'[Len(samples')] = now - send_time
    BY <2>2, <2>3 DEF Puback, TypeOK
  <2>5. (mode' = "slow") <=> (now - send_time >= threshold_l)
    BY <2>2 DEF Puback, IsSlow
  <2> QED BY <2>4, <2>5 DEF ThresholdIsRecentMean
<1> QED BY <1>1, TimerInductive, ThresholdIsMean, PTL DEF ModeFollowsMean, Spec
=============================================================================
