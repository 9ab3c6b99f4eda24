---------------------------- MODULE AdaptiveMode ----------------------------
(***************************************************************************)
(* How the broker decides between normal and slow mode for one subscriber: *)
(* latency probes (PUBLISH on the topic "latency"), the round trip time    *)
(* measured at the next PUBACK, the ring of the last five samples, the     *)
(* threshold computed from it, and the limit on the time in slow mode.     *)
(* OutgoingMessages models what the mode then does to the message lists;   *)
(* there, the verdict of a sample is a free choice.                        *)
(***************************************************************************)
EXTENDS Integers, Sequences

CONSTANTS
    SlowLimit,     \* the 30 seconds of db__message_insert
    InitialLat,    \* initial entries of lat_pre (1000000 microseconds)
    Thresholds,    \* threshold_l values a CONNECT may carry (0: flag not set)
    Steps,         \* bound: by how much the clock advances at a time
    MaxTime,       \* bound: clock
    MaxSamples,    \* bound: samples per connection
    MaxUnacked,    \* bound: QoS 1 messages awaiting their PUBACK
    MaxConnects    \* bound: connections

ASSUME ConstantsAssumption ==
    /\ SlowLimit \in Nat
    /\ InitialLat \in Nat
    /\ Thresholds \subseteq Nat
    /\ Steps \subseteq Nat
    /\ MaxTime \in Nat
    /\ MaxSamples \in Nat
    /\ MaxUnacked \in Nat
    /\ MaxConnects \in Nat

Window == 5
Slots == 0..(Window - 1)
\* A QoS 1 message sent at a time and not yet acknowledged.
Awaited == [probe: BOOLEAN, sent: Nat]

VARIABLES
    now,              \* the clock; one unit for both of the code's clocks
    unacked,          \* QoS 1 messages sent, in order
    send_time,        \* 0 when no probe is being timed
    lat_pre,          \* ring of samples
    count_for_lat,    \* next slot of the ring
    threshold_l,      \* the latency that counts as slow
    mode,             \* context->mode
    slow_mode_time,   \* when slow mode was entered, 0 if not in it
    flag,             \* did CONNECT carry a threshold (control flag bit 0)?
    samples,          \* ghost: all samples of this connection
    trip,             \* ghost: true round trip time of the last timed message
    slow_since,       \* ghost: when mode last turned from normal to slow
    held_for,         \* ghost: how long slow mode had lasted at the last hold
    connects          \* connections so far

ring == <<lat_pre, count_for_lat, threshold_l>>
ghosts == <<samples, trip, slow_since, held_for>>
vars == <<now, unacked, send_time, ring, mode, slow_mode_time, flag, ghosts,
          connects>>

\* context__init, and the threshold that handle__connect reads.
Fresh(threshold) ==
    [lat_pre |-> [i \in Slots |-> IF i = 0 THEN 0 ELSE InitialLat],
     count_for_lat |-> 0,
     threshold_l |-> threshold]

Init ==
    \E threshold \in Thresholds :
        /\ lat_pre = Fresh(threshold).lat_pre
        /\ count_for_lat = Fresh(threshold).count_for_lat
        /\ threshold_l = Fresh(threshold).threshold_l
        /\ flag = (threshold > 0)
        /\ now = SlowLimit + 1
        /\ unacked = <<>>
        /\ send_time = 0
        /\ mode = "normal"
        /\ slow_mode_time = 0
        /\ samples = <<>>
        /\ trip = 0
        /\ slow_since = 0
        /\ held_for = 0
        /\ connects = 1

\* The client connects again: a new context.
Connect(threshold) ==
    /\ connects < MaxConnects
    /\ connects' = connects + 1
    /\ lat_pre' = Fresh(threshold).lat_pre
    /\ count_for_lat' = Fresh(threshold).count_for_lat
    /\ threshold_l' = Fresh(threshold).threshold_l
    /\ flag' = (threshold > 0)
    /\ unacked' = <<>>
    /\ send_time' = 0
    /\ mode' = "normal"
    /\ slow_mode_time' = 0
    /\ samples' = <<>>
    /\ trip' = 0
    /\ UNCHANGED <<now, slow_since, held_for>>

\* Mutant: no overtime test.
ModeUnlimited == mode

\* The overtime test of db__message_insert.
ModeAtInsert ==
    IF slow_mode_time + SlowLimit < now THEN "normal" ELSE mode

\* db__message_insert and send__publish for a QoS 1 message: a large one is held
\* back in slow mode, any other is sent; sending a probe starts its timer.
Publish(probe, large) ==
    LET held == large /\ ~probe /\ ModeAtInsert = "slow"
    IN  /\ held \/ Len(unacked) < MaxUnacked
        /\ mode' = ModeAtInsert
        /\ unacked' = IF held THEN unacked
                      ELSE Append(unacked, [probe |-> probe, sent |-> now])
        /\ send_time' = IF probe THEN now ELSE send_time
        /\ held_for' = IF held THEN now - slow_since ELSE held_for
        /\ UNCHANGED <<now, ring, slow_mode_time, flag, samples, trip, slow_since,
                       connects>>

\* Mutants: the loop stops one entry early; the timer keeps running; the
\* comparison is strict.
TotalOfFour(f) == f[0] + f[1] + f[2] + f[3]
TimerKept(t) == t
IsSlowStrict(lat, threshold) == lat > threshold

\* The parts of handle__pubackcomp: the sum of the ring, the slot of the new
\* sample, the timer after a sample, the start of slow mode, the comparison.
Total(f) == f[0] + f[1] + f[2] + f[3] + f[4]
Slot(c) == c % Window
TimerAfterSample(t) == 0
EnterSlow(m, t) == IF m = "normal" THEN now ELSE t
IsSlow(lat, threshold) == lat >= threshold

\* handle__pubackcomp for a PUBACK: any PUBACK ends the timing of a probe.  The
\* sample enters the ring, is compared with the threshold computed before, and
\* then the new threshold is stored.
Puback ==
    LET lat  == now - send_time
        slot == Slot(count_for_lat)
        pre  == [lat_pre EXCEPT ![slot] = lat]
        slow == IsSlow(lat, threshold_l)
    IN  /\ unacked # <<>>
        /\ Len(samples) < MaxSamples
        /\ unacked' = Tail(unacked)
        /\ IF send_time > 0
           THEN /\ lat_pre' = pre
                /\ count_for_lat' = slot + 1
                /\ threshold_l' = Total(pre) \div Window
                /\ mode' = IF slow THEN "slow" ELSE "normal"
                /\ slow_mode_time' =
                     IF slow THEN EnterSlow(mode, slow_mode_time) ELSE 0
                /\ send_time' = TimerAfterSample(send_time)
                /\ samples' = Append(samples, lat)
                /\ trip' = now - Head(unacked).sent
                /\ slow_since' = IF slow /\ mode = "normal" THEN now
                                 ELSE slow_since
                /\ UNCHANGED held_for
           ELSE UNCHANGED <<ring, mode, slow_mode_time, send_time, ghosts>>
        /\ UNCHANGED <<now, flag, connects>>

\* handle__unsubscribe from the topic "latency".
UnsubscribeLatency ==
    /\ mode' = "normal"
    /\ UNCHANGED <<now, unacked, send_time, ring, slow_mode_time, flag, ghosts,
                   connects>>

Tick(step) ==
    /\ now + step <= MaxTime
    /\ now' = now + step
    /\ UNCHANGED <<unacked, send_time, ring, mode, slow_mode_time, flag, ghosts,
                   connects>>

Next ==
    \/ \E threshold \in Thresholds : Connect(threshold)
    \/ \E probe, large \in BOOLEAN : Publish(probe, large)
    \/ Puback
    \/ UnsubscribeLatency
    \/ \E step \in Steps : Tick(step)

Spec == Init /\ [][Next]_vars

-----------------------------------------------------------------------------
(* Properties                                                              *)

\* Type correctness.
TypeOK ==
    /\ now \in Nat
    /\ unacked \in Seq(Awaited)
    /\ send_time \in Nat
    /\ lat_pre \in [Slots -> Nat]
    /\ count_for_lat \in 0..Window
    /\ threshold_l \in Nat
    /\ mode \in {"normal", "slow"}
    /\ slow_mode_time \in Nat
    /\ flag \in BOOLEAN
    /\ samples \in Seq(Nat)
    /\ trip \in Nat
    /\ slow_since \in Nat
    /\ held_for \in Nat
    /\ connects \in Nat

\* The mean of the last five of at least five samples.
RecentMean(s) ==
    LET n == Len(s)
    IN  (s[n] + s[n - 1] + s[n - 2] + s[n - 3] + s[n - 4]) \div Window

\* Once five samples have been taken, threshold_l is the mean of the last five,
\* however often the ring has wrapped around.
ThresholdIsRecentMean ==
    Len(samples) >= Window => threshold_l = RecentMean(samples)

\* A sample turns the mode to slow exactly if it is at least the mean of the five
\* samples before it; the new sample itself does not count.
ModeFollowsMean ==
    [][Len(samples) >= Window /\ Len(samples') = Len(samples) + 1 =>
         (mode' = "slow") = (samples'[Len(samples')] >= RecentMean(samples))]_vars

\* A sample is never larger than the round trip time of the message whose PUBACK
\* ended it: a PUBACK of an earlier message, and a later probe that restarts the
\* timer, can only shorten it.
NeverOverestimates ==
    samples # <<>> => samples[Len(samples)] <= trip

\* While the mode is slow, slow_mode_time is the moment it was entered: the limit
\* on slow mode cannot be extended by further slow samples.
SlowSinceEntry ==
    mode = "slow" => slow_mode_time = slow_since

\* No message is held back later than SlowLimit after slow mode was entered.
HeldOnlyWithinLimit ==
    held_for <= SlowLimit

\* A client that did not set control flag bit 0 in CONNECT is not subject to the
\* transmit policy.
\* The code does not keep to this (README, Deviations).
PolicyIsOptIn ==
    ~flag => mode = "normal"
=============================================================================
