---------------------------- MODULE MCDelivery ----------------------------
(* What must happen to messages in the end, in three uses chosen in the    *)
(* initial state: publications of a client (the constants of the           *)
(* configuration file), QoS 1 messages to a subscriber, and messages to a  *)
(* subscriber without an inflight limit under the transmit policy.         *)
EXTENDS MCIncomingMessages

VARIABLES
    use, msgs_out, mode, slow_age, last_mid, link, acks, expired, offered, accepted, delivered, refused,
    unreleased, losses

outVars == <<msgs_out, mode, slow_age, last_mid, link, acks, expired, offered, accepted, delivered, refused,
             unreleased, losses>>

ToSend(large, latency) ==
    [qos |-> 1, large |-> large, latency |-> latency, oversize |-> FALSE, expires |-> FALSE]

Limited == INSTANCE OutgoingMessages WITH
    InflightMax <- 2, QueueMax <- 2, QueueQos0 <- FALSE, StoreTimeout <- 1, SlowLimit <- 1, MaxMid <- 6,
    PublishKinds <- {ToSend(FALSE, FALSE)}, RetainedKinds <- {}, ClientRefuses <- FALSE, MaxMsgs <- 5,
    MaxBreaks <- 2, sock <- link, in_packets <- acks, breaks <- losses
Unlimited == INSTANCE OutgoingMessages WITH
    InflightMax <- 0, QueueMax <- 2, QueueQos0 <- FALSE, StoreTimeout <- 1, SlowLimit <- 1, MaxMid <- 6,
    PublishKinds <- {ToSend(FALSE, FALSE), ToSend(TRUE, FALSE), ToSend(FALSE, TRUE)}, RetainedKinds <- {},
    ClientRefuses <- FALSE, MaxMsgs <- 5, MaxBreaks <- 1, sock <- link, in_packets <- acks, breaks <- losses

MCInit ==
    /\ Init
    /\ \/ use \in {"incoming", "limited"} /\ Limited!Init
       \/ use = "unlimited" /\ Unlimited!Init

MCNext ==
    /\ UNCHANGED use
    /\ \/ use = "incoming" /\ Next /\ UNCHANGED outVars
       \/ use = "limited" /\ Limited!Next /\ UNCHANGED vars
       \/ use = "unlimited" /\ Unlimited!Next /\ offered' <= 3 /\ UNCHANGED vars

(* The fairness of both modules; in the uses of one nothing of the other   *)
(* can happen, except that its clock would tick.                           *)
Either(A, B) == (use = "limited" /\ A) \/ (use = "unlimited" /\ B)
OutFairness ==
    /\ WF_outVars(Either(Limited!ClientReceive, Unlimited!ClientReceive))
    /\ WF_outVars(\E v \in {"normal", "slow"} : Either(Limited!HandlePuback(v), Unlimited!HandlePuback(v)))
    /\ WF_outVars(Either(Limited!Disconnect, Unlimited!Disconnect))
    /\ WF_outVars(Either(Limited!Tick, Unlimited!Tick))
    /\ []<>(link = "up")

MCSpec == MCInit /\ [][MCNext]_<<use, vars, outVars>> /\ Fairness /\ OutFairness

-----------------------------------------------------------------------------
(* With QoS 1 only and no policy, messages are first transmitted in the    *)
(* order of their publication (db__message_write_inflight_out_latest).     *)
InOrder == use = "limited" => Limited!InOrder

(* A small message that was accepted eventually reaches the subscriber:    *)
(* all of them in order of QoS 1, and with the policy active the ones that *)
(* it does not hold back (db__message_write_inflight_out_latest).          *)
AllDelivered == Limited!SmallEventuallyDelivered
=============================================================================
