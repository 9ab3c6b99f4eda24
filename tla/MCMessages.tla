---------------------------- MODULE MCMessages ----------------------------
(* The lists of one session in five uses, chosen in the initial state: to  *)
(* a subscriber with the transmit policy inactive (the constants of the    *)
(* configuration file), with the policy on one connection and across       *)
(* connections, with messages that expire, are oversize or are refused,    *)
(* and from a publisher.                                                   *)
EXTENDS MCOutgoingMessages

VARIABLES use, msgs_in, out_packets, routed, rejected, unfinished, finished, published

inVars == <<msgs_in, out_packets, routed, rejected, unfinished, finished, published>>

Adaptive == INSTANCE OutgoingMessages WITH
    PublishKinds <- MixedKinds, MaxMsgs <- 4, MaxBreaks <- 0
Resumed == INSTANCE OutgoingMessages WITH
    InflightMax <- 1, PublishKinds <- MixedKinds \ {Small(1)}, RetainedKinds <- {Small(1), Large(1)},
    MaxMsgs <- 4, MaxBreaks <- 1
Fragile == INSTANCE OutgoingMessages WITH
    InflightMax <- 1, PublishKinds <- FragileKinds, RetainedKinds <- PlainKinds, ClientRefuses <- TRUE,
    MaxMsgs <- 3, MaxBreaks <- 1

Sent(q, denied) == [qos |-> q, large |-> FALSE, denied |-> denied]
Incoming == INSTANCE IncomingMessages WITH
    InMax <- 2, OutMax <- 2, QueueMax <- 1, Mqtt5 <- FALSE, MaySlow <- FALSE, MaxMid <- 4, Window <- 4, MaxMsgs <- 4,
    InKinds <- {Sent(0, FALSE), Sent(1, FALSE), Sent(2, FALSE), Sent(2, TRUE)}

MCInit ==
    /\ Incoming!Init
    /\ \/ use \in {"plain", "incoming"} /\ Init
       \/ use = "adaptive" /\ Adaptive!Init
       \/ use = "resumed" /\ Resumed!Init
       \/ use = "fragile" /\ Fragile!Init

MCNext ==
    /\ UNCHANGED use
    /\ \/ UNCHANGED inVars /\ \/ use = "plain" /\ Next
                              \/ use = "adaptive" /\ Adaptive!Next
                              \/ use = "resumed" /\ Resumed!Next
                              \/ use = "fragile" /\ Fragile!Next
       \/ /\ use = "incoming" /\ Incoming!Next
          /\ UNCHANGED <<msgs_out, modeVars, offerVars, clientVars, expired>>

MCSpec == MCInit /\ [][MCNext]_<<vars, inVars, use>>

-----------------------------------------------------------------------------
(* A message accepted for a subscriber, or acknowledged to a publisher, is *)
(* held until it is handed on or rightly discarded, and a QoS 2 message of *)
(* a publisher is taken once, by what db__message_store_find recognises.   *)
(* (With the policy active and connections lost the code does not keep to  *)
(* the first.)                                                             *)
NothingVanishes ==
    /\ use # "resumed" => NoSilentLoss
    /\ Incoming!NothingLost /\ Incoming!IdentifiersAgree /\ Incoming!RoutedOnce

(* On a working connection neither side waits for a packet that cannot     *)
(* come, whatever was lost with the connections before, and no message is  *)
(* in flight in a state in which the write functions would never send it.  *)
NobodyWaits ==
    /\ WaitingIsAnswered /\ Incoming!PublisherIsAnswered
    /\ use # "resumed" => InflightIsLive

(* msg_count12 counts the messages on the lists.  Without the policy the   *)
(* limit on queued messages that db__ready_for_queue takes from it is      *)
(* kept, send quota that is missing is held by messages in flight, and     *)
(* there are such messages whenever others are queued.                     *)
CountsExact ==
    /\ use # "resumed" => CountExact
    /\ use = "plain" => QueueBounded /\ NoQuotaLeak /\ NoStall
    /\ Incoming!CountExact
=============================================================================
