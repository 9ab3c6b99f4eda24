-------------------------- MODULE MCClientLibrary --------------------------
(* Three uses of the library, chosen in the initial state: an application  *)
(* that publishes (the constants of the configuration file), one that      *)
(* receives, and one that makes the remaining calls.                       *)
EXTENDS ClientLibrary

VARIABLE use

Receiving == INSTANCE ClientLibrary WITH
    Qos <- {}, MaxPublish <- 0, DeliveryQos <- {0, 1, 2}, MaxDeliver <- 2, ReceiveMax <- 1,
    MaxBreaks <- 2
Calling == INSTANCE ClientLibrary WITH
    Qos <- {0}, MaxPublish <- 1, DeliveryQos <- {}, MaxDeliver <- 0, MaxBreaks <- 1,
    MaxPings <- 2, MaxSubscribe <- 1

MCInit ==
    \/ use = "publish" /\ Init
    \/ use = "receive" /\ Receiving!Init
    \/ use = "call" /\ Calling!Init

MCNext ==
    /\ UNCHANGED use
    /\ \/ use = "publish" /\ Next
       \/ use = "receive" /\ Receiving!Next
       \/ use = "call" /\ Calling!Next

MCSpec == MCInit /\ [][MCNext]_<<vars, use>>
=============================================================================
