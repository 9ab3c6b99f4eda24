----------------------------- MODULE MCClients -----------------------------
(* The two clients of a broker in this code, chosen in the initial state:  *)
(* an application with the client library, in the three uses of            *)
(* MCClientLibrary (whose constants the configuration file gives), and a   *)
(* broker's bridge in some configurations.                                 *)
EXTENDS MCClientLibrary

VARIABLES part, bconf, b, up, faults

bridgeVars == <<bconf, b, up, faults>>

Data == INSTANCE MCBridge WITH Confs <- {}, PrimaryWait <- 0, MaxFaults <- 0, conf <- bconf, s <- b
Bridge == INSTANCE MCBridge WITH
    Confs <- Data!SomeConfs, PrimaryWait <- 2, MaxFaults <- 2, conf <- bconf, s <- b

PartInit ==
    /\ MCInit /\ Bridge!Init
    /\ \/ part = "library" /\ bconf = Data!Usual /\ up = {0}
       \/ part = "bridge" /\ use = "publish"

PartNext ==
    /\ UNCHANGED part
    /\ \/ part = "library" /\ MCNext /\ UNCHANGED bridgeVars
       \/ part = "bridge" /\ Bridge!Next /\ UNCHANGED <<vars, use>>

PartSpec ==
    /\ PartInit /\ [][PartNext]_<<part, use, vars, bridgeVars>>
    /\ WF_bridgeVars(part = "bridge" /\ Bridge!Work)

-----------------------------------------------------------------------------
(* A QoS 2 message is published once, and what the application is told has *)
(* been published was accepted by the broker, however connections break    *)
(* between the steps of the network thread and of the application's.       *)
PublishedAsTold == PublishedOnce /\ ConfirmedIsAccepted

(* While the bridge is connected the retained status message on the local  *)
(* broker says so, whatever wills of earlier connections were published    *)
(* meanwhile (bridge__on_connect, context__send_will).                     *)
ConnectedIsTold == Bridge!ConnectedIsTold

(* A socket of the bridge with something to write, or whose connection is  *)
(* being made, is watched for output (mux_epoll__add_out).                 *)
Watched == Bridge!Watched

(* A remote broker that fails is not hammered with attempts to connect     *)
(* (bridge_check, bridge__backoff_step).                                   *)
RetriesPaced == [][Bridge!PacedRetry]_bridgeVars

(* As long as some address answers, an automatic bridge is connected again *)
(* and again (bridge_check, handle__connack).                              *)
Reconnects ==
    part = "bridge" /\ bconf.start = "automatic" /\ [](up # {}) => []<>Bridge!Connected
=============================================================================
