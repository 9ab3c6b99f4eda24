------------------------------ MODULE MCWire ------------------------------
(* What goes over the wire and how long it takes, in two parts chosen in   *)
(* the initial state: the latency measurement of the transmit policy (the  *)
(* constants of the configuration file), and the packets of MCPackets.     *)
EXTENDS AdaptiveMode

VARIABLES part, link, text, queue, pos, pipe, inp, aliases, sent, handled, freed

packetVars == <<link, text, queue, pos, pipe, inp, aliases, sent, handled, freed>>

Data == INSTANCE MCPackets WITH Links <- [n \in {} |-> 0]
Streams == INSTANCE MCPackets WITH Links <- Data!AllLinks

MCInit ==
    /\ Init /\ Streams!MCInit
    /\ \/ part = "mode" /\ link = "utf8"
       \/ part = "packets" /\ threshold_l = 0

MCNext ==
    /\ UNCHANGED part
    /\ \/ part = "mode" /\ Next /\ UNCHANGED packetVars
       \/ part = "packets" /\ Streams!MCNext /\ UNCHANGED vars

MCSpec == MCInit /\ [][MCNext]_<<part, vars, packetVars>>

-----------------------------------------------------------------------------
(* The lengths that the send functions compute are those of the packets    *)
(* they write, and packets arrive as they were sent, however               *)
(* packet__write() and packet__read() cut them up.                         *)
StreamsIntact == Streams!LengthExact /\ Streams!StreamIntact

(* mosquitto_validate_utf8() admits exactly the encodings it is meant to   *)
(* admit (Utf8Exact of module Utf8).                                       *)
Utf8Exact == Streams!Utf8Exact
=============================================================================
