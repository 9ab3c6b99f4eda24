----------------------------- MODULE MCPackets -----------------------------
(* Five connections, a client's packets to the broker in versions 5, 3.1.1 *)
(* and 3.1 and the broker's to a client in versions 5 and 3.1.1; one packet*)
(* for every short list of properties; and the UTF-8 validator.            *)
EXTENDS Packets

VARIABLE text

Text(n) == [i \in 1..n |-> 96 + i]
UserProperty(n, v) == UserProp(Text(n), Text(v))

Publish(qos, topic, props, expiry, size) ==
    [type |-> "PUBLISH", dup |-> FALSE, qos |-> qos, retain |-> qos = 1, topic |-> topic,
     mid |-> 300, props |-> props, expiry |-> expiry, payload |-> [i \in 1..size |-> 200]]
Ack(type, reason, props) == [type |-> type, mid |-> 300, reason |-> reason, props |-> props]

Connect(threshold, will, name, word, props) ==
    [type |-> "CONNECT", clean |-> TRUE, keepalive |-> 60, id |-> Text(1), will |-> will,
     username |-> name, password |-> word, threshold |-> threshold, props |-> props]
Will(props) == <<[qos |-> 1, retain |-> TRUE, topic |-> Text(2), payload |-> <<0, 9>>, props |-> props]>>

ToBroker == {
    Connect(70000, Will(<<NumberProp(24, 5), UserProperty(1, 0)>>), <<Text(1)>>, <<>>, <<NumberProp(17, 300)>>),
    Publish(0, Text(1), <<NumberProp(35, 7)>>, 0, 2),
    Publish(1, Text(2), <<NumberProp(35, 7), UserProperty(2, 1)>>, 9, 0),
    Publish(2, <<>>, <<NumberProp(35, 7)>>, 0, 130),
    [type |-> "SUBSCRIBE", mid |-> 1, topics |-> <<Text(1), Text(2)>>, options |-> 36,
     props |-> <<NumberProp(11, 200)>>],
    Ack("PUBREC", 16, <<TextProp(31, Text(2))>>)}

ToClient == {
    [type |-> "CONNACK", ack |-> 1, reason |-> 0, props |-> <<TextProp(18, Text(2))>>],
    Publish(1, Text(1), <<UserProperty(1, 1), UserProperty(1, 2)>>, 0, 1),
    [type |-> "SUBACK", mid |-> 2, codes |-> <<0, 128>>, props |-> <<>>],
    [type |-> "UNSUBACK", mid |-> 2, codes |-> <<17>>, props |-> <<>>],
    [type |-> "AUTH", reason |-> 24, method |-> Text(1), data |-> <<0>>],
    [type |-> "DISCONNECT", reason |-> 142, props |-> <<>>],
    Ack("PUBACK", 0, <<>>)}

Plain == {
    [type |-> "CONNACK", ack |-> 0, reason |-> 0, props |-> <<>>],
    Publish(2, Text(1), <<>>, 0, 1),
    [type |-> "SUBACK", mid |-> 2, codes |-> <<1>>, props |-> <<>>],
    [type |-> "UNSUBACK", mid |-> 2, codes |-> <<>>, props |-> <<>>],
    Ack("PUBREL", 0, <<>>), [type |-> "PINGRESP"]}

PlainToBroker == {
    Connect(1, Will(<<>>), <<Text(1)>>, <<<<0>>>>, <<>>),
    Publish(1, Text(1), <<>>, 0, 3),
    [type |-> "UNSUBSCRIBE", mid |-> 2, topics |-> <<Text(1)>>, props |-> <<>>],
    [type |-> "SUBSCRIBE", mid |-> 2, topics |-> <<Text(1)>>, options |-> 2, props |-> <<>>],
    Ack("PUBCOMP", 0, <<>>), [type |-> "PINGREQ"],
    [type |-> "DISCONNECT", reason |-> 0, props |-> <<>>]}

SomeProps == {NumberProp(1, 1), NumberProp(2, 16777216), NumberProp(11, 127), NumberProp(11, 16384), NumberProp(35, 256),
              TextProp(3, <<>>), TextProp(8, Text(3)), TextProp(9, <<0, 255>>),
              UserProperty(0, 0), UserProperty(3, 125)}

OnePublish == {Connect(0, <<>>, <<>>, <<>>, <<>>)}
    \cup {Publish(0, Text(1), ps, 0, 0) :
            ps \in {q \in BoundedSeq(SomeProps, 2) : mosquitto_property_check_all("PUBLISH", q)}}

Link(version, broker, samples, chunks, peer_max, max_sent) ==
    [version |-> version, broker |-> broker, samples |-> samples, chunks |-> chunks, peer_max |-> peer_max,
     receive_max |-> 20, max_sent |-> max_sent]
LinkNames == {"broker5", "client5", "client4", "broker4", "broker3", "lists", "utf8"}
AllLinks == [n \in LinkNames |->
    CASE n = "broker5" -> Link(5, TRUE, ToBroker, {0, 9}, 190, 3)
      [] n = "client5" -> Link(5, FALSE, ToClient, {0, 4}, 0, 3)
      [] n = "client4" -> Link(4, FALSE, Plain, {0, 3}, 100, 3)
      [] n = "broker4" -> Link(4, TRUE, PlainToBroker, {1}, 0, 2)
      [] n = "broker3" -> Link(3, TRUE, PlainToBroker, {0, 5}, 0, 3)
      [] n = "lists"   -> Link(5, TRUE, OnePublish, {}, 190, 2)
      [] n = "utf8"    -> Link(5, TRUE, {}, {}, 0, 0)]

Validator == INSTANCE Utf8 WITH
    Bytes <- {0, 31, 65, 127, 128, 144, 159, 160, 191, 192, 194, 224, 237, 239, 240, 244}, MaxText <- 4

MCInit == Validator!Init /\ Init

MCNext ==
    \/ link # "utf8" /\ Next /\ UNCHANGED text
    \/ link = "utf8" /\ Validator!Next /\ UNCHANGED vars

MCSpec == MCInit /\ [][MCNext]_<<vars, text>>

(* mosquitto_validate_utf8() admits exactly the encodings it is meant to   *)
(* admit (Utf8Exact of module Utf8).                                       *)
Utf8Exact == Validator!Utf8Exact
=============================================================================
