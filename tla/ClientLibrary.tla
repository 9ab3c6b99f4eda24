--------------------------- MODULE ClientLibrary ---------------------------
(***************************************************************************)
(* The client library (lib/) in its threaded use: the application calls    *)
(* publish, subscribe, disconnect and loop_stop from one thread while the  *)
(* network thread started by mosquitto_loop_start() runs                   *)
(* mosquitto_loop_forever(): it opens connections, reads, writes, answers, *)
(* and reconnects.  The two threads share the message lists, the packet    *)
(* queue, the socket and the state; a step is what is done under one lock. *)
(*                                                                         *)
(* The broker at the other end, which keeps the session, and the network   *)
(* are external.  Payloads, topics and properties are left out, and so are *)
(* memory exhaustion and TLS.                                              *)
(***************************************************************************)
EXTENDS Integers, Sequences, FiniteSets, SequencesExt

CONSTANTS
    Qos,            \* QoS the application publishes with
    DeliveryQos,    \* QoS the broker delivers with
    SendMax,        \* msgs_out.inflight_maximum
    ReceiveMax,     \* msgs_in.inflight_maximum; 0 before MQTT 5 (no quota)
    MaxPublish,     \* bound: publications
    MaxDeliver,     \* bound: deliveries
    MaxBreaks,      \* bound: lost connections, failed and refused connects
    MaxPings,       \* bound: keepalive periods that pass
    MaxSubscribe    \* bound: subscribe and unsubscribe calls

VARIABLES
    mosq,       \* struct mosquitto
    lp,         \* where the network thread is
    ap,         \* where the application thread is
    net,        \* the connection: is it up, and the packets in transit
    broker,     \* the broker's half of the session
    told,       \* history: on_publish calls, by message
    given,      \* history: on_message calls, by message
    missed,     \* history: messages published while a connect was under way
    used        \* bound counters

vars == <<mosq, lp, ap, net, broker, told, given, missed, used>>

-----------------------------------------------------------------------------
(* The message lists. *)

Wait(q) == IF q = 1 THEN "wait_puback" ELSE "wait_pubrec"
Pub(e) == [type |-> "PUBLISH", mid |-> e.mid, qos |-> e.qos, msg |-> e.msg]
Ack(t, i) == [type |-> t, mid |-> i]

(* In the threaded mode the packet is only queued; a byte on the socket    *)
(* pair wakes the network thread.                                          *)
packet__queue(m, p) == [m EXCEPT !.packets = Append(@, p)]

increment_send_quota(m) == IF m.quota < SendMax THEN [m EXCEPT !.quota = @ + 1] ELSE m
increment_receive_quota(m) ==
    IF m.inquota < ReceiveMax THEN [m EXCEPT !.inquota = @ + 1] ELSE m
decrement_receive_quota(m) ==
    IF m.inquota > 0 THEN [m EXCEPT !.inquota = @ - 1] ELSE m

(* Messages not yet sent go out in order while there is quota.  Without a  *)
(* socket the first one changes its state, the send fails, and that is all.*)
message__release_to_inflight(m) ==
    LET unsent == {i \in DOMAIN m.out : m.out[i].st = "invalid"}
        room   == IF m.sock THEN m.quota ELSE IF m.quota > 0 THEN 1 ELSE 0
        picked == {i \in unsent : Cardinality({j \in unsent : j <= i}) <= room}
        order  == SetToSortSeq(picked, <)
    IN  [m EXCEPT
            !.out = [i \in DOMAIN m.out |->
                        IF i \in picked THEN [m.out[i] EXCEPT !.st = Wait(m.out[i].qos)]
                        ELSE m.out[i]],
            !.packets = IF m.sock THEN @ \o [k \in DOMAIN order |-> Pub(m.out[order[k]])]
                        ELSE @,
            !.quota = IF m.sock THEN @ - Cardinality(picked) ELSE @]

(* mosquitto_publish_v5() from the lock on, and message__queue(). *)
message__queue(m, e) == message__release_to_inflight([m EXCEPT !.out = Append(@, e)])

Left(max, n) == IF n < max THEN max - n ELSE 0

(* What a message must do on the new connection. *)
Again(e) ==
    CASE e.qos = 1             -> [e EXCEPT !.st = "publish"]
      [] e.st = "wait_pubrec"  -> [e EXCEPT !.st = "publish"]
      [] e.st = "wait_pubcomp" -> [e EXCEPT !.st = "resend_pubrel"]
      [] OTHER                 -> e

\* Mutant: a message whose PUBREL was sent starts again from the PUBLISH.
ResetForgetsPubrel(m, update_quota_only) ==
    [m EXCEPT
        !.inquota = Left(ReceiveMax, Len(m.in)),
        !.quota = Left(SendMax, Len(m.out)),
        !.out = [i \in DOMAIN m.out |->
                    IF i > SendMax THEN [m.out[i] EXCEPT !.st = "invalid"]
                    ELSE IF update_quota_only THEN m.out[i]
                    ELSE [m.out[i] EXCEPT !.st = "publish"]]]

message__reconnect_reset(m, update_quota_only) ==
    [m EXCEPT
        !.inquota = Left(ReceiveMax, Len(m.in)),
        !.quota = Left(SendMax, Len(m.out)),
        !.out = [i \in DOMAIN m.out |->
                    IF i > SendMax THEN [m.out[i] EXCEPT !.st = "invalid"]
                    ELSE IF update_quota_only THEN m.out[i]
                    ELSE Again(m.out[i])]]

Resend(e) ==
    CASE e.st = "publish"                           -> <<Pub(e)>>
      [] e.st \in {"resend_pubrel", "wait_pubcomp"} -> <<Ack("PUBREL", e.mid)>>
      [] OTHER                                      -> <<>>

message__retry_check(m) ==
    [m EXCEPT !.packets = @ \o FlattenSeq([i \in DOMAIN m.out |-> Resend(m.out[i])])]

(* The first message of the list with this packet identifier, or 0. *)
FindMid(list, mid) == SelectInSeq(list, LAMBDA e : e.mid = mid)

message__out_update(m, mid, st) ==
    LET i == FindMid(m.out, mid)
    IN  IF i = 0 THEN m ELSE [m EXCEPT !.out[i].st = st]

-----------------------------------------------------------------------------
(* The application's calls. *)

NextMid(m) == IF m.mid = 65535 THEN 1 ELSE m.mid + 1

(* The history of a message published while the network thread is inside   *)
(* net__socket_connect(), when the lists have been reset already.          *)
Missed(q) == IF lp = "opening" /\ q > 0 THEN missed \cup {used.publish'} ELSE missed

mosquitto_publish(q) ==
    /\ ap = "run"
    /\ used.publish < MaxPublish
    /\ used' = [used EXCEPT !.publish = @ + 1]
    /\ \E e \in {[mid |-> NextMid(mosq), msg |-> used'.publish, qos |-> q, st |-> "invalid"]},
          m \in {[mosq EXCEPT !.mid = NextMid(mosq)]} :
        mosq' = IF q > 0 THEN message__queue(m, e)
                ELSE IF m.sock THEN packet__queue(m, Pub(e)) ELSE m
    /\ missed' = Missed(q)
    /\ told' = Append(told, [qos |-> q, n |-> 0])
    /\ UNCHANGED <<lp, ap, net, broker, given>>

(* mosquitto_subscribe_multiple() *)
mosquitto_subscribe ==
    /\ ap = "run"
    /\ mosq.sock
    /\ used.subscribe < MaxSubscribe
    /\ used' = [used EXCEPT !.subscribe = @ + 1]
    /\ mosq' = packet__queue([mosq EXCEPT !.mid = NextMid(mosq)], Ack("SUBSCRIBE", NextMid(mosq)))
    /\ UNCHANGED <<lp, ap, net, broker, told, given, missed>>

(* mosquitto_unsubscribe_multiple() *)
mosquitto_unsubscribe ==
    /\ ap = "run"
    /\ mosq.sock
    /\ used.subscribe < MaxSubscribe
    /\ used' = [used EXCEPT !.subscribe = @ + 1]
    /\ mosq' = packet__queue([mosq EXCEPT !.mid = NextMid(mosq)],
                             Ack("UNSUBSCRIBE", NextMid(mosq)))
    /\ UNCHANGED <<lp, ap, net, broker, told, given, missed>>

(* mosquitto_disconnect_v5(): the state first, then the packet. *)
mosquitto_disconnect ==
    /\ ap = "run"
    /\ mosq.state # "new"
    /\ ap' = "disconnect"
    /\ mosq' = [mosq EXCEPT !.state = "disconnected"]
    /\ UNCHANGED <<lp, net, broker, told, given, missed, used>>

send__disconnect ==
    /\ ap = "disconnect"
    /\ ap' = "disconnected"
    /\ mosq' = IF mosq.sock THEN packet__queue(mosq, [type |-> "DISCONNECT"]) ELSE mosq
    /\ UNCHANGED <<lp, net, broker, told, given, missed, used>>

(* mosquitto_loop_stop(force = false): a byte wakes the network thread,    *)
(* which is then waited for.                                               *)
mosquitto_loop_stop ==
    /\ ap = "disconnected"
    /\ ap' = "join"
    /\ UNCHANGED <<mosq, lp, net, broker, told, given, missed, used>>

(* pthread_join() returns, and the client is destroyed. *)
mosquitto_destroy ==
    /\ ap = "join"
    /\ lp = "ended"
    /\ ap' = "destroyed"
    /\ mosq' = [mosq EXCEPT !.sock = FALSE, !.out = <<>>, !.in = <<>>, !.packets = <<>>]
    /\ net' = [net EXCEPT !.up = FALSE]
    /\ UNCHANGED <<lp, broker, told, given, missed, used>>

-----------------------------------------------------------------------------
(* The network thread: connecting. *)

(* The first half of mosquitto__reconnect(). *)
StartReconnect ==
    /\ lp = "sleep"
    /\ mosq.state # "disconnected"
    /\ lp' = "opening"
    /\ mosq' = message__reconnect_reset([mosq EXCEPT !.packets = <<>>, !.ping = FALSE,
                                                     !.sock = FALSE], FALSE)
    /\ UNCHANGED <<ap, net, broker, told, given, missed, used>>

(* The state is read again after the sleep. *)
SleepEnds ==
    /\ lp = "sleep"
    /\ mosq.state = "disconnected"
    /\ lp' = "ended"
    /\ UNCHANGED <<mosq, ap, net, broker, told, given, missed, used>>

net__socket_connect ==
    /\ lp = "opening"
    /\ \/ /\ lp' = "opened"
          /\ mosq' = [mosq EXCEPT !.sock = TRUE]
          /\ net' = [up |-> TRUE, wire |-> <<>>, back |-> <<>>]
          /\ broker' = [broker EXCEPT !.greeted = FALSE]
          /\ UNCHANGED used
       \/ /\ used.breaks < MaxBreaks
          /\ used' = [used EXCEPT !.breaks = @ + 1]
          /\ lp' = "sleep"
          /\ mosq' = [mosq EXCEPT !.state = "connect_pending"]
          /\ UNCHANGED <<net, broker>>
    /\ UNCHANGED <<ap, told, given, missed>>

(* The state is set whatever it has become meanwhile. *)
send__connect ==
    /\ lp = "opened"
    /\ lp' = "loop"
    /\ mosq' = packet__queue([mosq EXCEPT !.state = "connected"], [type |-> "CONNECT"])
    /\ UNCHANGED <<ap, net, broker, told, given, missed, used>>

-----------------------------------------------------------------------------
(* The network thread: mosquitto_loop(). *)

Fatal(rc) == rc = "PROTOCOL"

(* mosquitto__loop_rc_handle(): the socket is closed and the application   *)
(* told.  A fatal error ends mosquitto_loop_forever(), unless a disconnect *)
(* was asked for.                                                          *)
mosquitto__loop_rc_handle(m, rc) ==
    /\ mosq' = [m EXCEPT !.sock = FALSE]
    /\ net' = [net EXCEPT !.up = FALSE, !.back = <<>>]
    /\ lp' = IF Fatal(rc) /\ m.state # "disconnected" THEN "ended" ELSE "loop"

(* Without a socket mosquitto_loop() returns at once. *)
NoConnection ==
    /\ lp = "loop"
    /\ ~mosq.sock
    /\ lp' = IF mosq.state = "disconnected" THEN "ended" ELSE "sleep"
    /\ UNCHANGED <<mosq, ap, net, broker, told, given, missed, used>>

Lost ==
    /\ lp = "loop"
    /\ mosq.sock
    /\ ~net.up
    /\ net.back = <<>>
    /\ mosquitto__loop_rc_handle(mosq, "CONN_LOST")
    /\ UNCHANGED <<ap, broker, told, given, missed, used>>

(* do_client_disconnect() *)
Disconnected(m) == [m EXCEPT !.state = "disconnected", !.sock = FALSE]

(* packet__write(), for one packet.  on_publish reports a QoS 0 message. *)
packet__write ==
    /\ lp = "loop"
    /\ mosq.sock
    /\ mosq.packets # <<>>
    /\ \E p \in {Head(mosq.packets)}, m \in {[mosq EXCEPT !.packets = Tail(@)]} :
        /\ mosq' = IF p.type = "DISCONNECT" THEN Disconnected(m) ELSE m
        /\ net' = [net EXCEPT !.wire = IF net.up THEN Append(@, p) ELSE @,
                              !.up = @ /\ p.type # "DISCONNECT",
                              !.back = IF p.type = "DISCONNECT" THEN <<>> ELSE @]
        /\ told' = IF p.type = "PUBLISH" /\ p.qos = 0 THEN [told EXCEPT ![p.msg].n = @ + 1]
                   ELSE told
    /\ UNCHANGED <<lp, ap, broker, given, missed, used>>

(* mosquitto__check_keepalive(), when the period has passed. *)
mosquitto__check_keepalive ==
    /\ lp = "loop"
    /\ mosq.sock
    /\ used.pings < MaxPings
    /\ used' = [used EXCEPT !.pings = @ + 1]
    /\ IF mosq.state = "active" /\ ~mosq.ping
       THEN /\ mosq' = packet__queue([mosq EXCEPT !.ping = TRUE], [type |-> "PINGREQ"])
            /\ UNCHANGED <<lp, net>>
       ELSE mosquitto__loop_rc_handle(mosq, "KEEPALIVE")
    /\ UNCHANGED <<ap, broker, told, given, missed>>

-----------------------------------------------------------------------------
(* The network thread: handle__packet(). *)

(* The packet handled, and the connection without it. *)
Arrived(type) == lp = "loop" /\ mosq.sock /\ net.back # <<>> /\ Head(net.back).type = type
Taken == net' = [net EXCEPT !.back = Tail(@)]

(* A handler that needs an active client finds it is not. *)
Inactive ==
    /\ lp = "loop" /\ mosq.sock /\ net.back # <<>>
    /\ Head(net.back).type \notin {"CONNACK", "REFUSED"}
    /\ mosq.state # "active"
    /\ mosquitto__loop_rc_handle(mosq, "PROTOCOL")
    /\ UNCHANGED <<ap, broker, told, given, missed, used>>

\* Mutant: nothing is sent again.
ConnackOnly ==
    /\ Arrived("CONNACK")
    /\ Taken
    /\ mosq' = [message__reconnect_reset(mosq, TRUE) EXCEPT !.state = "active"]
    /\ UNCHANGED <<lp, ap, broker, told, given, missed, used>>

(* The state becomes active whatever it was: only "disconnecting", which   *)
(* the library never sets, is kept.                                        *)
handle__connack ==
    /\ Arrived("CONNACK")
    /\ Taken
    /\ mosq' = message__retry_check([message__reconnect_reset(mosq, TRUE)
                                        EXCEPT !.state = "active"])
    /\ UNCHANGED <<lp, ap, broker, told, given, missed, used>>

(* A CONNACK with a refusal of MQTT 3. *)
Refused ==
    /\ Arrived("REFUSED")
    /\ mosquitto__loop_rc_handle(mosq, "CONN_REFUSED")
    /\ UNCHANGED <<ap, broker, told, given, missed, used>>

(* handle__pubackcomp(): the quota first ... *)
handle__pubackcomp ==
    /\ Arrived("PUBACK") \/ Arrived("PUBCOMP")
    /\ mosq.state = "active"
    /\ Taken
    /\ lp' = "acking"
    /\ mosq' = [increment_send_quota(mosq) EXCEPT !.ack = <<Head(net.back)>>]
    /\ UNCHANGED <<ap, broker, told, given, missed, used>>

(* ... then, the locks having been given up, the list and the callback. *)
message__delete ==
    /\ lp = "acking"
    /\ \E m \in {[mosq EXCEPT !.ack = <<>>]}, p \in {mosq.ack[1]},
          i \in {FindMid(mosq.out, mosq.ack[1].mid)} :
        IF i # 0 /\ m.out[i].qos # (IF p.type = "PUBACK" THEN 1 ELSE 2)
        THEN mosquitto__loop_rc_handle(m, "PROTOCOL") /\ UNCHANGED told
        ELSE /\ told' = IF i = 0 THEN told ELSE [told EXCEPT ![m.out[i].msg].n = @ + 1]
             /\ mosq' = message__release_to_inflight(
                            IF i = 0 THEN m ELSE [m EXCEPT !.out = RemoveAt(@, i)])
             /\ lp' = "loop"
             /\ UNCHANGED net
    /\ UNCHANGED <<ap, broker, given, missed, used>>

(* An unknown packet identifier is answered all the same. *)
handle__pubrec ==
    /\ Arrived("PUBREC")
    /\ mosq.state = "active"
    /\ \E mid \in {Head(net.back).mid} :
        IF \E e \in Range(mosq.out) : e.mid = mid /\ e.qos # 2
        THEN mosquitto__loop_rc_handle(mosq, "PROTOCOL")
        ELSE /\ Taken
             /\ mosq' = packet__queue(message__out_update(mosq, mid, "wait_pubcomp"),
                                      Ack("PUBREL", mid))
             /\ UNCHANGED lp
    /\ UNCHANGED <<ap, broker, told, given, missed, used>>

Give(d) == given' = [given EXCEPT ![d].n = @ + 1]

\* Mutant: a QoS 2 message is answered and not kept.
PublishForgets ==
    /\ Arrived("PUBLISH")
    /\ mosq.state = "active"
    /\ Taken
    /\ \E p \in {Head(net.back)} :
        /\ mosq' = IF p.qos = 0 THEN mosq
                   ELSE packet__queue(mosq, Ack(IF p.qos = 1 THEN "PUBACK" ELSE "PUBREC", p.mid))
        /\ IF p.qos = 2 THEN UNCHANGED given ELSE Give(p.msg)
    /\ UNCHANGED <<lp, ap, broker, told, missed, used>>

(* QoS 2 goes to the list, which is not searched first. *)
handle__publish ==
    /\ Arrived("PUBLISH")
    /\ mosq.state = "active"
    /\ \E p \in {Head(net.back)} :
        IF ReceiveMax > 0 /\ p.qos > 0 /\ mosq.inquota = 0
        THEN mosquitto__loop_rc_handle(mosq, "PROTOCOL") /\ UNCHANGED given
        ELSE /\ Taken
             /\ CASE p.qos = 0 -> mosq' = mosq /\ Give(p.msg)
                  [] p.qos = 1 ->
                      /\ mosq' = packet__queue(increment_receive_quota(
                                                 decrement_receive_quota(mosq)),
                                               Ack("PUBACK", p.mid))
                      /\ Give(p.msg)
                  [] p.qos = 2 ->
                      /\ mosq' = packet__queue(
                                    [decrement_receive_quota(mosq) EXCEPT
                                        !.in = Append(@, [mid |-> p.mid, msg |-> p.msg])],
                                    Ack("PUBREC", p.mid))
                      /\ UNCHANGED given
             /\ UNCHANGED lp
    /\ UNCHANGED <<ap, broker, told, missed, used>>

(* Only a message that was on the list is passed on. *)
handle__pubrel ==
    /\ Arrived("PUBREL")
    /\ mosq.state = "active"
    /\ Taken
    /\ \E i \in {FindMid(mosq.in, Head(net.back).mid)} :
        /\ mosq' = packet__queue([increment_receive_quota(mosq) EXCEPT
                                    !.in = IF i = 0 THEN @ ELSE RemoveAt(@, i)],
                                 Ack("PUBCOMP", Head(net.back).mid))
        /\ IF i = 0 THEN UNCHANGED given ELSE Give(mosq.in[i].msg)
    /\ UNCHANGED <<lp, ap, broker, told, missed, used>>

handle__pingresp ==
    /\ Arrived("PINGRESP")
    /\ mosq.state = "active"
    /\ Taken
    /\ mosq' = [mosq EXCEPT !.ping = FALSE]
    /\ UNCHANGED <<lp, ap, broker, told, given, missed, used>>

(* handle__suback(), handle__unsuback(): a callback. *)
handle__suback ==
    /\ Arrived("SUBACK") \/ Arrived("UNSUBACK")
    /\ mosq.state = "active"
    /\ Taken
    /\ UNCHANGED <<mosq, lp, ap, broker, told, given, missed, used>>

-----------------------------------------------------------------------------
(* The broker, which keeps the session across connections, and the network.*)

Answer(b, ps) ==
    /\ broker' = b
    /\ net' = [net EXCEPT !.wire = Tail(@), !.back = IF net.up THEN @ \o ps ELSE @]

Redeliver(e) == IF e.st = "sent" THEN Pub(e) ELSE Ack("PUBREL", e.mid)

(* A packet before the CONNECT makes the broker close the connection; so   *)
(* does a CONNECT it refuses.                                              *)
BrokerReads ==
    /\ net.wire # <<>>
    /\ \E p \in {Head(net.wire)} :
        IF ~broker.greeted
        THEN \/ /\ p.type = "CONNECT"
                /\ Answer([broker EXCEPT !.greeted = TRUE],
                          <<[type |-> "CONNACK"]>> \o
                          [i \in DOMAIN broker.out |-> Redeliver(broker.out[i])])
                /\ UNCHANGED used
             \/ /\ p.type = "CONNECT"
                /\ used.breaks < MaxBreaks
                /\ used' = [used EXCEPT !.breaks = @ + 1]
                /\ net' = [up |-> FALSE, wire |-> <<>>, back |-> <<[type |-> "REFUSED"]>>]
                /\ UNCHANGED broker
             \/ /\ p.type # "CONNECT"
                /\ net' = [up |-> FALSE, wire |-> <<>>, back |-> <<>>]
                /\ UNCHANGED <<broker, used>>
        ELSE /\ CASE p.type = "PUBLISH" /\ p.qos = 0 -> Answer(broker, <<>>)
                  [] p.type = "PUBLISH" /\ p.qos = 1 ->
                        Answer([broker EXCEPT !.accepted[p.msg] = @ + 1], <<Ack("PUBACK", p.mid)>>)
                  [] p.type = "PUBLISH" /\ p.qos = 2 ->
                        Answer(IF p.mid \in broker.received THEN broker
                               ELSE [broker EXCEPT !.received = @ \cup {p.mid},
                                                   !.accepted[p.msg] = @ + 1],
                               <<Ack("PUBREC", p.mid)>>)
                  [] p.type = "PUBREL" ->
                        Answer([broker EXCEPT !.received = @ \ {p.mid}], <<Ack("PUBCOMP", p.mid)>>)
                  [] p.type \in {"PUBACK", "PUBCOMP"} ->
                        Answer([broker EXCEPT !.out = SelectSeq(@, LAMBDA e : e.mid # p.mid)], <<>>)
                  [] p.type = "PUBREC" ->
                        Answer([broker EXCEPT !.out = [i \in DOMAIN @ |->
                                    IF @[i].mid = p.mid THEN [@[i] EXCEPT !.st = "released"]
                                    ELSE @[i]]],
                               <<Ack("PUBREL", p.mid)>>)
                  [] p.type = "PINGREQ"     -> Answer(broker, <<[type |-> "PINGRESP"]>>)
                  [] p.type = "SUBSCRIBE"   -> Answer(broker, <<Ack("SUBACK", p.mid)>>)
                  [] p.type = "UNSUBSCRIBE" -> Answer(broker, <<Ack("UNSUBACK", p.mid)>>)
                  [] p.type = "DISCONNECT"  -> Answer([broker EXCEPT !.greeted = FALSE], <<>>)
             /\ UNCHANGED used
    /\ UNCHANGED <<mosq, lp, ap, told, given, missed>>

BrokerDelivers(q) ==
    /\ used.deliver < MaxDeliver
    /\ ReceiveMax > 0 => Len(broker.out) < ReceiveMax
    /\ q = 0 => broker.greeted /\ net.up
    /\ used' = [used EXCEPT !.deliver = @ + 1]
    /\ \E e \in {[mid |-> used'.deliver, msg |-> used'.deliver,
                   qos |-> q, st |-> "sent"]} :
        /\ broker' = [broker EXCEPT !.out = IF q = 0 THEN @ ELSE Append(@, e)]
        /\ net' = IF broker.greeted /\ net.up THEN [net EXCEPT !.back = Append(@, Pub(e))]
                  ELSE net
    /\ given' = Append(given, [qos |-> q, n |-> 0])
    /\ UNCHANGED <<mosq, lp, ap, told, missed>>

(* The connection breaks: what is in transit is lost. *)
Break ==
    /\ net.up
    /\ used.breaks < MaxBreaks
    /\ used' = [used EXCEPT !.breaks = @ + 1]
    /\ net' = [up |-> FALSE, wire |-> <<>>, back |-> <<>>]
    /\ UNCHANGED <<mosq, lp, ap, broker, told, given, missed>>

-----------------------------------------------------------------------------

(* mosquitto_new(), mosquitto_connect_async() and mosquitto_loop_start():  *)
(* the network thread is about to connect.                                 *)
Init ==
    /\ mosq = [state |-> "connect_pending", sock |-> FALSE, out |-> <<>>, quota |-> SendMax,
               in |-> <<>>, inquota |-> ReceiveMax, packets |-> <<>>, ping |-> FALSE,
               ack |-> <<>>, mid |-> 0]
    /\ lp = "sleep"
    /\ ap = "run"
    /\ net = [up |-> FALSE, wire |-> <<>>, back |-> <<>>]
    /\ broker = [greeted |-> FALSE, accepted |-> [n \in 1..MaxPublish |-> 0],
                 received |-> {}, out |-> <<>>]
    /\ told = <<>> /\ given = <<>> /\ missed = {}
    /\ used = [publish |-> 0, deliver |-> 0, breaks |-> 0, pings |-> 0, subscribe |-> 0]

Handle ==
    \/ Inactive \/ handle__connack \/ Refused \/ handle__pubackcomp \/ handle__pubrec
    \/ handle__publish \/ handle__pubrel \/ handle__pingresp \/ handle__suback

NetworkThread ==
    \/ StartReconnect \/ SleepEnds \/ net__socket_connect \/ send__connect
    \/ NoConnection \/ Lost \/ packet__write \/ Handle \/ message__delete
    \/ mosquitto__check_keepalive

Application ==
    \/ \E q \in Qos : mosquitto_publish(q)
    \/ mosquitto_subscribe \/ mosquitto_unsubscribe
    \/ mosquitto_disconnect \/ send__disconnect \/ mosquitto_loop_stop \/ mosquitto_destroy

Next ==
    \/ NetworkThread \/ Application
    \/ BrokerReads \/ Break \/ \E q \in DeliveryQos : BrokerDelivers(q)

Spec == Init /\ [][Next]_vars

(* The threads and the broker keep running; what the bounds limit and what *)
(* the application chooses to do may stop.                                 *)
FairSpec ==
    /\ Spec
    /\ WF_vars(NetworkThread) /\ WF_vars(BrokerReads)
    /\ WF_vars(send__disconnect \/ mosquitto_loop_stop \/ mosquitto_destroy)

-----------------------------------------------------------------------------

(* A QoS 2 message is accepted by the broker at most once, however many    *)
(* connections its exchange takes (message__reconnect_reset,               *)
(* message__retry_check), provided no message was published while a        *)
(* connect was under way.  Such a message is not counted against the quota *)
(* until the CONNACK, when the count may push one that has been through    *)
(* its PUBREC out of the window and back to the beginning.                 *)
PublishedOnce ==
    missed = {} => \A n \in DOMAIN told : told[n].qos = 2 => broker.accepted[n] <= 1

(* on_publish is called at most once for a message, and for QoS 1 and 2    *)
(* only after the broker has accepted it (handle__pubackcomp).             *)
ConfirmedIsAccepted ==
    \A n \in DOMAIN told :
        /\ told[n].n <= 1
        /\ told[n].qos > 0 /\ told[n].n = 1 => broker.accepted[n] >= 1

Idle == /\ lp = "loop" /\ mosq.sock /\ net.up /\ mosq.state = "active"
        /\ mosq.packets = <<>> /\ net.wire = <<>> /\ net.back = <<>>

(* When nothing is in transit on an established connection, no message of  *)
(* the application is still waiting, unless one was published while the    *)
(* connect was under way: message__reconnect_reset() had run, so such a    *)
(* message is in a state message__retry_check() passes over, and it and    *)
(* the slot it holds stay as they are until the next reconnect.            *)
NoStranded == Idle => mosq.out = <<>> \/ \E e \in Range(mosq.out) : e.msg \in missed

(* A delivery the broker has seen completed has reached on_message         *)
(* (handle__publish, handle__pubrel).                                      *)
CompletedIsGiven ==
    \A d \in DOMAIN given :
        given[d].qos > 0 /\ (\A e \in Range(broker.out) : e.msg # d) => given[d].n >= 1

(* A QoS 2 delivery reaches on_message at most once, as the comment on the *)
(* removal in handle__pubrel() has it.  The code does not keep to this     *)
(* (README, Deviations).                                                   *)
GivenOnce == \A d \in DOMAIN given : given[d].qos = 2 => given[d].n <= 1

(* mosquitto_loop_stop() returns after a mosquitto_disconnect(), as the    *)
(* documentation of mosquitto_loop_stop() has it.                          *)
LoopStops == ap = "join" ~> ap = "destroyed"
=============================================================================
