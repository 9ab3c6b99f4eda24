-------------------------- MODULE OutgoingMessages --------------------------
(***************************************************************************)
(* The outgoing message path of one subscriber with a persistent session:  *)
(* its lists of messages with the send quota (module OutgoingLists), the   *)
(* transfer mode, and every broker handler that changes them.              *)
(*                                                                         *)
(* The broker runs one event loop thread, so each handler is one step.  A  *)
(* handler is written as a composition of the db__ functions it calls.     *)
(* The subscriber and the two directions of its TCP connection are here    *)
(* as far as the broker can observe them.                                  *)
(***************************************************************************)
EXTENDS OutgoingLists

VARIABLES
    msgs_out,     \* a MsgData record
    mode,         \* context->mode
    slow_age,     \* now - slow_mode_time, saturated just past SlowLimit
    last_mid,     \* context->last_mid
    sock,         \* "up", "broken" (peer gone, not noticed yet), "closed"
    in_packets,   \* packets on their way from the client to the broker
    offered,      \* number of messages offered so far (names them)
    accepted,     \* messages db__message_insert put on a list
    delivered,    \* how often each message reached the client application
    refused,      \* messages the client refused by a failing PUBREC
    unreleased,   \* client: QoS 2 mids received and not yet released
    breaks        \* connection losses so far

modeVars == <<mode, slow_age>>
linkVars == <<sock, in_packets>>
offerVars == <<last_mid, offered, accepted>>
clientVars == <<delivered, refused, unreleased>>
vars == <<msgs_out, modeVars, linkVars, offerVars, clientVars, expired, breaks>>

-----------------------------------------------------------------------------
(* What every insertion does outside msgs_out                              *)

\* The mode after the overtime test that every insertion makes.
ModeAtInsert == IF slow_age > SlowLimit THEN "normal" ELSE mode

mosquitto__mid_generate == (last_mid % MaxMid) + 1

\* The message another client's publication becomes on this subscriber's lists.
NewMsg(kind) ==
    [id |-> offered + 1,
     mid |-> IF kind.qos > 0 THEN mosquitto__mid_generate ELSE 0,
     kind |-> kind, state |-> "queued", dup |-> FALSE, age |-> 0]

\* What every insertion does outside msgs_out; the mode test is made only for a
\* connected client.
Offer(m, place) ==
    /\ offered < MaxMsgs
    /\ offered' = offered + 1
    /\ last_mid' = IF m.kind.qos > 0 THEN m.mid ELSE last_mid
    /\ mode' = IF sock = "closed" THEN mode ELSE ModeAtInsert
    /\ accepted' = IF place = "dropped" THEN accepted
                   ELSE accepted \cup {[id |-> m.id, kind |-> m.kind]}
    /\ UNCHANGED <<slow_age, expired, breaks, clientVars>>

-----------------------------------------------------------------------------
(* Broker handlers                                                         *)

\* do_disconnect: the socket is closed, its packets are lost, the lists stay.
Close(d) ==
    /\ msgs_out' = [d EXCEPT !.out = <<>>]
    /\ sock' = "closed"
    /\ in_packets' = <<>>

\* A handler that returns without an error leaves the connection as it is.
Leave(d) ==
    /\ msgs_out' = d
    /\ UNCHANGED <<linkVars>>

\* subs__send: another client publishes to a topic this client subscribes to.
Publish(kind, full) ==
    LET m     == NewMsg(kind)
        place == Place(msgs_out, m, ModeAtInsert, sock, full)
    IN  /\ Offer(m, place)
        /\ Leave(IF place = "dropped" THEN msgs_out
                 ELSE Update(Enlist(msgs_out, m, place), ModeAtInsert, sock))

\* The end of handle__subscribe: the lists are written out unless a packet still
\* waits for the socket (blocked).  On a broken socket the SUBACK fails.
FinishSubscribe(d, blocked) ==
    \/ sock = "up" /\ blocked /\ Leave(d)
    \/ /\ sock = "up" /\ ~blocked
       /\ Leave(db__message_write_inflight_out_latest(
                  db__message_write_queued_out(d), sock))
    \/ sock = "broken" /\ Close(d)

\* handle__subscribe when a retained message matches: retain__process inserts
\* it without update.
SubscribeRetained(kind, full, blocked) ==
    LET m     == NewMsg(kind)
        place == Place(msgs_out, m, ModeAtInsert, sock, full)
    IN  /\ Offer(m, place)
        /\ FinishSubscribe(Enlist(msgs_out, m, place), blocked)

\* handle__subscribe when no retained message matches.
Subscribe(blocked) ==
    /\ FinishSubscribe(msgs_out, blocked)
    /\ UNCHANGED <<expired, breaks, modeVars, offerVars, clientVars>>

\* handle__unsubscribe from the topic "latency".
UnsubscribeLatency ==
    /\ sock # "closed"
    /\ mode' = "normal"
    /\ UNCHANGED <<msgs_out, slow_age, expired, breaks, linkVars, offerVars, clientVars>>

db__message_delete_outgoing(d, mid, expect_state, qos) ==
    IF DeleteRefused(d, mid, expect_state, qos) THEN Close(d)
    ELSE \E e \in {DeleteAndDequeue(d, mid)} :
           IF LatestFails(e, sock)
           THEN Close(db__message_write_inflight_out_latest(e, sock))
           ELSE /\ msgs_out' = db__message_write_inflight_out_latest(e, sock)
                /\ in_packets' = Tail(in_packets)
                /\ sock' = sock

\* A packet of this type is next in the broker's receive buffer.
Receives(type) ==
    sock # "closed" /\ in_packets # <<>> /\ Head(in_packets).type = type

\* handle__pubackcomp for PUBACK.  When a latency probe is out, verdict is the
\* mode its round trip time selects (the module AdaptiveMode), and storage is
\* written out in that mode before the message is acknowledged.
HandlePuback(verdict) ==
    LET d       == util__increment_send_quota(msgs_out)
        written == [db__message_write_storage_out(d, verdict)
                      EXCEPT !.probing = FALSE]
    IN  /\ Receives("PUBACK")
        /\ IF msgs_out.probing
           THEN /\ mode' = verdict
                /\ slow_age' = IF verdict = "normal" THEN SlowLimit + 1
                               ELSE IF mode = "normal" THEN 0 ELSE slow_age
           ELSE verdict = mode /\ UNCHANGED <<modeVars>>
        /\ \E e \in {IF msgs_out.probing THEN written ELSE d} :
             db__message_delete_outgoing(e, Head(in_packets).mid,
                                         "wait_for_pubcomp", 1)
        /\ UNCHANGED <<expired, breaks, offerVars, clientVars>>

\* handle__pubackcomp for PUBCOMP.
HandlePubcomp ==
    /\ Receives("PUBCOMP")
    /\ db__message_delete_outgoing(util__increment_send_quota(msgs_out),
                                   Head(in_packets).mid, "wait_for_pubcomp", 2)
    /\ UNCHANGED <<expired, breaks, modeVars, offerVars, clientVars>>

\* handle__pubrec with a success code: db__message_update_outgoing, then a PUBREL
\* even when the mid is not found.
HandlePubrec ==
    LET mid     == Head(in_packets).mid
        i       == Find(msgs_out.inflight, mid)
        updated == IF i = 0 THEN msgs_out
                   ELSE [msgs_out EXCEPT
                           !.inflight[i].state = "wait_for_pubcomp"]
        pubrel  == [type |-> "PUBREL", id |-> Head(in_packets).id, mid |-> mid,
                    qos |-> 2, dup |-> FALSE]
    IN  /\ Receives("PUBREC")
        /\ IF i # 0 /\ msgs_out.inflight[i].kind.qos # 2 THEN Close(msgs_out)
           ELSE IF sock = "broken" THEN Close(updated)
           ELSE /\ msgs_out' = [updated EXCEPT !.out = Append(@, pubrel)]
                /\ in_packets' = Tail(in_packets)
                /\ sock' = sock
        /\ UNCHANGED <<expired, breaks, modeVars, offerVars, clientVars>>

\* handle__pubrec with a failure code.
HandlePubrecFail ==
    /\ Receives("PUBREC_FAIL")
    /\ db__message_delete_outgoing(msgs_out, Head(in_packets).mid,
                                   "wait_for_pubrec", 2)
    /\ UNCHANGED <<expired, breaks, modeVars, offerVars, clientVars>>

-----------------------------------------------------------------------------
(* Connection loss and resumption                                          *)

\* The connection is lost: packets already received by the broker can still be
\* handled, sending fails.
Break ==
    /\ sock = "up"
    /\ breaks < MaxBreaks
    /\ sock' = "broken"
    /\ breaks' = breaks + 1
    /\ UNCHANGED <<msgs_out, in_packets, expired, modeVars, offerVars, clientVars>>

\* The event loop notices: do_disconnect.
Disconnect ==
    /\ sock = "broken"
    /\ Close(msgs_out)
    /\ UNCHANGED <<expired, breaks, modeVars, offerVars, clientVars>>

\* connect__on_authorised for a client that resumes its session: a session with
\* messages is taken over and reset, then the lists are written out.
Reconnect(inbound) ==
    LET old   == [msgs_out EXCEPT !.out = <<>>, !.probing = FALSE]
        taken == IF HasMessages(old, inbound)
                 THEN db__message_reconnect_reset_outgoing(old)
                 ELSE FreshMsgData
    IN  /\ sock # "up"
        /\ sock' = "up"
        /\ in_packets' = <<>>
        /\ msgs_out' = db__message_write_inflight_out_all(
                         db__message_write_queued_out(taken), "up")
        /\ mode' = "normal"
        /\ slow_age' = SlowLimit + 1
        /\ UNCHANGED <<expired, breaks, offerVars, clientVars>>

-----------------------------------------------------------------------------
(* The subscriber (external) and time                                      *)

Answer(type, p) ==
    in_packets' = Append(in_packets,
                         [type |-> type, id |-> p.id, mid |-> p.mid])
Deliver(p) == delivered' = [delivered EXCEPT ![p.id] = Lesser(@ + 1, 2)]

\* The client takes the next packet and answers it as MQTT requires; a QoS 2
\* message is passed to the application when its mid is first seen.
ClientReceive ==
    LET p == Head(msgs_out.out)
        new == p.mid \notin unreleased
    IN  /\ sock = "up"
        /\ msgs_out.out # <<>>
        /\ msgs_out' = [msgs_out EXCEPT !.out = Tail(@)]
        /\ \/ /\ p.type = "PUBLISH" /\ p.qos = 0
              /\ Deliver(p)
              /\ UNCHANGED <<in_packets, refused, unreleased>>
           \/ /\ p.type = "PUBLISH" /\ p.qos = 1
              /\ Deliver(p)
              /\ Answer("PUBACK", p)
              /\ UNCHANGED <<refused, unreleased>>
           \/ /\ p.type = "PUBLISH" /\ p.qos = 2
              /\ IF new THEN Deliver(p) ELSE UNCHANGED delivered
              /\ unreleased' = unreleased \cup {p.mid}
              /\ Answer("PUBREC", p)
              /\ UNCHANGED refused
           \/ /\ p.type = "PUBLISH" /\ p.qos = 2 /\ new /\ ClientRefuses
              /\ refused' = refused \cup {p.id}
              /\ Answer("PUBREC_FAIL", p)
              /\ UNCHANGED <<delivered, unreleased>>
           \/ /\ p.type = "PUBREL"
              /\ unreleased' = unreleased \ {p.mid}
              /\ Answer("PUBCOMP", p)
              /\ UNCHANGED <<delivered, refused>>
        /\ UNCHANGED <<sock, expired, breaks, modeVars, offerVars>>

Held == Elements(msgs_out.inflight) \cup Elements(msgs_out.queued)
          \cup Elements(msgs_out.storage)

\* The expiry time of a message passes.
Expire ==
    /\ \E m \in Held : /\ m.kind.expires
                       /\ m.id \notin expired
                       /\ expired' = expired \cup {m.id}
    /\ UNCHANGED <<msgs_out, breaks, modeVars, linkVars, offerVars, clientVars>>

\* The clock advances by one unit.
Tick ==
    /\ msgs_out' = [msgs_out EXCEPT !.storage = [i \in DOMAIN @ |-> Older(@[i])]]
    /\ slow_age' = Lesser(slow_age + 1, SlowLimit + 1)
    /\ UNCHANGED <<mode, expired, breaks, linkVars, offerVars, clientVars>>

-----------------------------------------------------------------------------
Init ==
    /\ msgs_out = FreshMsgData
    /\ mode = "normal"
    /\ slow_age = SlowLimit + 1
    /\ last_mid = 0
    /\ sock = "up"
    /\ in_packets = <<>>
    /\ expired = {}
    /\ offered = 0
    /\ accepted = {}
    /\ delivered = [i \in 1..MaxMsgs |-> 0]
    /\ refused = {}
    /\ unreleased = {}
    /\ breaks = 0

Next ==
    \/ \E kind \in PublishKinds, full \in BOOLEAN : Publish(kind, full)
    \/ \E kind \in RetainedKinds, full, blocked \in BOOLEAN :
         SubscribeRetained(kind, full, blocked)
    \/ \E blocked \in BOOLEAN : Subscribe(blocked)
    \/ UnsubscribeLatency
    \/ \E verdict \in {"normal", "slow"} : HandlePuback(verdict)
    \/ HandlePubcomp
    \/ HandlePubrec
    \/ HandlePubrecFail
    \/ Break
    \/ Disconnect
    \/ \E inbound \in BOOLEAN : Reconnect(inbound)
    \/ ClientReceive
    \/ Expire
    \/ Tick

Spec == Init /\ [][Next]_vars

\* The client keeps reading and answering, it reconnects after a loss, and the
\* level-triggered event loop serves every socket that has something to read.
Fairness ==
    /\ WF_vars(ClientReceive)
    /\ WF_vars(\E verdict \in {"normal", "slow"} : HandlePuback(verdict))
    /\ WF_vars(HandlePubcomp)
    /\ WF_vars(HandlePubrec)
    /\ WF_vars(HandlePubrecFail)
    /\ WF_vars(Disconnect)
    /\ []<>(sock = "up")
    /\ WF_vars(Tick)

FairSpec == Spec /\ Fairness

-----------------------------------------------------------------------------
(* Properties                                                              *)

\* Type correctness.
TypeOK ==
    /\ msgs_out \in MsgData
    /\ mode \in {"normal", "slow"}
    /\ slow_age \in 0..(SlowLimit + 1)
    /\ last_mid \in 0..MaxMid
    /\ sock \in {"up", "broken", "closed"}
    /\ in_packets \in Seq(Ack)
    /\ expired \subseteq 1..MaxMsgs
    /\ offered \in 0..MaxMsgs
    /\ accepted \subseteq [id: 1..MaxMsgs, kind: Kinds]
    /\ delivered \in [1..MaxMsgs -> 0..2]
    /\ refused \subseteq 1..MaxMsgs
    /\ unreleased \subseteq 0..MaxMid
    /\ breaks \in 0..MaxBreaks

\* The storage list is ordered by age, oldest first.  The loop of
\* db__message_write_storage_out prepares the message it looks at but moves the
\* head of the list; only because of this order are the two the same message.
StorageOldestFirst ==
    \A i, j \in DOMAIN msgs_out.storage :
        i < j => msgs_out.storage[i].age >= msgs_out.storage[j].age

\* A message on the inflight list is one the write functions will send or one
\* that awaits an answer; in any other state it would stay there for ever.
InflightIsLive ==
    \A m \in Elements(msgs_out.inflight) : m.state \notin {"queued", "storage"}

\* On a connection, the inflight messages not yet sent are the last of the list.
\* db__message_write_inflight_out_latest searches back from the tail for them and
\* would never find one that lies before a message already sent.
UnsentAreLast ==
    sock # "closed" =>
        \A i, j \in DOMAIN msgs_out.inflight :
            i < j /\ msgs_out.inflight[i].state \in PublishStates
              => msgs_out.inflight[j].state \in PublishStates

\* Exactly once: over any number of connections the client application sees a
\* QoS 2 message at most once.
ExactlyOnce ==
    \A a \in accepted : a.kind.qos = 2 => delivered[a.id] <= 1

Excused(a) == a.kind.oversize \/ a.id \in expired \cup refused

\* No silent loss: a QoS 1 or 2 message that the broker put on one of its lists
\* is still on a list, or has reached the client, or was rightly discarded.
NoSilentLoss ==
    \A a \in accepted :
        a.kind.qos = 0 \/ delivered[a.id] > 0 \/ Excused(a)
          \/ \E m \in Held : m.id = a.id

\* The broker never waits for an answer that cannot come: on a working connection
\* the packet that the client has to answer, or the answer, is under way.
WaitingIsAnswered ==
    LET Coming(m, type, answers) ==
          \/ \E p \in Elements(msgs_out.out) : p.type = type /\ p.mid = m.mid
          \/ \E a \in Elements(in_packets) : a.type \in answers /\ a.mid = m.mid
    IN  sock = "up" => \A m \in Elements(msgs_out.inflight) :
          /\ m.state = "wait_for_puback" => Coming(m, "PUBLISH", {"PUBACK"})
          /\ m.state = "wait_for_pubrec" =>
               Coming(m, "PUBLISH", {"PUBREC", "PUBREC_FAIL"})
          /\ m.state = "wait_for_pubcomp" => Coming(m, "PUBREL", {"PUBCOMP"})

\* Every unit of send quota that is missing is held by an inflight QoS 1 or 2
\* message, whose acknowledgement will give it back.
NoQuotaLeak ==
    sock # "closed" =>
        msgs_out.inflight_quota + Cardinality(Qos12(msgs_out.inflight))
          >= InflightMax

\* A connected client with queued messages has messages in flight, whose
\* acknowledgements will move the queue on.
NoStall ==
    sock = "up" /\ msgs_out.queued # <<>> => msgs_out.inflight # <<>>

\* max_queued_messages bounds the QoS 1 and 2 messages waiting in the queue.
QueueBounded ==
    QueueMax > 0 => Cardinality(Qos12(msgs_out.queued)) <= QueueMax

\* With queue_qos0_messages, the queued QoS 0 messages of an absent client count
\* against max_queued_messages too.
\* The code does not keep to this (README, Deviations).
Qos0QueueBounded ==
    QueueMax > 0 => Len(msgs_out.queued) <= QueueMax

\* max_inflight_messages bounds the QoS 1 and 2 messages being transmitted.
\* The code does not keep to this (README, Deviations).
InflightBounded ==
    InflightMax > 0 => Cardinality(Qos12(msgs_out.inflight)) <= InflightMax

\* msg_count12, on which the queue limit is decided, counts the QoS 1 and 2
\* messages on the lists.
CountExact ==
    msgs_out.msg_count12 = Cardinality(Qos12(msgs_out.inflight))
                             + Cardinality(Qos12(msgs_out.queued))
                             + Cardinality(Qos12(msgs_out.storage))

\* QoS 1 messages are first transmitted in the order of their publication.
InOrder ==
    \A m, n \in Held : m.kind.qos = 1 /\ n.kind.qos = 1
                         /\ m.id < n.id /\ n.dup => m.dup

Arrives(i) ==
    delivered[i] > 0 \/ \E a \in accepted : a.id = i /\ Excused(a)

\* A QoS 1 or 2 message that the broker accepted, and that the transmit policy
\* does not hold back, eventually reaches the client or is rightly discarded.
SmallEventuallyDelivered ==
    \A i \in 1..MaxMsgs :
        (\E a \in accepted : a.id = i /\ a.kind.qos > 0 /\ ~a.kind.large)
          ~> Arrives(i)

\* A message that outlives msg_store_timeout leaves the storage list.
\* The code does not keep to this (README, Deviations).
StorageTimesOut ==
    \A i \in 1..MaxMsgs :
        (\E m \in Elements(msgs_out.storage) :
            m.id = i /\ m.age > StoreTimeout)
          ~> ~\E m \in Elements(msgs_out.storage) : m.id = i
=============================================================================
