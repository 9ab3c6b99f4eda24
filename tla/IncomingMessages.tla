-------------------------- MODULE IncomingMessages --------------------------
(***************************************************************************)
(* The incoming message path of one publisher with a persistent session:   *)
(* handle__publish and handle__pubrel, the lists of msgs_in, the receive   *)
(* quota, and what a connection loss and a session resumption do to them.  *)
(* Handing a message to its subscribers (sub__messages_queue) is counted   *)
(* in routed; what happens to it there is the module OutgoingMessages.     *)
(*                                                                         *)
(* The publisher follows the protocol: it never gives a packet identifier  *)
(* in use to a second message, and after a reconnect it sends every        *)
(* unfinished PUBLISH or PUBREL again, in order.                           *)
(***************************************************************************)
EXTENDS Integers, Sequences, FiniteSets, Subsequences

CONSTANTS
    InMax,       \* msgs_in.inflight_maximum; 0 means no limit
    OutMax,      \* msgs_out.inflight_maximum
    QueueMax,    \* config max_queued_messages; 0 means no limit
    Mqtt5,       \* does the client use MQTT 5 (reason codes)?
    MaySlow,     \* may the transmit policy put this client in slow mode?
    InKinds,       \* the messages the client publishes
    MaxMid,      \* largest packet identifier (65535 in the code)
    Window,      \* bound: unfinished messages of the client
    MaxMsgs,     \* bound: messages published
    MaxBreaks    \* bound: connection losses

\* What the code tells apart in a message: QoS, whether the payload reaches
\* threshold_s, and whether the size limit, the ACL or a plugin refuses it.
Kind == [qos: 0..2, large: BOOLEAN, denied: BOOLEAN]

ASSUME ConstantsAssumption ==
    /\ InMax \in Nat
    /\ OutMax \in Nat
    /\ InMax > 0 => OutMax > 0
    /\ QueueMax \in Nat
    /\ Mqtt5 \in BOOLEAN
    /\ MaySlow \in BOOLEAN
    /\ InKinds \subseteq Kind
    /\ MaxMid \in Nat \ {0}
    /\ Window \in Nat
    /\ MaxMsgs \in Nat
    /\ MaxBreaks \in Nat

\* A mosquitto_client_msg of direction in.  Its QoS is 2; its state is never
\* read.  id stands for the content that handle__publish compares.
Msg == [id: 1..MaxMsgs, mid: 1..MaxMid]

\* struct mosquitto_msg_data for msgs_in.
MsgData == [inflight: Seq(Msg), queued: Seq(Msg), storage: Seq(Msg),
            inflight_quota: 0..InMax, msg_count12: Int]

\* Packets from and to the client; ok is the reason code of a PUBACK or PUBREC.
Packet == [type: {"PUBLISH"}, id: 1..MaxMsgs, mid: 0..MaxMid, kind: InKinds]
            \cup [type: {"PUBREL"}, mid: 1..MaxMid]
Reply == [type: {"PUBACK", "PUBREC", "PUBCOMP"}, mid: 1..MaxMid, ok: BOOLEAN]

VARIABLES
    msgs_in,      \* a MsgData record
    sock,         \* "up", "broken" (peer gone, not noticed yet), "closed"
    in_packets,   \* packets on their way to the broker
    out_packets,  \* replies on their way to the client
    routed,       \* how often each message was handed to sub__messages_queue
    rejected,     \* messages the broker refused
    unfinished,   \* client: messages without their final acknowledgement
    finished,     \* client: messages whose final acknowledgement came
    published,    \* the kinds of the messages published so far, in order
    breaks        \* connection losses so far

linkVars == <<sock, in_packets, out_packets>>
clientVars == <<unfinished, finished, published>>
vars == <<msgs_in, linkVars, clientVars, routed, rejected, breaks>>

Elements(l) == {l[i] : i \in DOMAIN l}

-----------------------------------------------------------------------------
(* The db__ functions                                                      *)

\* The receive quota after n decrements, and after an increment.
Spend(quota, n) == Greater(quota - n, 0)
Refund(quota) == Greater(quota, Lesser(quota + 1, InMax))

db__ready_for_flight(d) == InMax = 0 \/ d.inflight_quota > 0

\* The client is connected whenever it is asked.
db__ready_for_queue(d) == QueueMax = 0 \/ d.msg_count12 - InMax < QueueMax

\* db__message_dequeue_first, n times.
Dequeue(d, n) ==
    [d EXCEPT !.inflight = @ \o TakeFirst(d.queued, n),
              !.queued = DropFirst(@, n),
              !.inflight_quota = Spend(@, n)]

SameMid(l, mid) == {i \in DOMAIN l : l[i].mid = mid}
FirstOf(S) == CHOOSE i \in S : \A j \in S : i <= j

\* Mutant: only the queue is searched.
FindQueued(d, mid) ==
    IF SameMid(d.queued, mid) # {}
    THEN {d.queued[FirstOf(SameMid(d.queued, mid))]} ELSE {}

\* db__message_store_find looks at the mids of inflight, then of queued.
db__message_store_find(d, mid) ==
    IF SameMid(d.inflight, mid) # {}
    THEN {d.inflight[FirstOf(SameMid(d.inflight, mid))]}
    ELSE IF SameMid(d.queued, mid) # {}
         THEN {d.queued[FirstOf(SameMid(d.queued, mid))]} ELSE {}

\* db__message_remove of the first inflight message with this mid, if any.
db__message_remove_incoming(d, mid) ==
    LET Same == SameMid(d.inflight, mid)
    IN  IF Same = {} THEN d
        ELSE [d EXCEPT !.inflight = Pick(@, DOMAIN @ \ {FirstOf(Same)}),
                       !.msg_count12 = @ - 1]

\* The list db__message_insert chooses for an incoming QoS 2 message.  The
\* transmit policy does not ask for the direction.
Place(d, kind, slow) ==
    CASE slow /\ kind.large -> "storage"
      [] ~(slow /\ kind.large) /\ db__ready_for_flight(d) -> "inflight"
      [] OTHER -> IF db__ready_for_queue(d) THEN "queued" ELSE "dropped"

\* No quota is taken for an incoming message.
db__message_insert(d, m, place) ==
    LET base == [d EXCEPT !.msg_count12 = @ + 1]
    IN  CASE place = "inflight" -> [base EXCEPT !.inflight = Append(@, m)]
          [] place = "queued" -> [base EXCEPT !.queued = Append(@, m)]
          [] place = "storage" -> [base EXCEPT !.storage = Append(@, m)]
          [] OTHER -> d

\* The number of messages db__message_write_queued_in moves to inflight, each with
\* a PUBREC; the first PUBREC that a broken socket refuses ends the loop.
WrittenIn(d) ==
    LET ready == IF OutMax = 0 THEN Len(d.queued)
                 ELSE Lesser(Len(d.queued), d.inflight_quota)
    IN  IF sock = "broken" THEN Lesser(ready, 1) ELSE ready

\* The number of queued messages db__message_release_incoming moves: as many as
\* the positions it has counted leave below the limit.
Released(d, counted) ==
    IF InMax = 0 THEN Len(d.queued)
    ELSE Lesser(Len(d.queued), Greater(InMax - counted, 0))

Pubrec(m) == [type |-> "PUBREC", mid |-> m.mid, ok |-> TRUE]

\* Mutant: messages leave the queue without a PUBREC.
PubrecsForgotten(d, n) == <<>>

Pubrecs(d, n) == [i \in 1..n |-> Pubrec(d.queued[i])]

-----------------------------------------------------------------------------
(* Broker handlers                                                         *)

\* A packet of this type is next in the broker's receive buffer.
Receives(type) ==
    sock # "closed" /\ in_packets # <<>> /\ Head(in_packets).type = type

\* do_disconnect
Close ==
    /\ sock' = "closed"
    /\ in_packets' = <<>>
    /\ out_packets' = <<>>

\* The handler sends these replies and returns.  On a broken socket it fails if
\* it hands on the result of one of the sends (checked).
Finish(replies, checked) ==
    IF sock = "broken" /\ checked THEN Close
    ELSE /\ in_packets' = Tail(in_packets)
         /\ out_packets' = IF sock = "broken" THEN out_packets
                           ELSE out_packets \o replies
         /\ sock' = sock

\* sub__messages_queue for the messages at these positions of the list.
Route(l, Positions) ==
    LET times(i) == Cardinality({j \in Positions : l[j].id = i})
    IN  routed' = [i \in DOMAIN routed |-> Lesser(routed[i] + times(i), 2)]

\* The label process_bad_message of handle__publish.  Only an MQTT 5 client
\* learns the reason code; its failing PUBREC gives quota back, as every PUBACK
\* does.
process_bad_message(d, p) ==
    LET gives == p.kind.qos = 1 \/ (p.kind.qos = 2 /\ Mqtt5)
        reply == [type |-> IF p.kind.qos = 1 THEN "PUBACK" ELSE "PUBREC",
                  mid |-> p.mid, ok |-> ~Mqtt5]
    IN  /\ msgs_in' = IF gives THEN [d EXCEPT !.inflight_quota = Refund(@)]
                      ELSE d
        /\ rejected' = rejected \cup {p.id}
        /\ Finish(IF p.kind.qos = 0 THEN <<>> ELSE <<reply>>, p.kind.qos > 0)
        /\ UNCHANGED routed

\* The end of handle__publish: its own reply, then db__message_write_queued_in,
\* whose result is not looked at.
WriteQueuedIn(d, reply) ==
    \E n \in {WrittenIn(d)} :
        /\ msgs_in' = Dequeue(d, n)
        /\ Finish(reply \o Pubrecs(d, n), reply # <<>>)

\* What handle__publish does with an accepted message; dup says that the message
\* was found on a list.
Accept(d, p, dup, slow) ==
    LET m      == [id |-> p.id, mid |-> p.mid]
        place  == Place(d, p.kind, slow)
        puback == [type |-> "PUBACK", mid |-> p.mid, ok |-> TRUE]
    IN  \/ /\ p.kind.qos = 0
           /\ Route(<<p>>, {1})
           /\ WriteQueuedIn(d, <<>>)
        \/ /\ p.kind.qos = 1
           /\ Route(<<p>>, {1})
           /\ WriteQueuedIn([d EXCEPT !.inflight_quota = Refund(Spend(@, 1))],
                            <<puback>>)
        \/ /\ p.kind.qos = 2 /\ ~dup
           /\ WriteQueuedIn(db__message_insert(d, m, place),
                            IF place \in {"inflight", "storage"}
                            THEN <<Pubrec(m)>> ELSE <<>>)
           /\ UNCHANGED routed
        \/ /\ p.kind.qos = 2 /\ dup
           /\ WriteQueuedIn(d, <<Pubrec(m)>>)
           /\ UNCHANGED routed

\* What handle__publish works on: the listed message with the packet identifier
\* of p, if any, whether it is the same message, and the message data, from which
\* a different one has been cleared.
Found(p) ==
    IF p.kind.qos = 0 \/ p.kind.denied THEN {}
    ELSE db__message_store_find(msgs_in, p.mid)
IsDup(p) == \E m \in Found(p) : m.id = p.id
Cleared(p) ==
    IF Found(p) # {} /\ ~IsDup(p)
    THEN db__message_remove_incoming(msgs_in, p.mid) ELSE msgs_in

\* The message is not refused, and there is room for it.
Acceptable(p) ==
    /\ ~p.kind.denied
    /\ \/ IsDup(p)
       \/ p.kind.qos = 0
       \/ db__ready_for_flight(Cleared(p))
       \/ db__ready_for_queue(Cleared(p))

\* handle__publish; slow is the mode db__message_insert finds.
HandlePublish(slow) ==
    LET p == Head(in_packets)
    IN  /\ Receives("PUBLISH")
        /\ \/ /\ Acceptable(p)
              /\ Accept(Cleared(p), p, IsDup(p), slow)
              /\ UNCHANGED rejected
           \/ ~Acceptable(p) /\ process_bad_message(Cleared(p), p)
        /\ UNCHANGED <<clientVars, breaks>>

Unreleased(d, mid) ==
    LET Same == SameMid(d.inflight, mid)
    IN  [d EXCEPT !.inflight = Pick(@, DOMAIN @ \ Same),
                  !.msg_count12 = @ - Cardinality(Same)]

db__message_release_incoming(d, mid) ==
    LET left == Unreleased(d, mid)
    IN  Dequeue(left, Released(left, Len(d.inflight)))

\* handle__pubrel: db__message_release_incoming routes and removes the inflight
\* messages with this mid and moves the queue on; a PUBCOMP is sent even when
\* there is none.
HandlePubrel ==
    /\ Receives("PUBREL")
    /\ \E mid \in {Head(in_packets).mid} :
       \E n \in {Released(msgs_in, Len(msgs_in.inflight))} :
         /\ Route(msgs_in.inflight, SameMid(msgs_in.inflight, mid))
         /\ msgs_in' = [db__message_release_incoming(msgs_in, mid)
                          EXCEPT !.inflight_quota = Refund(@)]
         /\ Finish(Append(Pubrecs(msgs_in, n),
                          [type |-> "PUBCOMP", mid |-> mid, ok |-> TRUE]), TRUE)
    /\ UNCHANGED <<clientVars, rejected, breaks>>

-----------------------------------------------------------------------------
(* Connection loss and resumption                                          *)

\* The connection is lost: packets already received by the broker can still be
\* handled, sending fails.
Break ==
    /\ sock = "up"
    /\ breaks < MaxBreaks
    /\ sock' = "broken"
    /\ breaks' = breaks + 1
    /\ UNCHANGED <<msgs_in, in_packets, out_packets, routed, rejected, clientVars>>

\* The event loop notices: do_disconnect.
Disconnect ==
    /\ sock = "broken"
    /\ Close
    /\ UNCHANGED <<msgs_in, routed, rejected, breaks, clientVars>>

\* context__init
FreshMsgData ==
    [inflight |-> <<>>, queued |-> <<>>, storage |-> <<>>,
     inflight_quota |-> InMax, msg_count12 |-> 0]

ResetCount(d) == Len(d.inflight) + Len(d.queued)

\* db__message_reconnect_reset_incoming: inflight messages take quota, and the
\* queue moves up while there is some.
db__message_reconnect_reset_incoming(d) ==
    LET quota == Spend(InMax, Len(d.inflight))
        reset == [d EXCEPT !.inflight_quota = quota,
                           !.msg_count12 = ResetCount(d)]
    IN  Dequeue(reset, IF InMax = 0 THEN Len(d.queued)
                       ELSE Lesser(Len(d.queued), quota))

\* connect__on_authorised for a client that resumes its session; outbound says
\* that msgs_out has messages.
HasMessages(d, outbound) == outbound \/ d.inflight # <<>> \/ d.queued # <<>>

\* What the client sends again.
Again(u) ==
    IF u.phase = "pubrel" THEN [type |-> "PUBREL", mid |-> u.mid]
    ELSE [type |-> "PUBLISH", id |-> u.id, mid |-> u.mid, kind |-> u.kind]

Reconnect(outbound) ==
    /\ sock # "up"
    /\ sock' = "up"
    /\ msgs_in' = IF HasMessages(msgs_in, outbound)
                  THEN db__message_reconnect_reset_incoming(msgs_in)
                  ELSE FreshMsgData
    /\ in_packets' = [i \in DOMAIN unfinished |-> Again(unfinished[i])]
    /\ out_packets' = <<>>
    /\ UNCHANGED <<routed, rejected, breaks, clientVars>>

-----------------------------------------------------------------------------
(* The publisher (external)                                                *)

\* It takes the smallest packet identifier not in use, so that identifiers are
\* used again as soon as the protocol allows.
FreeMids == 1..MaxMid \ {u.mid : u \in Elements(unfinished)}

ClientPublish(kind) ==
    LET id == Len(published) + 1
    IN  /\ sock = "up"
        /\ Len(published) < MaxMsgs
        /\ published' = Append(published, kind)
        /\ \/ /\ kind.qos = 0
              /\ in_packets' = Append(in_packets, [type |-> "PUBLISH", id |-> id,
                                                   mid |-> 0, kind |-> kind])
              /\ UNCHANGED unfinished
           \/ /\ kind.qos > 0
              /\ Len(unfinished) < Window /\ FreeMids # {}
              /\ \E u \in {[id |-> id, mid |-> FirstOf(FreeMids), kind |-> kind,
                            phase |-> "publish"]} :
                   /\ unfinished' = Append(unfinished, u)
                   /\ in_packets' = Append(in_packets, Again(u))
        /\ UNCHANGED <<msgs_in, sock, out_packets, routed, rejected, finished, breaks>>

\* The positions of the messages a reply is about.
Mine(r) ==
    {i \in DOMAIN unfinished :
        /\ unfinished[i].mid = r.mid
        /\ (unfinished[i].kind.qos = 1) = (r.type = "PUBACK")
        /\ r.type = "PUBCOMP" => unfinished[i].phase = "pubrel"}

\* The client takes the next reply.  It answers every PUBREC that does not fail
\* by a PUBREL, also one for a packet identifier it does not know.
ClientReceive ==
    LET r == Head(out_packets)
    IN  /\ sock = "up"
        /\ out_packets # <<>>
        /\ out_packets' = Tail(out_packets)
        /\ \/ /\ r.type = "PUBREC" /\ r.ok
              /\ unfinished' = [i \in DOMAIN unfinished |->
                                  IF i \in Mine(r)
                                  THEN [unfinished[i] EXCEPT !.phase = "pubrel"]
                                  ELSE unfinished[i]]
              /\ in_packets' = Append(in_packets, [type |-> "PUBREL", mid |-> r.mid])
              /\ UNCHANGED finished
           \/ /\ r.type # "PUBREC" \/ ~r.ok
              /\ unfinished' = Pick(unfinished, DOMAIN unfinished \ Mine(r))
              /\ finished' = IF r.ok THEN finished \cup {unfinished[i].id : i \in Mine(r)}
                             ELSE finished
              /\ UNCHANGED in_packets
        /\ UNCHANGED <<msgs_in, sock, routed, rejected, published, breaks>>

-----------------------------------------------------------------------------
Init ==
    /\ msgs_in = FreshMsgData
    /\ sock = "up"
    /\ in_packets = <<>>
    /\ out_packets = <<>>
    /\ routed = [i \in 1..MaxMsgs |-> 0]
    /\ rejected = {}
    /\ unfinished = <<>>
    /\ finished = {}
    /\ published = <<>>
    /\ breaks = 0

Modes == IF MaySlow THEN BOOLEAN ELSE {FALSE}

Next ==
    \/ \E kind \in InKinds : ClientPublish(kind)
    \/ ClientReceive
    \/ \E slow \in Modes : HandlePublish(slow)
    \/ HandlePubrel
    \/ Break
    \/ Disconnect
    \/ \E outbound \in BOOLEAN : Reconnect(outbound)

Spec == Init /\ [][Next]_vars

\* The event loop serves every socket that has something to read; the client
\* keeps reading and answering and reconnects after a loss.
Fairness ==
    /\ WF_vars(\E slow \in Modes : HandlePublish(slow))
    /\ WF_vars(HandlePubrel)
    /\ WF_vars(Disconnect)
    /\ WF_vars(ClientReceive)
    /\ []<>(sock = "up")

FairSpec == Spec /\ Fairness

-----------------------------------------------------------------------------
(* Properties                                                              *)

\* Type correctness.
TypeOK ==
    /\ msgs_in \in MsgData
    /\ sock \in {"up", "broken", "closed"}
    /\ in_packets \in Seq(Packet)
    /\ out_packets \in Seq(Reply)
    /\ routed \in [1..MaxMsgs -> 0..2]
    /\ rejected \subseteq 1..MaxMsgs
    /\ unfinished \in Seq([id: 1..MaxMsgs, mid: 1..MaxMid, kind: InKinds,
                           phase: {"publish", "pubrel"}])
    /\ finished \subseteq 1..MaxMsgs
    /\ published \in Seq(InKinds)
    /\ breaks \in 0..MaxBreaks

\* Exactly once: over any number of connections a QoS 2 message is handed to the
\* subscribers at most once.
RoutedOnce ==
    \A i \in DOMAIN published : published[i].qos = 2 => routed[i] <= 1

\* The messages on the lists that the handlers of this client look at.
Served == {m.id : m \in Elements(msgs_in.inflight) \cup Elements(msgs_in.queued)}

\* A message whose final acknowledgement the client has got was handed to the
\* subscribers, or refused, or waits on a list for a PUBREL still to come.
NothingLost ==
    \A i \in finished : routed[i] > 0 \/ i \in rejected \/ i \in Served

\* On a working connection the client never waits in vain: for each unfinished
\* message the packet the broker has to answer or its answer is under way, or the
\* message is in the queue.
PublisherIsAnswered ==
    sock = "up" => \A u \in Elements(unfinished) :
        \/ \E p \in Elements(in_packets) :
             /\ p.mid = u.mid
             /\ p.type = IF u.phase = "publish" THEN "PUBLISH" ELSE "PUBREL"
        \/ \E r \in Elements(out_packets) : r.mid = u.mid
        \/ u.phase = "publish" /\ \E m \in Elements(msgs_in.queued) : m.id = u.id

\* A listed message is never another one than the client now uses its packet
\* identifier for.  handle__publish takes such a pair for a reused identifier and
\* clears the listed message, which would then be lost; a client that keeps to
\* the protocol must never get there.
IdentifiersAgree ==
    \A m \in Elements(msgs_in.inflight) \cup Elements(msgs_in.queued),
       p \in Elements(in_packets) :
        p.type = "PUBLISH" /\ p.mid = m.mid /\ p = Head(in_packets)
          => p.id = m.id

\* msg_count12, on which the queue limit is decided, counts the messages listed.
CountExact ==
    msgs_in.msg_count12 = Len(msgs_in.inflight) + Len(msgs_in.queued)
                            + Len(msgs_in.storage)

\* Every QoS 1 or 2 message is eventually handed to the subscribers or refused.
EventuallyRouted ==
    \A i \in 1..MaxMsgs :
        (i \in DOMAIN published /\ published[i].qos > 0)
          ~> (routed[i] > 0 \/ i \in rejected)
=============================================================================
