---------------------------- MODULE OutgoingLists ---------------------------
(***************************************************************************)
(* The lists of messages for one subscriber (msgs_out: inflight, queued,   *)
(* and the storage list of the adaptive transmit policy) and the db__      *)
(* functions that change them.  Each of these maps a msgs_out record to    *)
(* the record it leaves behind; the handlers that call them are the module *)
(* OutgoingMessages.                                                       *)
(***************************************************************************)
EXTENDS Integers, Sequences, FiniteSets, Subsequences

CONSTANTS
    InflightMax,     \* msgs_out.inflight_maximum; 0 means no limit
    QueueMax,        \* config max_queued_messages; 0 means no limit
    QueueQos0,       \* config queue_qos0_messages
    StoreTimeout,    \* config msg_store_timeout, in clock ticks
    SlowLimit,       \* the 30 seconds of db__message_insert, in clock ticks
    MaxMid,          \* largest packet identifier (65535 in the code)
    PublishKinds,    \* what other clients publish
    RetainedKinds,   \* retained messages replayed on SUBSCRIBE
    ClientRefuses,   \* may the client answer PUBLISH by a failing PUBREC?
    MaxMsgs,         \* bound: messages offered to this subscriber
    MaxBreaks        \* bound: connection losses

Kinds == PublishKinds \cup RetainedKinds

\* What the code tells apart in a message: its QoS for this subscriber, whether
\* its payload reaches threshold_s, whether its topic is "latency", whether it
\* exceeds the client's maximum packet size, whether it has an expiry interval.
Kind == [qos: 0..2, large: BOOLEAN, latency: BOOLEAN,
         oversize: BOOLEAN, expires: BOOLEAN]

ASSUME ConstantsAssumption ==
    /\ InflightMax \in Nat
    /\ QueueMax \in Nat
    /\ QueueQos0 \in BOOLEAN
    /\ StoreTimeout \in Nat
    /\ SlowLimit \in Nat
    /\ MaxMid \in Nat \ {0}
    /\ PublishKinds \subseteq Kind
    /\ RetainedKinds \subseteq Kind
    /\ ClientRefuses \in BOOLEAN
    /\ MaxMsgs \in Nat
    /\ MaxBreaks \in Nat

PublishStates == {"publish_qos0", "publish_qos1", "publish_qos2"}
States == PublishStates \cup
          {"wait_for_puback", "wait_for_pubrec", "wait_for_pubcomp",
           "resend_pubrel", "queued", "storage"}

\* A mosquitto_client_msg; age is (now - storage_time), saturated just past
\* the timeout, and 0 outside the storage list.
Msg == [id: 1..MaxMsgs, mid: 0..MaxMid, kind: Kinds, state: States,
        dup: BOOLEAN, age: 0..(StoreTimeout + 1)]

\* Packets between broker and subscriber; id is a ghost naming the message.
Packet == [type: {"PUBLISH", "PUBREL"}, id: 1..MaxMsgs, mid: 0..MaxMid,
           qos: 0..2, dup: BOOLEAN]
Ack == [type: {"PUBACK", "PUBREC", "PUBREC_FAIL", "PUBCOMP"},
        id: 1..MaxMsgs, mid: 0..MaxMid]

\* struct mosquitto_msg_data for msgs_out; out holds the packets on their way
\* to the client, probing says send_time.tv_sec > 0.
MsgData == [inflight: Seq(Msg), queued: Seq(Msg), storage: Seq(Msg),
            inflight_quota: 0..InflightMax, msg_count12: Int,
            out: Seq(Packet), probing: BOOLEAN]

VARIABLE
    expired       \* messages whose message_expiry_time has passed

-----------------------------------------------------------------------------
(* The db__ functions                                                      *)

\* The state a message takes when it is moved to the inflight list.
PublishState(qos) ==
    CASE qos = 0 -> "publish_qos0"
      [] qos = 1 -> "publish_qos1"
      [] OTHER   -> "publish_qos2"

ToPublish(m) == [m EXCEPT !.state = PublishState(m.kind.qos)]
\* A message that leaves the storage list.
Unstored(m) == [m EXCEPT !.age = 0]

\* The quota after n decrements that stop at zero.
Spend(quota, n) == Greater(quota - n, 0)

\* The quota after n increments that stop at the maximum.
Refund(quota, n) == Greater(quota, Lesser(quota + n, InflightMax))

util__increment_send_quota(d) ==
    [d EXCEPT !.inflight_quota = Refund(@, 1)]

\* full: the client's outgoing packet queue has reached max_queued_messages.
db__ready_for_flight(d, qos, full) ==
    \/ InflightMax = 0
    \/ qos = 0 /\ (QueueMax = 0 \/ ~full)
    \/ qos > 0 /\ d.inflight_quota > 0

db__ready_for_queue(d, qos, online) ==
    \/ QueueMax = 0
    \/ /\ qos > 0 \/ QueueQos0
       /\ d.msg_count12 - (IF online THEN InflightMax ELSE 0) < QueueMax

\* db__message_dequeue_first, n times, each element in a publish state.
Dequeue(d, n) ==
    [d EXCEPT !.inflight = @ \o [i \in 1..n |-> ToPublish(d.queued[i])],
              !.queued = DropFirst(@, n),
              !.inflight_quota = Spend(@, n)]

\* Nothing is moved while the quota is used up.
db__message_write_queued_out(d) ==
    Dequeue(d, IF InflightMax = 0 THEN Len(d.queued)
               ELSE Lesser(Len(d.queued), d.inflight_quota))

\* The loop marks the messages that are due, and each time it finds one it
\* moves the head of the list: to inflight while there is quota, to queued
\* (in whatever state it has) once there is none.
db__message_write_storage_out(d, m) ==
    LET s       == d.storage
        Due     == {i \in DOMAIN s : s[i].age > StoreTimeout \/ m = "normal"}
        moved   == Cardinality(Due)
        flying  == IF InflightMax = 0 THEN moved
                   ELSE Lesser(moved, d.inflight_quota)
        marked  == [i \in DOMAIN s |->
                      IF i \in Due /\ Rank(Due, i) <= flying
                      THEN ToPublish(s[i]) ELSE s[i]]
        leaving == [i \in 1..moved |-> Unstored(marked[i])]
    IN  [d EXCEPT !.inflight = @ \o TakeFirst(leaving, flying),
                  !.queued = @ \o DropFirst(leaving, flying),
                  !.storage = DropFirst(marked, moved),
                  !.inflight_quota = Spend(@, flying)]

-----------------------------------------------------------------------------
(* db__message_write_inflight_out_single, applied to part of the list      *)

Expired(m) == m.id \in expired

Dropped(m) == Expired(m) \/ (m.state \in PublishStates
                               /\ (m.kind.qos = 0 \/ m.kind.oversize))

Transmitted(m) ==
    ~Expired(m) /\ \/ m.state \in PublishStates /\ ~m.kind.oversize
                   \/ m.state = "resend_pubrel"

AfterSend(m) ==
    CASE m.state = "publish_qos1" ->
           [m EXCEPT !.state = "wait_for_puback", !.dup = TRUE]
      [] m.state = "publish_qos2" ->
           [m EXCEPT !.state = "wait_for_pubrec", !.dup = TRUE]
      [] m.state = "resend_pubrel" -> [m EXCEPT !.state = "wait_for_pubcomp"]
      [] OTHER -> m

PacketOf(m) ==
    [type |-> IF m.state = "resend_pubrel" THEN "PUBREL" ELSE "PUBLISH",
     id |-> m.id, mid |-> m.mid, qos |-> m.kind.qos, dup |-> m.dup]

\* The first message a broken socket fails to send ends the traversal.
SendFails(l, from, s) ==
    s = "broken" /\ \E i \in from..Len(l) : Transmitted(l[i])
LastSent(l, from, s) ==
    IF SendFails(l, from, s)
    THEN (CHOOSE i \in from..Len(l) :
            Transmitted(l[i]) /\ \A j \in from..(i - 1) : ~Transmitted(l[j])) - 1
    ELSE Len(l)

\* The messages of db__message_remove that msg_count12 counts.
CountedRemovals(l, Handled) ==
    {i \in Handled : l[i].kind.qos > 0 /\ Dropped(l[i])}

\* Every inflight message from position from on is handled: an expired one is
\* removed and gives its quota back, a QoS 0 or oversize one is removed, the
\* others are sent.
WriteFrom(d, from, s) ==
    LET l       == d.inflight
        to      == LastSent(l, from, s)
        Handled == from..to
        Kept    == {i \in DOMAIN l : i \notin Handled \/ ~Dropped(l[i])}
        Sending == {i \in Handled : Transmitted(l[i])}
        Counted == CountedRemovals(l, Handled)
        Freed   == {i \in Handled : l[i].kind.qos > 0 /\ Expired(l[i])}
        after   == [i \in DOMAIN l |->
                      IF i \in Handled THEN AfterSend(l[i]) ELSE l[i]]
    IN  [d EXCEPT
           !.inflight = Pick(after, Kept),
           !.out = @ \o Pick([i \in DOMAIN l |-> PacketOf(l[i])], Sending),
           !.inflight_quota = Refund(@, Cardinality(Freed)),
           !.msg_count12 = @ - Cardinality(Counted),
           !.probing = @ \/ \E i \in from..Lesser(to + 1, Len(l)) :
                               /\ l[i].state \in PublishStates
                               /\ l[i].kind.latency
                               /\ ~Expired(l[i])]

db__message_write_inflight_out_all(d, s) == WriteFrom(d, 1, s)

\* Mutant: only the last message is considered.
LatestTailOnly(l) == Greater(Len(l), 1)

\* Back from the tail over the messages in a publish state, never past the head.
LatestFrom(l) ==
    IF \A i \in 2..Len(l) : l[i].state \in PublishStates THEN 1
    ELSE 1 + CHOOSE i \in 2..Len(l) :
               /\ l[i].state \notin PublishStates
               /\ \A j \in (i + 1)..Len(l) : l[j].state \in PublishStates

LatestFails(d, s) == SendFails(d.inflight, LatestFrom(d.inflight), s)
db__message_write_inflight_out_latest(d, s) ==
    WriteFrom(d, LatestFrom(d.inflight), s)

-----------------------------------------------------------------------------
(* db__message_insert                                                      *)

\* The list an insertion chooses, or "dropped".
Place(d, m, md, s, full) ==
    LET qos == m.kind.qos
    IN  CASE s = "closed" /\ qos = 0 /\ ~QueueQos0 -> "dropped"
          [] s = "closed" /\ (qos > 0 \/ QueueQos0) ->
               IF db__ready_for_queue(d, qos, FALSE) THEN "queued" ELSE "dropped"
          [] s # "closed" /\ m.kind.large /\ md = "slow" /\ ~m.kind.latency ->
               "storage"
          [] OTHER ->
               IF db__ready_for_flight(d, qos, full) THEN "inflight"
               ELSE IF qos > 0 /\ db__ready_for_queue(d, qos, TRUE)
                    THEN "queued" ELSE "dropped"

\* Mutant: DL_PREPEND instead of DL_APPEND.
StorePrepend(l, m) == <<[m EXCEPT !.state = "storage"]>> \o l

Store(l, m) == Append(l, [m EXCEPT !.state = "storage"])

\* The message is appended to its list; QoS 1 and 2 messages are counted, and
\* take one unit of quota on every list.
Enlist(d, m, place) ==
    LET counted == IF m.kind.qos > 0 THEN 1 ELSE 0
        base == [d EXCEPT !.msg_count12 = @ + counted,
                          !.inflight_quota = Spend(@, counted)]
    IN  CASE place = "inflight" ->
               [base EXCEPT !.inflight = Append(@, ToPublish(m))]
          [] place = "queued" -> [base EXCEPT !.queued = Append(@, m)]
          [] place = "storage" -> [base EXCEPT !.storage = Store(@, m)]
          [] OTHER -> d

\* Mutant: the new message is not sent at once.
UpdateWithoutSend(d, md, s) ==
    IF s = "closed" THEN d
    ELSE db__message_write_storage_out(db__message_write_queued_out(d), md)

\* The three writes that follow an insertion with update set; a failed send
\* skips the two that follow it.
Update(d, md, s) ==
    LET sent == db__message_write_inflight_out_latest(d, s)
    IN  CASE s = "closed" -> d
          [] s # "closed" /\ LatestFails(d, s) -> sent
          [] OTHER -> db__message_write_storage_out(
                        db__message_write_queued_out(sent), md)

-----------------------------------------------------------------------------
(* db__message_delete_outgoing                                             *)

\* The position of the first inflight message with this mid, 0 if there is none.
Find(l, mid) ==
    IF \E i \in DOMAIN l : l[i].mid = mid
    THEN CHOOSE i \in DOMAIN l :
           l[i].mid = mid /\ \A j \in 1..(i - 1) : l[j].mid # mid
    ELSE 0

Without(l, i) == TakeFirst(l, i - 1) \o DropFirst(l, i)

\* db__message_delete_outgoing: what it refuses, and otherwise the lists before
\* its final write.  The messages ahead of the acknowledged one are counted
\* against the limit, the ones behind it are not.
DeleteRefused(d, mid, expect_state, qos) ==
    LET i == Find(d.inflight, mid)
    IN  /\ i # 0
        /\ \/ d.inflight[i].kind.qos # qos
           \/ qos = 2 /\ d.inflight[i].state # expect_state

Room(d, ahead) ==
    IF InflightMax = 0 THEN Len(d.queued)
    ELSE Lesser(Len(d.queued), Greater(InflightMax - ahead, 0))

\* db__message_remove of an acknowledged (QoS 1 or 2) message.
db__message_remove(d, i) ==
    [d EXCEPT !.inflight = Without(@, i), !.msg_count12 = @ - 1]

DeleteAndDequeue(d, mid) ==
    LET i == Find(d.inflight, mid)
    IN  IF i = 0 THEN Dequeue(d, Room(d, Len(d.inflight)))
        ELSE Dequeue(db__message_remove(d, i), Room(d, i - 1))

-----------------------------------------------------------------------------
(* Resumption                                                              *)

\* Mutant: a released message is published again.
ResetToPublish(m) == ToPublish(m)

ResetState(m) ==
    IF m.kind.qos = 2 /\ m.state = "wait_for_pubcomp"
    THEN [m EXCEPT !.state = "resend_pubrel"] ELSE ToPublish(m)

Qos12(l) == {i \in DOMAIN l : l[i].kind.qos > 0}

\* Mutant: queued messages are not counted.
ResetCountInflight(d) == Cardinality(Qos12(d.inflight))

ResetQuota(d) == Spend(InflightMax, Cardinality(Qos12(d.inflight)))
ResetCount(d) == Cardinality(Qos12(d.inflight)) + Cardinality(Qos12(d.queued))

\* db__message_reconnect_reset_outgoing.  A queued message is ready while there
\* is quota, and always if its QoS is 0; each ready message is put in a publish
\* state, and the head of the queue is moved.
db__message_reconnect_reset_outgoing(d) ==
    LET q      == d.queued
        quota  == ResetQuota(d)
        Ready  == {i \in DOMAIN q : \/ InflightMax = 0
                                    \/ i <= quota
                                    \/ q[i].kind.qos = 0}
        marked == [i \in DOMAIN q |->
                     IF i \in Ready THEN ToPublish(q[i]) ELSE q[i]]
        moved  == Cardinality(Ready)
    IN  [d EXCEPT
           !.inflight = [i \in DOMAIN @ |-> ResetState(@[i])]
                          \o TakeFirst(marked, moved),
           !.queued = DropFirst(marked, moved),
           !.inflight_quota = Spend(quota, moved),
           !.msg_count12 = ResetCount(d)]

\* context__init
FreshMsgData ==
    [inflight |-> <<>>, queued |-> <<>>, storage |-> <<>>,
     inflight_quota |-> InflightMax, msg_count12 |-> 0,
     out |-> <<>>, probing |-> FALSE]

\* Mutant: a session with only queued messages is taken for an empty one.
HasInflight(d, inbound) == inbound \/ d.inflight # <<>>

\* The test for messages in the old session; inbound says that msgs_in has some.
\* The storage list is not asked.
HasMessages(d, inbound) == inbound \/ d.inflight # <<>> \/ d.queued # <<>>

Elements(l) == {l[i] : i \in DOMAIN l}

\* The clock advances by one unit for a message on the storage list.
Older(m) == [m EXCEPT !.age = Lesser(@ + 1, StoreTimeout + 1)]
=============================================================================
