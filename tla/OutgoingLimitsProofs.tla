------------------------ MODULE OutgoingLimitsProofs ------------------------
(***************************************************************************)
(* The steps of the broker and the subscriber keep every variable well-    *)
(* formed, the book of the messages offered so far in order, and, with the *)
(* transmit policy inactive, the counter msg_count12 and the send quota    *)
(* exact; max_queued_messages, which db__ready_for_queue derives from      *)
(* them, is then kept.                                                     *)
(***************************************************************************)
EXTENDS OutgoingMessages, OutgoingListsProofs

-----------------------------------------------------------------------------
(* The variables are well-formed                                           *)

\* do_disconnect keeps msgs_out well-formed.
LEMMA CloseType ==
    ASSUME NEW E \in Inflights, NEW d \in Data(E), Close(d)
    PROVE  msgs_out' \in Data(E) /\ sock' = "closed" /\ in_packets' \in Seq(Ack)
<1> DEFINE none == <<>>
<1>1. none \in Seq(Packet) /\ none \in Seq(Ack)
  OBVIOUS
<1>2. msgs_out' = [d EXCEPT !.out = none] /\ sock' = "closed" /\ in_packets' = none
  BY Zenon DEF Close
<1> HIDE DEF none
<1>3. [d EXCEPT !.out = none] \in Data(E)
  BY <1>1, Zenon DEF Data, MsgData
<1> QED BY <1>1, <1>2, <1>3, SMTT(30)

\* db__message_delete_outgoing, with its early return and its failing write, keeps the invariant.
LEMMA DeleteOutgoingType ==
    ASSUME Counting, NEW E \in Inflights, NEW d \in Data(E), NEW mid, NEW state, NEW qos,
           in_packets \in Seq(Ack), in_packets # <<>>,
           db__message_delete_outgoing(d, mid, state, qos)
    PROVE  /\ msgs_out' \in Data(E)
           /\ sock' = sock \/ sock' = "closed"
           /\ in_packets' \in Seq(Ack)
<1> DEFINE e == DeleteAndDequeue(d, mid)
           w == db__message_write_inflight_out_latest(e, sock)
<1>1. e \in Data(E)
  BY DeleteAndDequeueType, Zenon
<1> HIDE DEF e
<1>2. w \in Data(E)
  BY <1>1, WriteInflightType, Zenon
<1> HIDE DEF w
<1>3. CASE DeleteRefused(d, mid, state, qos)
  BY <1>3, CloseType, Zenon DEF db__message_delete_outgoing
<1>4. CASE ~DeleteRefused(d, mid, state, qos)
  <2>1. IF LatestFails(e, sock) THEN Close(w)
        ELSE msgs_out' = w /\ in_packets' = Tail(in_packets) /\ sock' = sock
    BY <1>4, Zenon DEF db__message_delete_outgoing, e, w
  <2>2. Tail(in_packets) \in Seq(Ack)
    BY SMTT(30)
  <2> QED BY <1>2, <2>1, <2>2, CloseType, SMTT(30)
<1> QED BY <1>3, <1>4, Zenon

\* TypeOK without msgs_out.
OthersOK ==
    /\ mode \in {"normal", "slow"}
    /\ slow_age \in 0..(SlowLimit + 1)
    /\ last_mid \in 0..MaxMid
    /\ sock \in {"up", "broken", "closed"}
    /\ in_packets \in Seq(Ack)
    /\ expired \subseteq 1..MaxMsgs
    /\ offered \in 0..MaxMsgs
    /\ accepted \subseteq [id: 1..MaxMsgs, kind: Kinds]
    /\ delivered \in [1..MaxMsgs -> 0..2]
    /\ refused \subseteq 1..MaxMsgs
    /\ unreleased \subseteq 0..MaxMid
    /\ breaks \in 0..MaxBreaks

Inv(E) == msgs_out \in Data(E) /\ OthersOK

\* The inductive invariant implies the type invariant and the order of the storage list.
LEMMA InvImplies ==
    ASSUME NEW E \in Inflights, Inv(E)
    PROVE  TypeOK /\ StorageOldestFirst
  BY Zenon DEF Inv, Data, OthersOK, OldestFirst, TypeOK, StorageOldestFirst

\* The inductive invariant over live messages implies that inflight messages are live.
LEMMA LiveInvImplies ==
    ASSUME Inv(LiveMsg)
    PROVE  InflightIsLive
<1>1. \A i \in DOMAIN msgs_out.inflight : msgs_out.inflight[i] \in LiveMsg
  BY SMTT(30) DEF Inv, Data
<1> QED BY <1>1, Zenon DEF InflightIsLive, Elements, LiveMsg

\* The inductive invariant holds initially.
LEMMA InvInit ==
    ASSUME NEW E \in Inflights, Init
    PROVE  Inv(E)
<1>1. OthersOK
  BY ConstantsAssumption, SMTT(30) DEF Init, OthersOK
<1> QED BY <1>1, FreshType, SMTT(30) DEF Init, Inv

\* db__message_insert makes well-formed messages.
LEMMA NewMsgType ==
    ASSUME NEW kind \in Kinds, OthersOK, offered < MaxMsgs
    PROVE  /\ NewMsg(kind) \in Msg /\ NewMsg(kind).age = 0
           /\ NewMsg(kind).mid \in 0..MaxMid /\ NewMsg(kind).kind = kind
           /\ NewMsg(kind).id \in 1..MaxMsgs
<1>1. mosquitto__mid_generate \in 0..MaxMid
  BY ConstantsAssumption DEF mosquitto__mid_generate, OthersOK
<1>2. offered + 1 \in 1..MaxMsgs
  BY ConstantsAssumption DEF OthersOK
<1>3. 0 \in 0..MaxMid /\ 0 \in 0..(StoreTimeout + 1)
  BY ConstantsAssumption, SMTT(30)
<1> QED BY <1>1, <1>2, <1>3, SMTT(30) DEF NewMsg, Msg, States

\* What an insertion changes outside msgs_out stays well-typed.
LEMMA OfferType ==
    ASSUME NEW kind \in Kinds, OthersOK, NEW place, Offer(NewMsg(kind), place)
    PROVE  /\ mode' \in {"normal", "slow"}
           /\ slow_age' \in 0..(SlowLimit + 1)
           /\ last_mid' \in 0..MaxMid
           /\ expired' \subseteq 1..MaxMsgs
           /\ offered' \in 0..MaxMsgs
           /\ accepted' \subseteq [id: 1..MaxMsgs, kind: Kinds]
           /\ delivered' \in [1..MaxMsgs -> 0..2]
           /\ refused' \subseteq 1..MaxMsgs
           /\ unreleased' \subseteq 0..MaxMid
           /\ breaks' \in 0..MaxBreaks
           /\ offered < MaxMsgs
<1> DEFINE m == NewMsg(kind)
<1>1. /\ offered < MaxMsgs /\ offered' = offered + 1
      /\ last_mid' = IF m.kind.qos > 0 THEN m.mid ELSE last_mid
      /\ mode' = IF sock = "closed" THEN mode ELSE ModeAtInsert
      /\ accepted' = IF place = "dropped" THEN accepted
                     ELSE accepted \cup {[id |-> m.id, kind |-> m.kind]}
      /\ UNCHANGED <<slow_age, expired, breaks, delivered, refused, unreleased>>
  BY SMTT(30) DEF Offer, clientVars
<1>2. m.mid \in 0..MaxMid /\ m.id \in 1..MaxMsgs /\ m.kind \in Kinds
  BY <1>1, NewMsgType, SMTT(30)
<1> HIDE DEF m
<1>3. ModeAtInsert \in {"normal", "slow"}
  BY SMTT(30) DEF ModeAtInsert, OthersOK
<1>4. offered' \in 0..MaxMsgs
  BY <1>1, ConstantsAssumption, SMTT(30) DEF OthersOK
<1>5. accepted' \subseteq [id: 1..MaxMsgs, kind: Kinds]
  BY <1>1, <1>2, SMTT(30) DEF OthersOK
<1> QED BY <1>1, <1>2, <1>3, <1>4, <1>5, SMTT(30) DEF OthersOK

\* Every handler keeps the message data well-formed, the storage list oldest first
\* and, when QoS 0 messages are not queued, the inflight list live.
LEMMA InvStep ==
    ASSUME Counting, NEW E \in Inflights, E = Msg \/ Qos0NeverQueued, Inv(E), [Next]_vars
    PROVE  Inv(E)'
<1> USE ConstantsAssumption
<1>d. msgs_out \in Data(E) /\ OthersOK
  BY SMTT(30) DEF Inv
<1>a. ASSUME NEW kind \in PublishKinds, NEW full \in BOOLEAN, Publish(kind, full)
      PROVE  Inv(E)'
  <2> DEFINE m     == NewMsg(kind)
             place == Place(msgs_out, m, ModeAtInsert, sock, full)
             md    == ModeAtInsert
  <2>1. kind \in Kinds
    BY SMTT(30) DEF Kinds
  <2>2. /\ Offer(m, place)
        /\ msgs_out' = IF place = "dropped" THEN msgs_out
                       ELSE Update(Enlist(msgs_out, m, place), md, sock)
        /\ sock' = sock /\ in_packets' = in_packets
    BY <1>a, SMTT(30) DEF Publish, Leave, linkVars
  <2> HIDE DEF place, md
  <2>3. offered < MaxMsgs
    BY <2>2, ZenonT(40) DEF Offer
  <2>4. m \in Msg /\ m.age = 0
    BY <1>d, <2>1, <2>3, NewMsgType, SMTT(30)
  <2>5. OthersOK'
    BY <1>d, <2>1, <2>2, OfferType, SMTT(30) DEF OthersOK
  <2> HIDE DEF m
  <2>6. Enlist(msgs_out, m, place) \in Data(E)
    BY <1>d, <2>4, EnlistType, Zenon
  <2>7. Update(Enlist(msgs_out, m, place), md, sock) \in Data(E)
    BY <2>6, UpdateType, SMTT(30)
  <2> QED BY <1>d, <2>2, <2>5, <2>7, SMTT(30) DEF Inv
<1>f. ASSUME NEW d \in Data(E), NEW blocked \in BOOLEAN, FinishSubscribe(d, blocked)
      PROVE  /\ msgs_out' \in Data(E)
             /\ sock' \in {"up", "broken", "closed"} /\ in_packets' \in Seq(Ack)
  <2>1. CASE sock = "up" /\ blocked /\ Leave(d)
    BY <1>d, <2>1, SMTT(30) DEF Leave, linkVars, OthersOK
  <2>2. CASE sock = "up" /\ Leave(db__message_write_inflight_out_latest(
                                    db__message_write_queued_out(d), sock))
    <3>1. db__message_write_inflight_out_latest(
            db__message_write_queued_out(d), sock) \in Data(E)
      BY WriteQueuedType, WriteInflightType, SMTT(30)
    <3> QED BY <1>d, <2>2, <3>1, SMTT(30) DEF Leave, linkVars, OthersOK
  <2>3. CASE sock = "broken" /\ Close(d)
    BY <2>3, CloseType, SMTT(30)
  <2> QED BY <1>f, <2>1, <2>2, <2>3, SMTT(30) DEF FinishSubscribe
<1>b. ASSUME NEW kind \in RetainedKinds, NEW full \in BOOLEAN, NEW blocked \in BOOLEAN,
             SubscribeRetained(kind, full, blocked)
      PROVE  Inv(E)'
  <2> DEFINE m     == NewMsg(kind)
             place == Place(msgs_out, m, ModeAtInsert, sock, full)
  <2>1. kind \in Kinds
    BY SMTT(30) DEF Kinds
  <2>2. Offer(m, place) /\ FinishSubscribe(Enlist(msgs_out, m, place), blocked)
    BY <1>b, SMTT(30) DEF SubscribeRetained
  <2> HIDE DEF place
  <2>3. offered < MaxMsgs
    BY <2>2, ZenonT(40) DEF Offer
  <2>4. m \in Msg /\ m.age = 0
    BY <1>d, <2>1, <2>3, NewMsgType, SMTT(30)
  <2>5. Enlist(msgs_out, m, place) \in Data(E)
    <3> HIDE DEF m
    <3> QED BY <1>d, <2>4, EnlistType, SMTT(30)
  <2>6. /\ msgs_out' \in Data(E)
        /\ sock' \in {"up", "broken", "closed"} /\ in_packets' \in Seq(Ack)
    <3> HIDE DEF m
    <3> QED BY <1>f, <2>2, <2>5, SMTT(30)
  <2>7. OthersOK'
    BY <1>d, <2>1, <2>2, <2>6, OfferType, ZenonT(40) DEF OthersOK
  <2> QED BY <2>6, <2>7, SMTT(30) DEF Inv
<1>c. ASSUME NEW blocked \in BOOLEAN, Subscribe(blocked)
      PROVE  Inv(E)'
  <2>1. /\ msgs_out' \in Data(E)
        /\ sock' \in {"up", "broken", "closed"} /\ in_packets' \in Seq(Ack)
    BY <1>c, <1>d, <1>f, SMTT(20) DEF Subscribe
  <2> QED BY <1>c, <1>d, <2>1, Zenon DEF Subscribe, modeVars, offerVars, clientVars,
                                  OthersOK, Inv
<1>e. CASE UnsubscribeLatency
  BY <1>d, <1>e, SMTT(30) DEF UnsubscribeLatency, linkVars, offerVars, clientVars, OthersOK, Inv
<1>g. ASSUME NEW type, Receives(type)
      PROVE  in_packets # <<>> /\ in_packets \in Seq(Ack) /\ Head(in_packets) \in Ack
  <2>1. in_packets # <<>> /\ in_packets \in Seq(Ack)
    BY <1>d, <1>g, SMTT(30) DEF Receives, OthersOK
  <2> QED BY <2>1, SMTT(30)
<1>h. util__increment_send_quota(msgs_out) \in Data(E)
  <2>1. Refund(msgs_out.inflight_quota, 1) \in 0..InflightMax
    BY <1>d, DataFields, QuotaType, Zenon
  <2>2. util__increment_send_quota(msgs_out) =
          [msgs_out EXCEPT !.inflight_quota = Refund(msgs_out.inflight_quota, 1)]
    BY SMTT(20) DEF util__increment_send_quota
  <2> QED BY <1>d, <2>1, <2>2, Zenon DEF Data, MsgData
<1>i. ASSUME NEW verdict \in {"normal", "slow"}, HandlePuback(verdict)
      PROVE  Inv(E)'
  <2> DEFINE d == util__increment_send_quota(msgs_out)
             w == db__message_write_storage_out(d, verdict)
             written == [w EXCEPT !.probing = FALSE]
             e == IF msgs_out.probing THEN written ELSE d
  <2>1. Receives("PUBACK")
          /\ db__message_delete_outgoing(e, Head(in_packets).mid, "wait_for_pubcomp", 1)
    BY <1>i, ZenonT(40) DEF HandlePuback
  <2>2. mode' \in {"normal", "slow"} /\ slow_age' \in 0..(SlowLimit + 1)
    BY <1>d, <1>i, SMTT(30) DEF HandlePuback, modeVars, OthersOK
  <2>3. UNCHANGED <<expired, breaks, last_mid, offered, accepted,
                    delivered, refused, unreleased>>
    BY <1>i, Zenon DEF HandlePuback, offerVars, clientVars
  <2> HIDE DEF d
  <2>4. w \in Data(E)
    BY <1>h, WriteStorageType, Zenon DEF d
  <2> HIDE DEF w
  <2>5. written \in Data(E)
    BY <2>4, ZenonT(40) DEF Data, MsgData
  <2>6. e \in Data(E)
    <3> HIDE DEF written
    <3> QED BY <1>h, <2>5, Zenon DEF d
  <2> HIDE DEF e
  <2>7. /\ msgs_out' \in Data(E)
        /\ sock' = sock \/ sock' = "closed"
        /\ in_packets' \in Seq(Ack)
    BY <1>g, <2>1, <2>6, DeleteOutgoingType, SMTT(20)
  <2> QED BY <1>d, <2>2, <2>3, <2>7, SMTT(30) DEF OthersOK, Inv
<1>j. CASE HandlePubcomp \/ HandlePubrecFail
  <2>1. /\ msgs_out' \in Data(E)
        /\ sock' = sock \/ sock' = "closed"
        /\ in_packets' \in Seq(Ack)
    <3>1. CASE HandlePubcomp
      BY <1>g, <1>h, <3>1, DeleteOutgoingType, SMTT(30) DEF HandlePubcomp
    <3>2. CASE HandlePubrecFail
      BY <1>d, <1>g, <3>2, DeleteOutgoingType, SMTT(30) DEF HandlePubrecFail
    <3> QED BY <1>j, <3>1, <3>2, SMTT(30)
  <2>2. UNCHANGED <<expired, breaks, mode, slow_age, last_mid, offered, accepted,
                    delivered, refused, unreleased>>
    BY <1>j, SMTT(30) DEF HandlePubcomp, HandlePubrecFail, modeVars, offerVars, clientVars
  <2> QED BY <1>d, <2>1, <2>2, Zenon DEF OthersOK, Inv
<1>k. CASE HandlePubrec
  <2> DEFINE a       == Head(in_packets)
             l       == msgs_out.inflight
             i       == Find(l, a.mid)
             updated == IF i = 0 THEN msgs_out
                        ELSE [msgs_out EXCEPT !.inflight[i].state = "wait_for_pubcomp"]
             pubrel  == [type |-> "PUBREL", id |-> a.id, mid |-> a.mid,
                         qos |-> 2, dup |-> FALSE]
             sent    == [updated EXCEPT !.out = Append(updated.out, pubrel)]
  <2>1. /\ Receives("PUBREC")
        /\ \/ Close(msgs_out)
           \/ Close(updated)
           \/ msgs_out' = sent /\ in_packets' = Tail(in_packets) /\ sock' = sock
        /\ UNCHANGED <<expired, breaks, mode, slow_age, last_mid, offered, accepted,
                       delivered, refused, unreleased>>
    BY <1>k, SMTT(30) DEF HandlePubrec, modeVars, offerVars, clientVars
  <2>2. in_packets # <<>> /\ in_packets \in Seq(Ack) /\ a \in Ack
    BY <1>g, <2>1, Zenon
  <2>3. pubrel \in Packet
    BY <2>2, SMTT(30) DEF Ack, Packet
  <2>4. l \in Seq(E) /\ (i = 0 \/ i \in DOMAIN l)
    <3>1. l \in Seq(E)
      BY <1>d, DataFields, Zenon
    <3> QED BY <3>1, FindType
  <2> HIDE DEF i, pubrel
  <2>5. updated \in Data(E)
    <3>1. CASE i = 0
      BY <1>d, <3>1, Zenon
    <3>2. CASE i # 0
      <4> DEFINE x == [l[i] EXCEPT !.state = "wait_for_pubcomp"]
                 y == [l EXCEPT ![i] = x]
      <4>1. updated = [msgs_out EXCEPT !.inflight = y]
        BY <3>2, Zenon
      <4>2. x \in E
        <5>1. l[i] \in E
          BY <2>4, <3>2, SMTT(30)
        <5>2. "wait_for_pubcomp" \in States \ {"queued", "storage"} /\ TRUE \in BOOLEAN
          BY Zenon DEF States
        <5> HIDE DEF l
        <5> QED BY <5>1, <5>2, StateChange, Zenon
      <4> HIDE DEF x
      <4>3. y \in Seq(E)
        BY <2>4, <3>2, <4>2, SMTT(30)
      <4>4. y \in Seq(Msg)
        BY <4>3, InflightsSubset, SeqSubset, SMTT(30)
      <4> HIDE DEF y, updated
      <4> QED BY <1>d, <4>1, <4>3, <4>4, ZenonT(40) DEF Data, MsgData
    <3> QED BY <3>1, <3>2, Zenon
  <2> HIDE DEF updated
  <2>6. sent \in Data(E)
    <3>1. Append(updated.out, pubrel) \in Seq(Packet)
      BY <2>3, <2>5, DataFields
    <3> QED BY <2>5, <3>1, ZenonT(40) DEF Data, MsgData
  <2> HIDE DEF sent
  <2>7. Tail(in_packets) \in Seq(Ack)
    BY <2>2
  <2>8. /\ msgs_out' \in Data(E)
        /\ sock' = sock \/ sock' = "closed"
        /\ in_packets' \in Seq(Ack)
    BY <1>d, <2>1, <2>5, <2>6, <2>7, CloseType, SMTT(20)
  <2> QED BY <1>d, <2>1, <2>8, SMTT(30) DEF OthersOK, Inv
<1>l. CASE Break
  BY <1>d, <1>l, SMTT(20) DEF Break, modeVars, offerVars, clientVars, OthersOK, Inv
<1>m. CASE Disconnect
  <2>1. msgs_out' \in Data(E) /\ sock' = "closed" /\ in_packets' \in Seq(Ack)
    BY <1>d, <1>m, CloseType, SMTT(30) DEF Disconnect
  <2> QED BY <1>d, <1>m, <2>1, SMTT(30) DEF Disconnect, modeVars, offerVars, clientVars,
                                  OthersOK, Inv
<1>n. ASSUME NEW inbound \in BOOLEAN, Reconnect(inbound)
      PROVE  Inv(E)'
  <2> DEFINE none  == <<>>
             old   == [msgs_out EXCEPT !.out = none, !.probing = FALSE]
             taken == IF HasMessages(old, inbound)
                      THEN db__message_reconnect_reset_outgoing(old)
                      ELSE FreshMsgData
  <2>1. /\ sock' = "up" /\ in_packets' = none
        /\ msgs_out' = db__message_write_inflight_out_all(
                         db__message_write_queued_out(taken), "up")
        /\ mode' = "normal" /\ slow_age' = SlowLimit + 1
        /\ UNCHANGED <<expired, breaks, last_mid, offered, accepted,
                       delivered, refused, unreleased>>
    BY <1>n, Zenon DEF Reconnect, offerVars, clientVars
  <2>2. none \in Seq(Packet) /\ none \in Seq(Ack)
    OBVIOUS
  <2> HIDE DEF none
  <2>3. old \in Data(E)
    BY <1>d, <2>2, ZenonT(40) DEF Data, MsgData
  <2> HIDE DEF old
  <2>4. taken \in Data(E)
    BY <2>3, ResetType, FreshType, SMTT(20)
  <2> HIDE DEF taken
  <2>5. msgs_out' \in Data(E)
    BY <2>1, <2>4, WriteQueuedType, WriteInflightType, SMTT(20)
  <2> QED BY <1>d, <2>1, <2>2, <2>5 DEF OthersOK, Inv
<1>o. CASE ClientReceive
  <2> DEFINE p == Head(msgs_out.out)
  <2>1. msgs_out.out \in Seq(Packet) /\ msgs_out.out # <<>>
    BY <1>d, <1>o, DataFields, SMTT(30) DEF ClientReceive
  <2>2. p \in Packet /\ Tail(msgs_out.out) \in Seq(Packet)
    BY <2>1
  <2>3. msgs_out' = [msgs_out EXCEPT !.out = Tail(msgs_out.out)]
    BY <1>o, Zenon DEF ClientReceive
  <2>4. msgs_out' \in Data(E)
    BY <1>d, <2>2, <2>3, ZenonT(40) DEF Data, MsgData
  <2>5. /\ in_packets' = in_packets
           \/ \E t \in {"PUBACK", "PUBREC", "PUBREC_FAIL", "PUBCOMP"} : Answer(t, p)
        /\ delivered' = delivered \/ Deliver(p)
        /\ refused' = refused \/ refused' = refused \cup {p.id}
        /\ \/ unreleased' = unreleased
           \/ unreleased' = unreleased \cup {p.mid}
           \/ unreleased' = unreleased \ {p.mid}
        /\ UNCHANGED <<sock, expired, breaks, mode, slow_age, last_mid, offered, accepted>>
    BY <1>o, Zenon DEF ClientReceive, modeVars, offerVars
  <2>6. p.id \in 1..MaxMsgs /\ p.mid \in 0..MaxMid
    BY <2>2, Zenon DEF Packet
  <2> HIDE DEF p
  <2>7. in_packets' \in Seq(Ack)
    <3>1. ASSUME NEW t \in {"PUBACK", "PUBREC", "PUBREC_FAIL", "PUBCOMP"}, Answer(t, p)
          PROVE  in_packets' \in Seq(Ack)
      <4> DEFINE a == [type |-> t, id |-> p.id, mid |-> p.mid]
      <4>1. a \in Ack
        BY <2>6, SMTT(30) DEF Ack
      <4>2. in_packets' = Append(in_packets, a)
        BY <3>1, SMTT(30) DEF Answer
      <4> HIDE DEF a
      <4> QED BY <1>d, <4>1, <4>2, SMTT(30) DEF OthersOK
    <3> QED BY <1>d, <2>5, <3>1, Zenon DEF OthersOK
  <2>8. delivered' \in [1..MaxMsgs -> 0..2]
    <3>1. delivered \in [1..MaxMsgs -> 0..2]
      BY <1>d, SMTT(30) DEF OthersOK
    <3>2. Lesser(delivered[p.id] + 1, 2) \in 0..2
      BY <2>6, <3>1, SMTT(30) DEF Lesser
    <3> QED BY <2>5, <2>6, <3>1, <3>2, SMTT(30) DEF Deliver
  <2>9. refused' \subseteq 1..MaxMsgs /\ unreleased' \subseteq 0..MaxMid
    BY <1>d, <2>5, <2>6, ZenonT(40) DEF OthersOK
  <2> QED BY <1>d, <2>4, <2>5, <2>7, <2>8, <2>9, SMTT(20) DEF OthersOK, Inv
<1>p. CASE Expire
  <2>1. /\ \E m \in Held : expired' = expired \cup {m.id}
        /\ UNCHANGED <<msgs_out, breaks, mode, slow_age, sock, in_packets, last_mid,
                       offered, accepted, delivered, refused, unreleased>>
    BY <1>p, SMTT(20) DEF Expire, modeVars, linkVars, offerVars, clientVars
  <2>2. Held \subseteq Msg
    BY <1>d, DataFields DEF Held, Elements
  <2>3. expired' \subseteq 1..MaxMsgs
    BY <1>d, <2>1, <2>2, MsgFields, Zenon DEF OthersOK
  <2> QED BY <1>d, <2>1, <2>3, SMTT(20) DEF OthersOK, Inv
<1>q. CASE Tick
  <2> DEFINE s     == msgs_out.storage
             older == [i \in DOMAIN s |-> Older(s[i])]
  <2>1. /\ msgs_out' = [msgs_out EXCEPT !.storage = older]
        /\ slow_age' = Lesser(slow_age + 1, SlowLimit + 1)
        /\ UNCHANGED <<mode, expired, breaks, sock, in_packets, last_mid, offered,
                       accepted, delivered, refused, unreleased>>
    BY <1>q, Zenon DEF Tick, linkVars, offerVars, clientVars
  <2>2. s \in Seq(Msg) /\ OldestFirst(s)
    BY <1>d, DataFields, Zenon
  <2>3. ASSUME NEW m \in Msg
        PROVE  /\ Older(m) \in Msg
               /\ Older(m).age = Lesser(m.age + 1, StoreTimeout + 1)
    <3>1. Lesser(m.age + 1, StoreTimeout + 1) \in 0..(StoreTimeout + 1)
      BY MsgFields, SMTT(30) DEF Lesser
    <3> QED BY <3>1, SMTT(30) DEF Older, Msg
  <2>4. older \in Seq(Msg)
    BY <2>2, <2>3, SMTT(30)
  <2>5. OldestFirst(older)
    <3>1. \A i \in DOMAIN s : s[i].age \in Nat
      <4>1. \A i \in DOMAIN s : s[i] \in Msg
        BY <2>2, SMTT(30)
      <4> QED BY <4>1, MsgFields, SMTT(30)
    <3>2. \A i \in DOMAIN s : s[i] \in Msg
      BY <2>2, SMTT(30)
    <3>3. \A i \in DOMAIN s : older[i].age = Lesser(s[i].age + 1, StoreTimeout + 1)
      BY <2>3, <3>2, SMTT(30)
    <3>4. DOMAIN older = DOMAIN s
      BY SMTT(30)
    <3> HIDE DEF older, s
    <3> SUFFICES ASSUME NEW i \in DOMAIN older, NEW j \in DOMAIN older, i < j
                 PROVE  older[i].age >= older[j].age
      BY SMTT(30) DEF OldestFirst
    <3>5. s[i].age >= s[j].age /\ s[i].age \in Nat /\ s[j].age \in Nat
      BY <2>2, <3>1, <3>4, SMTT(30) DEF OldestFirst
    <3>6. older[i].age = Lesser(s[i].age + 1, StoreTimeout + 1)
            /\ older[j].age = Lesser(s[j].age + 1, StoreTimeout + 1)
      BY <3>3, <3>4, SMTT(30)
    <3> QED BY <3>5, <3>6, SMTT(30) DEF Lesser
  <2> HIDE DEF older
  <2>6. msgs_out' \in Data(E)
    BY <1>d, <2>1, <2>4, <2>5, ZenonT(40) DEF Data, MsgData
  <2>7. slow_age' \in 0..(SlowLimit + 1)
    BY <1>d, <2>1, SMTT(30) DEF OthersOK, Lesser
  <2> QED BY <1>d, <2>1, <2>6, <2>7, SMTT(30) DEF OthersOK, Inv
<1>r. CASE UNCHANGED vars
  BY <1>d, <1>r, Zenon DEF vars, modeVars, linkVars, offerVars, clientVars, OthersOK, Inv
<1> QED BY <1>a, <1>b, <1>c, <1>e, <1>i, <1>j, <1>k, <1>l, <1>m, <1>n, <1>o, <1>p,
           <1>q, <1>r, SMTT(30) DEF Next

-----------------------------------------------------------------------------
(* The limits                                                              *)

\* Without probes the mode stays normal; messages that do not expire do not; a client
\* that refuses nothing sends no failing PUBREC.
Quiet ==
    /\ NoProbes => mode = "normal" /\ ~msgs_out.probing
    /\ OnlyAcknowledged => expired = {}
    /\ ~ClientRefuses => \A i \in DOMAIN in_packets : in_packets[i].type # "PUBREC_FAIL"

LimitsInv == Inv(Msg) /\ Limits(msgs_out, sock # "closed", sock # "closed") /\ Quiet

\* do_disconnect keeps the limits of an absent client.
LEMMA CloseLimits ==
    ASSUME NEW d \in Data(Msg), NEW live \in BOOLEAN, NEW flows \in BOOLEAN,
           Limits(d, live, flows), Close(d)
    PROVE  /\ Limits(msgs_out', FALSE, FALSE) /\ sock' = "closed"
           /\ in_packets' = <<>> /\ msgs_out'.probing = d.probing
<1> DEFINE none == <<>>
<1>1. msgs_out' = [d EXCEPT !.out = none] /\ sock' = "closed" /\ in_packets' = <<>>
  BY Zenon DEF Close
<1>2. d \in MsgData
  BY Zenon DEF Data
<1> HIDE DEF none
<1>3. PICK e : e = [d EXCEPT !.out = none]
  BY Zenon
<1>4. /\ e.inflight = d.inflight /\ e.queued = d.queued /\ e.storage = d.storage
      /\ e.inflight_quota = d.inflight_quota /\ e.msg_count12 = d.msg_count12
      /\ e.probing = d.probing
  BY <1>2, <1>3, Zenon DEF MsgData
<1>5. Limits(d, FALSE, FALSE)
  BY LimitsWeaken, Zenon
<1>6. Limits(e, FALSE, FALSE)
  BY <1>4, <1>5, SameLimits, Zenon
<1> QED BY <1>1, <1>3, <1>4, <1>6, Zenon

\* The end of handle__subscribe keeps the limits.
LEMMA FinishSubscribeLimits ==
    ASSUME Counting, NEW d \in Data(Msg), Limits(d, sock # "closed", sock # "closed"),
           OnlyAcknowledged => expired = {},
           NEW blocked \in BOOLEAN, FinishSubscribe(d, blocked)
    PROVE  /\ Limits(msgs_out', sock' # "closed", sock' # "closed")
           /\ NoProbes => msgs_out'.probing = d.probing
           /\ in_packets' = in_packets \/ in_packets' = <<>>
<1> DEFINE e == db__message_write_queued_out(d)
           f == db__message_write_inflight_out_latest(e, sock)
<1>1. Msg \in Inflights
  BY Zenon DEF Inflights
<1>2. CASE sock = "up" /\ blocked /\ Leave(d)
  BY <1>2, Zenon DEF Leave, linkVars
<1>3. CASE sock = "up" /\ Leave(f)
  <2>1. Limits(d, TRUE, TRUE)
    BY <1>3, Zenon
  <2>2. e \in Data(Msg) /\ Limits(e, TRUE, TRUE) /\ e.probing = d.probing
    BY <2>1, WriteQueuedLimits, Zenon
  <2> HIDE DEF e
  <2>3. Limits(f, TRUE, TRUE) /\ (NoProbes => f.probing = e.probing)
    BY <2>2, WriteInflightLimits, Zenon
  <2> HIDE DEF f
  <2> QED BY <1>3, <2>2, <2>3, Zenon DEF Leave, linkVars
<1>4. CASE sock = "broken" /\ Close(d)
  <2>1. Limits(d, TRUE, TRUE)
    BY <1>4, Zenon
  <2> QED BY <1>4, <2>1, CloseLimits, Zenon
<1> QED BY <1>2, <1>3, <1>4, Zenon DEF FinishSubscribe

\* db__message_delete_outgoing after the quota was given back.
LEMMA DeleteOutgoingLimits ==
    ASSUME Counting, NEW d \in Data(Msg), Limits(d, TRUE, TRUE), QuotaIsReturned => Credited(d),
           OnlyAcknowledged => expired = {}, sock # "closed",
           NEW mid, NEW st, NEW qos \in {1, 2},
           db__message_delete_outgoing(d, mid, st, qos)
    PROVE  /\ Limits(msgs_out', sock' # "closed", sock' # "closed")
           /\ NoProbes => msgs_out'.probing = d.probing
           /\ in_packets' = Tail(in_packets) \/ in_packets' = <<>>
<1> DEFINE e == DeleteAndDequeue(d, mid)
           w == db__message_write_inflight_out_latest(e, sock)
<1>1. Msg \in Inflights
  BY Zenon DEF Inflights
<1>2. CASE DeleteRefused(d, mid, st, qos)
  BY <1>2, CloseLimits, Zenon DEF db__message_delete_outgoing
<1>3. CASE ~DeleteRefused(d, mid, st, qos)
  <2>1. IF LatestFails(e, sock) THEN Close(w)
        ELSE msgs_out' = w /\ in_packets' = Tail(in_packets) /\ sock' = sock
    BY <1>3, Zenon DEF db__message_delete_outgoing
  <2>2. e \in Data(Msg) /\ Limits(e, TRUE, TRUE) /\ e.probing = d.probing
    BY <1>1, <1>3, DeleteAndDequeueType, DeleteLimits, Zenon
  <2> HIDE DEF e
  <2>3. w \in Data(Msg) /\ Limits(w, TRUE, TRUE) /\ (NoProbes => w.probing = e.probing)
    BY <1>1, <2>2, WriteInflightType, WriteInflightLimits, Zenon
  <2> HIDE DEF w
  <2> QED BY <2>1, <2>2, <2>3, CloseLimits, Zenon
<1> QED BY <1>2, <1>3, Zenon

\* Every handler keeps the limits.
LEMMA LimitsStep ==
    ASSUME Counting, StorageUnused, LimitsInv, [Next]_vars
    PROVE  LimitsInv'
<1> DEFINE live == sock # "closed"
<1>0. Msg \in Inflights
  BY Zenon DEF Inflights
<1>1. Inv(Msg)'
  <2>1. Msg = Msg \/ Qos0NeverQueued
    BY Zenon
  <2> QED BY <1>0, <2>1, InvStep, Zenon DEF LimitsInv
<1>2. /\ msgs_out \in Data(Msg) /\ OthersOK /\ Limits(msgs_out, live, live)
      /\ NoProbes => mode = "normal" /\ ~msgs_out.probing
      /\ OnlyAcknowledged => expired = {}
      /\ ~ClientRefuses => \A i \in DOMAIN in_packets : in_packets[i].type # "PUBREC_FAIL"
      /\ in_packets \in Seq(Ack) /\ msgs_out \in MsgData
  BY Zenon DEF LimitsInv, Quiet, Inv, OthersOK, Data
\* It is enough that the limits, the mode and the packets are kept.
<1> DEFINE Kept == /\ Limits(msgs_out', sock' # "closed", sock' # "closed")
                   /\ NoProbes => mode' = "normal" /\ ~msgs_out'.probing
                   /\ OnlyAcknowledged => expired' = {}
                   /\ ~ClientRefuses =>
                        \A i \in DOMAIN in_packets' : in_packets'[i].type # "PUBREC_FAIL"
<1>3. SUFFICES Kept
  BY <1>1, Zenon DEF LimitsInv, Quiet
<1>4. ASSUME in_packets' = in_packets \/ in_packets' = <<>>
             \/ (in_packets # <<>> /\ in_packets' = Tail(in_packets))
      PROVE  ~ClientRefuses =>
               \A i \in DOMAIN in_packets' : in_packets'[i].type # "PUBREC_FAIL"
  <2>1. CASE in_packets' = in_packets
    BY <1>2, <2>1, Zenon
  <2>2. CASE in_packets' = <<>>
    BY <2>2
  <2>3. CASE in_packets # <<>> /\ in_packets' = Tail(in_packets)
    <3>1. \A i \in DOMAIN Tail(in_packets) :
            i + 1 \in DOMAIN in_packets /\ Tail(in_packets)[i] = in_packets[i + 1]
      BY <1>2, <2>3
    <3> QED BY <1>2, <2>3, <3>1, Zenon
  <2> QED BY <1>4, <2>1, <2>2, <2>3, Zenon
<1>5. NoProbes => ModeAtInsert = "normal"
  BY <1>2, Zenon DEF ModeAtInsert
<1>6. ASSUME NEW kind \in Kinds, NEW place, Offer(NewMsg(kind), place)
      PROVE  /\ expired' = expired /\ NewMsg(kind) \in Msg
             /\ NoProbes => mode' = "normal"
  <2>1. expired' = expired /\ offered < MaxMsgs
          /\ mode' = IF sock = "closed" THEN mode ELSE ModeAtInsert
    BY <1>6, Zenon DEF Offer
  <2> QED BY <1>2, <1>5, <2>1, NewMsgType, Zenon
<1>a. ASSUME NEW kind \in PublishKinds, NEW full \in BOOLEAN, Publish(kind, full)
      PROVE  Kept
  <2> DEFINE m     == NewMsg(kind)
             md    == ModeAtInsert
             place == Place(msgs_out, m, md, sock, full)
             e     == Enlist(msgs_out, m, place)
             f     == Update(e, md, sock)
  <2>1. kind \in Kinds
    BY Zenon DEF Kinds
  <2>2. /\ Offer(m, place)
        /\ msgs_out' = IF place = "dropped" THEN msgs_out ELSE f
        /\ sock' = sock /\ in_packets' = in_packets
    BY <1>a, Zenon DEF Publish, Leave, linkVars
  <2>3. /\ expired' = expired /\ m \in Msg /\ (NoProbes => mode' = "normal")
        /\ m.age = 0
    <3>1. offered < MaxMsgs
      BY <2>2, Zenon DEF Offer
    <3> HIDE DEF place
    <3> QED BY <1>2, <1>6, <2>1, <2>2, <3>1, NewMsgType, Zenon
  <2> HIDE DEF m, md
  <2>4. place \in {"inflight", "queued", "dropped"}
    BY <1>5, <2>3, NotStored, Zenon DEF md
  <2>5. CASE place = "dropped"
    <3> HIDE DEF f, place
    <3>1. msgs_out' = msgs_out
      BY <2>2, <2>5, Zenon
    <3> QED BY <1>2, <1>4, <2>2, <2>3, <3>1, Zenon
  <2>6. CASE place # "dropped"
    <3>1. e \in Data(Msg)
      <4> HIDE DEF place
      <4> QED BY <1>0, <1>2, <2>3, EnlistType, Zenon
    <3>2. Limits(e, live, live)
      BY <1>2, <2>3, <2>4, <2>6, EnlistLimits, Zenon
    <3>3. e.probing = msgs_out.probing
      <4>1. PICK p \in {"inflight", "queued"} : p = place
        BY <2>4, <2>6, Zenon
      <4> HIDE DEF place
      <4> QED BY <1>2, <2>3, <4>1, EnlistEffect, Zenon
    <3> HIDE DEF e, place
    <3>4. Limits(f, live, live) /\ (NoProbes => f.probing = e.probing)
      BY <1>2, <3>1, <3>2, UpdateLimits, Zenon
    <3>5. msgs_out' = f
      BY <2>2, <2>6, Zenon
    <3> HIDE DEF f
    <3> QED BY <1>2, <1>4, <2>2, <2>3, <3>3, <3>4, <3>5, Zenon
  <2> QED BY <2>5, <2>6, Zenon
<1>b. ASSUME NEW kind \in RetainedKinds, NEW full \in BOOLEAN, NEW blocked \in BOOLEAN,
             SubscribeRetained(kind, full, blocked)
      PROVE  Kept
  <2> DEFINE m     == NewMsg(kind)
             md    == ModeAtInsert
             place == Place(msgs_out, m, md, sock, full)
             e     == Enlist(msgs_out, m, place)
  <2>1. kind \in Kinds
    BY Zenon DEF Kinds
  <2>2. Offer(m, place) /\ FinishSubscribe(e, blocked)
    BY <1>b, Zenon DEF SubscribeRetained
  <2>3. /\ expired' = expired /\ m \in Msg /\ (NoProbes => mode' = "normal")
        /\ m.age = 0
    <3>1. offered < MaxMsgs
      BY <2>2, Zenon DEF Offer
    <3> HIDE DEF place
    <3> QED BY <1>2, <1>6, <2>1, <2>2, <3>1, NewMsgType, Zenon
  <2> HIDE DEF m, md
  <2>4. place \in {"inflight", "queued", "dropped"}
    BY <1>5, <2>3, NotStored, Zenon DEF md
  <2>5. e \in Data(Msg)
    <3> HIDE DEF place
    <3> QED BY <1>0, <1>2, <2>3, EnlistType, Zenon
  <2>6. Limits(e, live, live) /\ e.probing = msgs_out.probing
    <3>1. CASE place = "dropped"
      <4>1. e = msgs_out
        <5> HIDE DEF place
        <5> QED BY <3>1, Zenon DEF Enlist
      <4> HIDE DEF e
      <4> QED BY <1>2, <4>1, Zenon
    <3>2. CASE place # "dropped"
      <4>1. Limits(e, live, live)
        BY <1>2, <2>3, <2>4, <3>2, EnlistLimits, Zenon
      <4>2. PICK p \in {"inflight", "queued"} : p = place
        BY <2>4, <3>2, Zenon
      <4> HIDE DEF place
      <4>3. e.probing = msgs_out.probing
        BY <1>2, <2>3, <4>2, EnlistEffect, Zenon
      <4> QED BY <4>1, <4>3, Zenon
    <3> QED BY <3>1, <3>2, Zenon
  <2> HIDE DEF e
  <2>7. /\ Limits(msgs_out', sock' # "closed", sock' # "closed")
        /\ NoProbes => msgs_out'.probing = e.probing
        /\ in_packets' = in_packets \/ in_packets' = <<>>
    BY <1>2, <2>2, <2>5, <2>6, FinishSubscribeLimits, Zenon
  <2> QED BY <1>2, <1>4, <2>3, <2>6, <2>7, Zenon
<1>c. ASSUME NEW blocked \in BOOLEAN, Subscribe(blocked)
      PROVE  Kept
  <2>1. FinishSubscribe(msgs_out, blocked) /\ mode' = mode /\ expired' = expired
    BY <1>c, Zenon DEF Subscribe, modeVars
  <2>2. /\ Limits(msgs_out', sock' # "closed", sock' # "closed")
        /\ NoProbes => msgs_out'.probing = msgs_out.probing
        /\ in_packets' = in_packets \/ in_packets' = <<>>
    BY <1>2, <2>1, FinishSubscribeLimits, Zenon
  <2> QED BY <1>2, <1>4, <2>1, <2>2, Zenon
<1>e. CASE UnsubscribeLatency
  <2>1. /\ msgs_out' = msgs_out /\ sock' = sock /\ in_packets' = in_packets
        /\ mode' = "normal" /\ expired' = expired
    BY <1>e, Zenon DEF UnsubscribeLatency, linkVars
  <2> QED BY <1>2, <1>4, <2>1, Zenon
<1>g. ASSUME NEW type, Receives(type)
      PROVE  /\ sock # "closed" /\ in_packets # <<>> /\ Limits(msgs_out, TRUE, TRUE)
             /\ \E i \in DOMAIN in_packets : in_packets[i].type = type
  <2>1. sock # "closed" /\ in_packets # <<>> /\ Head(in_packets).type = type
    BY <1>g, Zenon DEF Receives
  <2>2. 1 \in DOMAIN in_packets /\ Head(in_packets) = in_packets[1]
    BY <1>2, <2>1
  <2> QED BY <1>2, <2>1, <2>2, Zenon
<1>i. ASSUME NEW verdict \in {"normal", "slow"}, HandlePuback(verdict)
      PROVE  Kept
  <2> DEFINE d == util__increment_send_quota(msgs_out)
             w == db__message_write_storage_out(d, verdict)
             written == [w EXCEPT !.probing = FALSE]
             e == IF msgs_out.probing THEN written ELSE d
  <2>1. /\ Receives("PUBACK")
        /\ db__message_delete_outgoing(e, Head(in_packets).mid, "wait_for_pubcomp", 1)
        /\ ~msgs_out.probing => mode' = mode
        /\ expired' = expired
    BY <1>i, ZenonT(40) DEF HandlePuback, modeVars
  <2>2. sock # "closed" /\ in_packets # <<>> /\ Limits(msgs_out, TRUE, TRUE)
    BY <1>g, <2>1, Zenon
  <2>3. /\ d \in Data(Msg) /\ Limits(d, TRUE, TRUE)
        /\ QuotaIsReturned => Credited(d)
        /\ d.probing = msgs_out.probing
    BY <1>2, <2>2, IncrementLimits, Zenon
  <2> HIDE DEF d
  <2>4. w = d
    BY <2>3, WriteNoStorage, Zenon DEF Limits
  <2>5. /\ written \in Data(Msg) /\ Limits(written, TRUE, TRUE)
        /\ QuotaIsReturned => Credited(written)
    <3>1. written = [d EXCEPT !.probing = FALSE] /\ d \in MsgData
      BY <2>3, <2>4, Zenon DEF Data
    <3> HIDE DEF written, w
    <3>2. written \in Data(Msg)
      BY <2>3, <3>1, Zenon DEF Data, MsgData
    <3>3. /\ written.inflight = d.inflight /\ written.queued = d.queued
          /\ written.storage = d.storage /\ written.inflight_quota = d.inflight_quota
          /\ written.msg_count12 = d.msg_count12
      BY <3>1, Zenon DEF MsgData
    <3>4. Limits(written, TRUE, TRUE)
      BY <2>3, <3>3, SameLimits, Zenon
    <3>5. QuotaIsReturned => Credited(written)
      BY <2>3, <3>3, Zenon DEF Credited, InflightCount
    <3> QED BY <3>2, <3>4, <3>5, Zenon
  <2> HIDE DEF written
  <2>6. /\ e \in Data(Msg) /\ Limits(e, TRUE, TRUE)
        /\ QuotaIsReturned => Credited(e)
        /\ NoProbes => ~e.probing
    BY <1>2, <2>3, <2>5, Zenon
  <2> HIDE DEF e
  <2>7. /\ Limits(msgs_out', sock' # "closed", sock' # "closed")
        /\ NoProbes => msgs_out'.probing = e.probing
        /\ in_packets' = Tail(in_packets) \/ in_packets' = <<>>
    BY <1>2, <2>1, <2>2, <2>6, DeleteOutgoingLimits, Zenon
  <2> QED BY <1>2, <1>4, <2>1, <2>2, <2>6, <2>7, Zenon
<1>j. CASE HandlePubcomp
  <2> DEFINE d == util__increment_send_quota(msgs_out)
  <2>1. /\ Receives("PUBCOMP")
        /\ db__message_delete_outgoing(d, Head(in_packets).mid, "wait_for_pubcomp", 2)
        /\ mode' = mode /\ expired' = expired
    BY <1>j, Zenon DEF HandlePubcomp, modeVars
  <2>2. sock # "closed" /\ in_packets # <<>> /\ Limits(msgs_out, TRUE, TRUE)
    BY <1>g, <2>1, Zenon
  <2>3. /\ d \in Data(Msg) /\ Limits(d, TRUE, TRUE)
        /\ QuotaIsReturned => Credited(d)
        /\ d.probing = msgs_out.probing
    BY <1>2, <2>2, IncrementLimits, Zenon
  <2> HIDE DEF d
  <2>4. /\ Limits(msgs_out', sock' # "closed", sock' # "closed")
        /\ NoProbes => msgs_out'.probing = d.probing
        /\ in_packets' = Tail(in_packets) \/ in_packets' = <<>>
    BY <1>2, <2>1, <2>2, <2>3, DeleteOutgoingLimits, Zenon
  <2> QED BY <1>2, <1>4, <2>1, <2>2, <2>3, <2>4, Zenon
<1>h. CASE HandlePubrecFail
  <2>1. /\ Receives("PUBREC_FAIL")
        /\ db__message_delete_outgoing(msgs_out, Head(in_packets).mid, "wait_for_pubrec", 2)
        /\ mode' = mode /\ expired' = expired
    BY <1>h, Zenon DEF HandlePubrecFail, modeVars
  <2>2. sock # "closed" /\ in_packets # <<>> /\ Limits(msgs_out, TRUE, TRUE)
    BY <1>g, <2>1, Zenon
  <2>3. ~QuotaIsReturned
    BY <1>2, <1>g, <2>1, Zenon DEF QuotaIsReturned
  <2>4. /\ Limits(msgs_out', sock' # "closed", sock' # "closed")
        /\ NoProbes => msgs_out'.probing = msgs_out.probing
        /\ in_packets' = Tail(in_packets) \/ in_packets' = <<>>
    BY <1>2, <2>1, <2>2, <2>3, DeleteOutgoingLimits, Zenon
  <2> QED BY <1>2, <1>4, <2>1, <2>2, <2>4, Zenon
<1>k. CASE HandlePubrec
  <2> DEFINE a       == Head(in_packets)
             l       == msgs_out.inflight
             i       == Find(l, a.mid)
             updated == IF i = 0 THEN msgs_out
                        ELSE [msgs_out EXCEPT !.inflight[i].state = "wait_for_pubcomp"]
             pubrel  == [type |-> "PUBREL", id |-> a.id, mid |-> a.mid,
                         qos |-> 2, dup |-> FALSE]
             sent    == [updated EXCEPT !.out = Append(updated.out, pubrel)]
  <2>1. /\ Receives("PUBREC")
        /\ \/ Close(msgs_out)
           \/ Close(updated)
           \/ msgs_out' = sent /\ in_packets' = Tail(in_packets) /\ sock' = sock
        /\ mode' = mode /\ expired' = expired
    BY <1>k, SMTT(30) DEF HandlePubrec, modeVars
  <2>2. sock # "closed" /\ in_packets # <<>> /\ Limits(msgs_out, TRUE, TRUE)
    BY <1>g, <2>1, Zenon
  <2>3. l \in Seq(Msg) /\ Len(l) \in Nat /\ DOMAIN l = 1..Len(l)
    <3>1. l \in Seq(Msg)
      BY <1>0, <1>2, DataFields, Zenon
    <3> HIDE DEF l
    <3> QED BY <3>1
  <2>4. i = 0 \/ i \in DOMAIN l
    BY <2>3, FindType, Zenon
  <2> HIDE DEF i, pubrel
  <2>5. /\ updated \in Data(Msg) /\ Limits(updated, TRUE, TRUE)
        /\ updated.probing = msgs_out.probing
    <3>1. CASE i = 0
      BY <1>2, <2>2, <3>1, Zenon
    <3>2. CASE i # 0
      <4> DEFINE x == [l[i] EXCEPT !.state = "wait_for_pubcomp"]
                 y == [l EXCEPT ![i] = x]
      <4>1. updated = [msgs_out EXCEPT !.inflight = y]
        BY <3>2, Zenon
      <4>2. l[i] \in Msg /\ i \in 1..Len(l)
        BY <2>3, <2>4, <3>2
      <4>3. x \in Msg /\ x.kind = l[i].kind
        <5>1. "wait_for_pubcomp" \in States
          BY Zenon DEF States
        <5>2. PICK o : o = l[i]
          BY Zenon
        <5>3. o \in Msg
          BY <4>2, <5>2, Zenon
        <5>4. /\ [o EXCEPT !.state = "wait_for_pubcomp"] \in Msg
              /\ [o EXCEPT !.state = "wait_for_pubcomp"].kind = o.kind
          BY <5>1, <5>3, Zenon DEF Msg
        <5> QED BY <5>2, <5>4, Zenon
      <4> HIDE DEF x, updated
      <4>4. y \in Seq(Msg) /\ Len(y) = Len(l) /\ \A j \in 1..Len(l) : y[j].kind = l[j].kind
        BY <2>3, <4>2, <4>3
      <4> HIDE DEF y
      <4>5. N12(y) = N12(l)
        BY <2>3, <4>4, N12Same, Zenon
      <4>6. updated \in Data(Msg)
        BY <1>2, <4>1, <4>4, Zenon DEF Data, MsgData
      <4>7. /\ updated.inflight = y /\ updated.queued = msgs_out.queued
            /\ updated.storage = msgs_out.storage /\ updated.probing = msgs_out.probing
            /\ updated.inflight_quota = msgs_out.inflight_quota
            /\ updated.msg_count12 = msgs_out.msg_count12
        BY <1>2, <4>1, Zenon DEF MsgData
      <4>8. /\ InflightCount(updated) = InflightCount(msgs_out)
            /\ QueuedCount(updated) = QueuedCount(msgs_out)
        BY <4>5, <4>7, Zenon DEF InflightCount, QueuedCount
      <4>9. (Balanced(msgs_out) => Balanced(updated)) /\ (Flowing(msgs_out) => Flowing(updated))
        BY <4>7, <4>8, Zenon DEF Balanced, Flowing
      <4>10. Limits(updated, TRUE, TRUE)
        BY <2>2, <4>7, <4>8, <4>9, Zenon DEF Limits
      <4> QED BY <4>6, <4>7, <4>10, Zenon
    <3> QED BY <3>1, <3>2, Zenon
  <2> HIDE DEF updated
  <2>6. Limits(sent, TRUE, TRUE) /\ sent.probing = updated.probing
    <3> DEFINE o == Append(updated.out, pubrel)
    <3>1. sent = [updated EXCEPT !.out = o] /\ updated \in MsgData
      BY <2>5, Zenon DEF Data
    <3> HIDE DEF o, sent
    <3>2. /\ sent.inflight = updated.inflight /\ sent.queued = updated.queued
          /\ sent.storage = updated.storage /\ sent.probing = updated.probing
          /\ sent.inflight_quota = updated.inflight_quota
          /\ sent.msg_count12 = updated.msg_count12
      BY <3>1, Zenon DEF MsgData
    <3> QED BY <2>5, <3>2, SameLimits, Zenon
  <2> HIDE DEF sent
  <2>7. CASE Close(msgs_out)
    <3>1. /\ Limits(msgs_out', FALSE, FALSE) /\ sock' = "closed"
          /\ in_packets' = <<>> /\ msgs_out'.probing = msgs_out.probing
      BY <1>2, <2>2, <2>7, CloseLimits, Zenon
    <3> QED BY <1>2, <1>4, <2>1, <3>1, Zenon
  <2>8. CASE Close(updated)
    <3>1. /\ Limits(msgs_out', FALSE, FALSE) /\ sock' = "closed"
          /\ in_packets' = <<>> /\ msgs_out'.probing = updated.probing
      BY <2>5, <2>8, CloseLimits, Zenon
    <3> QED BY <1>2, <1>4, <2>1, <2>5, <3>1, Zenon
  <2>9. CASE msgs_out' = sent /\ in_packets' = Tail(in_packets) /\ sock' = sock
    BY <1>2, <1>4, <2>1, <2>2, <2>5, <2>6, <2>9, Zenon
  <2> QED BY <2>1, <2>7, <2>8, <2>9, Zenon
<1>l. CASE Break
  <2>1. /\ sock = "up" /\ sock' = "broken" /\ msgs_out' = msgs_out
        /\ in_packets' = in_packets /\ mode' = mode /\ expired' = expired
    BY <1>l, Zenon DEF Break, modeVars
  <2> QED BY <1>2, <1>4, <2>1, Zenon
<1>m. CASE Disconnect
  <2>1. Close(msgs_out) /\ mode' = mode /\ expired' = expired
    BY <1>m, Zenon DEF Disconnect, modeVars
  <2>2. /\ Limits(msgs_out', FALSE, FALSE) /\ sock' = "closed"
        /\ in_packets' = <<>> /\ msgs_out'.probing = msgs_out.probing
    BY <1>2, <2>1, CloseLimits, Zenon
  <2> QED BY <1>2, <1>4, <2>1, <2>2, Zenon
<1>n. ASSUME NEW inbound \in BOOLEAN, Reconnect(inbound)
      PROVE  Kept
  <2> DEFINE none  == <<>>
             old   == [msgs_out EXCEPT !.out = none, !.probing = FALSE]
             taken == IF HasMessages(old, inbound)
                      THEN db__message_reconnect_reset_outgoing(old)
                      ELSE FreshMsgData
             f     == db__message_write_queued_out(taken)
             g     == db__message_write_inflight_out_all(f, "up")
  <2>1. /\ sock' = "up" /\ in_packets' = <<>> /\ msgs_out' = g
        /\ mode' = "normal" /\ expired' = expired
    BY <1>n, Zenon DEF Reconnect
  <2>2. none \in Seq(Packet)
    OBVIOUS
  <2> HIDE DEF none
  <2>3. old \in Data(Msg)
    BY <1>2, <2>2, Zenon DEF Data, MsgData
  <2>4. /\ old.inflight = msgs_out.inflight /\ old.queued = msgs_out.queued
        /\ old.storage = msgs_out.storage /\ old.probing = FALSE
        /\ old.inflight_quota = msgs_out.inflight_quota
        /\ old.msg_count12 = msgs_out.msg_count12
    BY <1>2, Zenon DEF MsgData
  <2> HIDE DEF old
  <2>5. Limits(old, live, live)
    BY <1>2, <2>4, SameLimits, Zenon
  <2>6. taken \in Data(Msg) /\ Limits(taken, TRUE, FALSE) /\ ~taken.probing
    <3>1. CASE HasMessages(old, inbound)
      <4>1. db__message_reconnect_reset_outgoing(old) \in Data(Msg)
        BY <1>0, <2>3, ResetType, Zenon
      <4> QED BY <2>3, <2>4, <2>5, <3>1, <4>1, ResetLimits, Zenon
    <3>2. CASE ~HasMessages(old, inbound)
      <4>1. Limits(FreshMsgData, TRUE, FALSE)
        BY FreshLimits, Zenon DEF Limits
      <4> QED BY <1>0, <3>2, <4>1, FreshType, FreshLimits, Zenon
    <3> QED BY <3>1, <3>2, Zenon
  <2> HIDE DEF taken
  <2>7. f \in Data(Msg) /\ Limits(f, TRUE, TRUE) /\ ~f.probing
    BY <2>6, WriteQueuedLimits, Zenon
  <2> HIDE DEF f
  <2>8. Limits(g, TRUE, TRUE) /\ (NoProbes => ~g.probing)
    <3>1. OnlyAcknowledged => expired = {}
      BY <1>2, Zenon
    <3>2. Limits(g, TRUE, TRUE) /\ (NoProbes => g.probing = f.probing)
      BY <2>7, <3>1, WriteInflightLimits, Zenon
    <3> QED BY <2>7, <3>2, Zenon
  <2> HIDE DEF g
  <2> QED BY <1>2, <1>4, <2>1, <2>8, Zenon
<1>o. CASE ClientReceive
  <2> DEFINE p == Head(msgs_out.out)
             o == Tail(msgs_out.out)
  <2>1. /\ msgs_out' = [msgs_out EXCEPT !.out = o]
        /\ sock' = sock /\ mode' = mode /\ expired' = expired
    BY <1>o, Zenon DEF ClientReceive, modeVars
  <2>2. \/ in_packets' = in_packets
        \/ \E t \in {"PUBACK", "PUBREC", "PUBCOMP"} : Answer(t, p)
        \/ ClientRefuses
    BY <1>o, Zenon DEF ClientReceive
  <2> HIDE DEF o, p
  <2>3. PICK e : e = [msgs_out EXCEPT !.out = o]
    BY Zenon
  <2>4. /\ e.inflight = msgs_out.inflight /\ e.queued = msgs_out.queued
        /\ e.storage = msgs_out.storage /\ e.probing = msgs_out.probing
        /\ e.inflight_quota = msgs_out.inflight_quota
        /\ e.msg_count12 = msgs_out.msg_count12
    BY <1>2, <2>3, Zenon DEF MsgData
  <2>5. Limits(e, live, live)
    BY <1>2, <2>4, SameLimits, Zenon
  <2>6. ASSUME ~ClientRefuses
        PROVE  \A i \in DOMAIN in_packets' : in_packets'[i].type # "PUBREC_FAIL"
    <3>1. CASE in_packets' = in_packets
      BY <1>2, <2>6, <3>1, Zenon
    <3>2. ASSUME NEW t \in {"PUBACK", "PUBREC", "PUBCOMP"}, Answer(t, p)
          PROVE  \A i \in DOMAIN in_packets' : in_packets'[i].type # "PUBREC_FAIL"
      <4> DEFINE a == [type |-> t, id |-> p.id, mid |-> p.mid]
      <4>1. a.type # "PUBREC_FAIL"
        BY Zenon
      <4>2. in_packets' = Append(in_packets, a)
        BY <3>2, Zenon DEF Answer
      <4> HIDE DEF a
      <4>3. \A i \in DOMAIN Append(in_packets, a) :
              \/ i \in DOMAIN in_packets /\ Append(in_packets, a)[i] = in_packets[i]
              \/ Append(in_packets, a)[i] = a
        BY <1>2
      <4> QED BY <1>2, <2>6, <4>1, <4>2, <4>3, Zenon
    <3> QED BY <2>2, <2>6, <3>1, <3>2, Zenon
  <2> QED BY <1>2, <2>1, <2>3, <2>4, <2>5, <2>6, Zenon
<1>p. CASE Expire
  <2>1. /\ \E m \in Held : m.kind.expires
        /\ UNCHANGED <<msgs_out, mode, sock, in_packets>>
    BY <1>p, Zenon DEF Expire, modeVars, linkVars
  <2>2. Held \subseteq Msg
    <3>1. msgs_out \in Data(Msg)
      BY <1>0, <1>2, Zenon
    <3>2. /\ msgs_out.inflight \in Seq(Msg) /\ msgs_out.queued \in Seq(Msg)
          /\ msgs_out.storage \in Seq(Msg)
      BY <1>0, <3>1, DataFields, Zenon
    <3>3. ASSUME NEW x \in Seq(Msg) PROVE Elements(x) \subseteq Msg
      BY DEF Elements
    <3> QED BY <3>2, <3>3, Zenon DEF Held
  <2>3. ~OnlyAcknowledged
    BY <2>1, <2>2, MsgFields, Zenon DEF OnlyAcknowledged
  <2> QED BY <1>2, <1>4, <2>1, <2>3, Zenon
<1>q. CASE Tick
  <2> DEFINE s     == msgs_out.storage
             older == [i \in DOMAIN s |-> Older(s[i])]
  <2>1. /\ msgs_out' = [msgs_out EXCEPT !.storage = older]
        /\ UNCHANGED <<mode, sock, in_packets, expired>>
    BY <1>q, Zenon DEF Tick, linkVars
  <2>2. older = s
    <3>1. s = <<>>
      BY <1>2, Zenon DEF Limits
    <3>2. ASSUME NEW S, S = {} PROVE [i \in S |-> Older(s[i])] = <<>>
      BY <3>2
    <3>3. DOMAIN s = {}
      BY <3>1
    <3> QED BY <3>1, <3>2, <3>3, Zenon
  <2> HIDE DEF older
  <2>3. PICK e : e = [msgs_out EXCEPT !.storage = older]
    BY Zenon
  <2>4. /\ e.inflight = msgs_out.inflight /\ e.queued = msgs_out.queued
        /\ e.storage = older /\ e.probing = msgs_out.probing
        /\ e.inflight_quota = msgs_out.inflight_quota
        /\ e.msg_count12 = msgs_out.msg_count12
    BY <1>2, <2>3, Zenon DEF MsgData
  <2>5. Limits(e, live, live)
    BY <1>2, <2>2, <2>4, SameLimits, Zenon
  <2> QED BY <1>2, <1>4, <2>1, <2>3, <2>4, <2>5, Zenon
<1>r. CASE UNCHANGED vars
  <2>1. UNCHANGED <<msgs_out, mode, sock, in_packets, expired>>
    BY <1>r, Zenon DEF vars, modeVars, linkVars
  <2> QED BY <1>2, <1>4, <2>1, Zenon
<1> HIDE DEF Kept
<1> QED BY <1>a, <1>b, <1>c, <1>e, <1>h, <1>i, <1>j, <1>k, <1>l, <1>m, <1>n, <1>o, <1>p,
           <1>q, <1>r, SMTT(30) DEF Next

\* The limits hold initially.
LEMMA LimitsInit ==
    ASSUME Counting, Init
    PROVE  LimitsInv
<1>1. Msg \in Inflights
  BY Zenon DEF Inflights
<1>2. Inv(Msg)
  BY <1>1, InvInit, Zenon
<1>3. /\ msgs_out = FreshMsgData /\ mode = "normal" /\ sock = "up" /\ expired = {}
      /\ in_packets = <<>>
  BY Zenon DEF Init
<1>4. \A i \in DOMAIN in_packets : in_packets[i].type # "PUBREC_FAIL"
  BY <1>3
<1>5. Limits(msgs_out, sock # "closed", sock # "closed")
  <2>1. (sock # "closed") = TRUE
    BY <1>3, Zenon
  <2> QED BY <1>3, <2>1, FreshLimits, Zenon
<1>6. Quiet
  BY <1>3, <1>4, FreshLimits, Zenon DEF Quiet
<1> QED BY <1>2, <1>5, <1>6, Zenon DEF LimitsInv

-----------------------------------------------------------------------------
(* The book of the messages offered so far                                 *)

\* The QoS 1 and 2 messages that the broker accepted and has no reason to discard.
Owed ==
    {x \in 1..MaxMsgs : delivered[x] = 0 /\
       \E a \in accepted : a.id = x /\ a.kind.qos # 0 /\ ~Excused(a)}

\* The book of the current state; name gives the identifier and the kind of each
\* message offered so far, keep says whether the broker must hold what it owes.
BookOf(name, keep) ==
    [name |-> name,
     got |-> {x \in 1..MaxMsgs : delivered[x] > 0},
     open |-> {x \in DOMAIN name : name[x].mid \in unreleased},
     refused |-> refused,
     owed |-> IF keep THEN Owed ELSE {}]

\* What holds of the messages offered so far outside the broker's lists.
Ledger(name) ==
    /\ name \in [1..offered -> [mid: 0..MaxMid, kind: Kinds]]
    /\ Naming(name)
    /\ last_mid <= offered
    /\ unreleased \subseteq 1..last_mid
    /\ \A x \in 1..offered : name[x].mid <= last_mid
    /\ \A x \in 1..MaxMsgs : x > offered => delivered[x] = 0
    /\ \A x \in 1..offered : name[x].kind.qos = 2 => delivered[x] <= 1
    /\ \A x \in 1..offered : name[x].mid \in unreleased => delivered[x] > 0
    /\ \A a \in accepted : a.id \in 1..offered /\ a.kind = name[a.id].kind

\* The broker owes no message that it may discard.
LEMMA OwedRight ==
    ASSUME NEW name, OthersOK, Ledger(name), NEW keep
    PROVE  OwedOK(BookOf(name, keep)) /\ Naming(BookOf(name, keep).name)
<1> DEFINE B == BookOf(name, keep)
<1>1. /\ B.name = name /\ B.got = {x \in 1..MaxMsgs : delivered[x] > 0}
      /\ B.refused = refused /\ B.owed \subseteq Owed
  BY SMTT(20) DEF BookOf
<1> HIDE DEF B
<1>2. ASSUME NEW x \in Owed
      PROVE  /\ x \in DOMAIN name /\ x \notin B.got \cup B.refused \cup expired
             /\ name[x].kind.qos # 0 /\ ~name[x].kind.oversize
  <2>1. PICK a \in accepted : a.id = x /\ a.kind.qos # 0 /\ ~Excused(a)
    BY <1>2, Zenon DEF Owed
  <2>2. x \in DOMAIN name /\ a.kind = name[x].kind
    BY <2>1, Zenon DEF Ledger
  <2>3. delivered[x] = 0
    BY <1>2, Zenon DEF Owed
  <2>4. x \notin B.got
    BY <1>1, <2>3, SMTT(20)
  <2> QED BY <1>1, <2>1, <2>2, <2>4, Zenon DEF Excused
<1>3. Naming(name)
  BY SMTT(20) DEF Ledger
<1> QED BY <1>1, <1>2, <1>3, Zenon DEF OwedOK, B

\* When the bookkeeping is not touched, the book stays.
LEMMA SameBook ==
    ASSUME NEW name, Ledger(name), NEW keep,
           UNCHANGED <<expired, last_mid, offered, accepted, delivered, refused, unreleased>>
    PROVE  Ledger(name)' /\ BookOf(name, keep)' = BookOf(name, keep)
<1>1. Ledger(name)'
  BY SMTT(20) DEF Ledger
<1>2. Owed' = Owed
  BY Zenon DEF Owed, Excused
<1> QED BY <1>1, <1>2, SMTT(20) DEF BookOf

\* The names with that of a new message m.
WithName(name, m) ==
    [x \in 1..(offered + 1) |->
       IF x = offered + 1 THEN [mid |-> m.mid, kind |-> m.kind] ELSE name[x]]

\* db__message_insert gives a new message a name that none had before.
LEMMA NewName ==
    ASSUME NoWrap, NEW name, OthersOK, Ledger(name), NEW kind \in Kinds,
           NEW place, Offer(NewMsg(kind), place),
           NEW more, more = WithName(name, NewMsg(kind))
    PROVE  LET m == NewMsg(kind)
               k == offered + 1
           IN  /\ m \in Msg /\ m.age = 0 /\ m.state = "queued" /\ m.kind = kind /\ m.id = k
               /\ m.mid \notin unreleased
               /\ last_mid' \in Nat /\ last_mid <= last_mid' /\ m.mid <= last_mid'
               /\ last_mid' <= k
               /\ k \in 1..MaxMsgs /\ k > offered /\ k \notin 1..offered
               /\ 1..k = (1..offered) \cup {k} /\ 1..offered \subseteq 1..MaxMsgs
               /\ DOMAIN more = 1..k /\ more[k].mid = m.mid /\ more[k].kind = kind
               /\ \A x \in 1..offered : more[x] = name[x] /\ x # k
               /\ more \in [1..k -> [mid: 0..MaxMid, kind: Kinds]] /\ Naming(more)
               /\ offered' = k
               /\ accepted' = IF place = "dropped" THEN accepted
                              ELSE accepted \cup {[id |-> m.id, kind |-> m.kind]}
               /\ expired' = expired /\ delivered' = delivered
               /\ refused' = refused /\ unreleased' = unreleased
<1> DEFINE m    == NewMsg(kind)
           pair == [mid |-> m.mid, kind |-> m.kind]
<1>1. /\ offered < MaxMsgs /\ offered' = offered + 1
      /\ last_mid' = IF m.kind.qos > 0 THEN m.mid ELSE last_mid
      /\ accepted' = IF place = "dropped" THEN accepted
                     ELSE accepted \cup {[id |-> m.id, kind |-> m.kind]}
      /\ UNCHANGED <<expired, delivered, refused, unreleased>>
  BY ZenonT(40) DEF Offer, clientVars
<1>2. /\ m \in Msg /\ m.age = 0 /\ m.state = "queued" /\ m.kind = kind /\ m.id = offered + 1
      /\ m.mid = IF kind.qos > 0 THEN mosquitto__mid_generate ELSE 0
  BY <1>1, NewMsgType, Zenon DEF NewMsg
<1>3. /\ offered \in Nat /\ last_mid \in Nat /\ MaxMsgs \in Nat /\ MaxMid \in Nat
      /\ last_mid <= offered /\ MaxMsgs <= MaxMid
  BY ConstantsAssumption, SMTT(20) DEF OthersOK, Ledger, NoWrap
<1>4. mosquitto__mid_generate = last_mid + 1
  BY <1>1, <1>3 DEF mosquitto__mid_generate
<1>5. /\ name \in [1..offered -> [mid: 0..MaxMid, kind: Kinds]] /\ Naming(name)
      /\ unreleased \subseteq 1..last_mid
      /\ \A x \in 1..offered : name[x].mid <= last_mid
  BY Zenon DEF Ledger
<1>6. kind.qos \in 0..2
  BY KindFields, SMTT(20)
<1>7. /\ m.mid \in 0..MaxMid /\ m.kind \in Kinds /\ m.mid \notin unreleased
      /\ m.mid = 0 <=> kind.qos = 0
      /\ m.mid # 0 => m.mid = last_mid + 1
      /\ last_mid' \in Nat /\ last_mid <= last_mid' /\ m.mid <= last_mid'
      /\ last_mid' <= offered + 1
  <2>1. m.mid \in 0..MaxMid /\ m.kind \in Kinds
    BY <1>2, MsgFields, Zenon
  <2>2. m.mid = IF kind.qos > 0 THEN last_mid + 1 ELSE 0
    BY <1>2, <1>4, Zenon
  <2>3. last_mid' = IF kind.qos > 0 THEN m.mid ELSE last_mid
    BY <1>1, <1>2, Zenon
  <2>4. last_mid + 1 \notin unreleased /\ 0 \notin unreleased
    BY <1>3, <1>5
  <2> HIDE DEF m
  <2> QED BY <1>3, <1>6, <2>1, <2>2, <2>3, <2>4, SMTT(20)
<1>8. pair.mid = m.mid /\ pair.kind = kind /\ pair \in [mid: 0..MaxMid, kind: Kinds]
  BY <1>2, <1>7, Zenon
<1> HIDE DEF m, pair
<1> DEFINE k == offered + 1
<1>9. /\ k \in Nat /\ k \in 1..MaxMsgs /\ k \notin 1..offered /\ k > offered
      /\ 1..k = (1..offered) \cup {k} /\ 1..offered \subseteq 1..MaxMsgs
  BY <1>1, <1>3, SMTT(20)
<1>10. /\ DOMAIN more = 1..k /\ more[k] = pair
       /\ \A x \in 1..offered : more[x] = name[x] /\ x # k
       /\ more \in [1..k -> [mid: 0..MaxMid, kind: Kinds]]
  <2>1. more = [x \in 1..k |-> IF x = k THEN pair ELSE name[x]]
    BY Zenon DEF WithName, m, pair, k
  <2> QED BY <1>5, <1>8, <1>9, <2>1, Zenon
<1>11. offered' = k
  BY <1>1, Zenon
<1> HIDE DEF k
<1>12. ASSUME NEW x \in 1..k PROVE x = k \/ x \in 1..offered
  BY <1>9, Zenon
<1>13. Naming(more)
  <2>1. ASSUME NEW x \in DOMAIN more PROVE more[x].mid = 0 <=> more[x].kind.qos = 0
    BY <1>5, <1>7, <1>8, <1>10, <1>12 DEF Naming
  <2>2. ASSUME NEW x \in 1..offered, more[x].mid = more[k].mid, more[x].mid # 0 PROVE FALSE
    <3>1. name[x].mid = m.mid /\ name[x].mid # 0 /\ name[x].mid <= last_mid
      BY <1>5, <1>8, <1>10, <2>2, Zenon
    <3> QED BY <1>3, <1>7, <3>1
  <2>3. ASSUME NEW x \in DOMAIN more, NEW y \in DOMAIN more,
               more[x].mid = more[y].mid, more[x].mid # 0
        PROVE  x = y
    <3>1. CASE x \in 1..offered /\ y \in 1..offered
      BY <1>5, <1>10, <2>3, <3>1, Zenon DEF Naming
    <3> QED BY <1>10, <1>12, <2>2, <2>3, <3>1, SMTT(20)
  <2> QED BY <2>1, <2>3, Zenon DEF Naming
<1>14. more[k].mid = m.mid /\ more[k].kind = kind
  BY <1>8, <1>10, Zenon
<1>15. m.id = k
  BY <1>2, Zenon DEF k
<1>16. last_mid' <= k
  BY <1>7, Zenon DEF k
<1> QED BY <1>1, <1>2, <1>7, <1>9, <1>10, <1>11, <1>13, <1>14, <1>15, <1>16, Zenon DEF m, k

\* The book stays in order when a message is offered.
LEMMA NewLedger ==
    ASSUME NoWrap, NEW name, OthersOK, Ledger(name), NEW kind \in Kinds,
           NEW place, Offer(NewMsg(kind), place),
           NEW more, more = WithName(name, NewMsg(kind))
    PROVE  Ledger(more)'
<1> DEFINE m == NewMsg(kind)
           k == offered + 1
<1>1. /\ m \in Msg /\ m.kind = kind /\ m.id = k /\ m.mid \notin unreleased
      /\ last_mid' \in Nat /\ last_mid <= last_mid' /\ m.mid <= last_mid'
      /\ last_mid' <= k
      /\ k \in 1..MaxMsgs /\ k > offered
  BY NewName, Zenon
<1>2. /\ 1..k = (1..offered) \cup {k} /\ 1..offered \subseteq 1..MaxMsgs
      /\ DOMAIN more = 1..k /\ more[k].mid = m.mid /\ more[k].kind = kind
      /\ \A x \in 1..offered : more[x] = name[x] /\ x # k
      /\ more \in [1..k -> [mid: 0..MaxMid, kind: Kinds]] /\ Naming(more)
  <2>1. 1..k = (1..offered) \cup {k} /\ 1..offered \subseteq 1..MaxMsgs
    BY NewName, Zenon
  <2>2. DOMAIN more = 1..k /\ more[k].mid = m.mid /\ more[k].kind = kind /\ Naming(more)
    BY NewName, SMTT(20)
  <2>3. \A x \in 1..offered : more[x] = name[x] /\ x # k
    BY NewName, SMTT(20)
  <2>4. more \in [1..k -> [mid: 0..MaxMid, kind: Kinds]]
    BY NewName, Zenon
  <2> QED BY <2>1, <2>2, <2>3, <2>4, Zenon
<1>3. /\ offered' = k
      /\ accepted' = IF place = "dropped" THEN accepted
                     ELSE accepted \cup {[id |-> m.id, kind |-> m.kind]}
      /\ expired' = expired /\ delivered' = delivered
      /\ refused' = refused /\ unreleased' = unreleased
  BY NewName, SMTT(20)
<1>4. offered \in Nat /\ last_mid \in Nat
  BY DEF OthersOK
<1>5. /\ unreleased \subseteq 1..last_mid
      /\ \A x \in 1..MaxMsgs : x > offered => delivered[x] = 0
      /\ \A x \in 1..offered : /\ name[x].mid \in 0..MaxMid /\ name[x].mid <= last_mid
                               /\ name[x].kind.qos = 2 => delivered[x] <= 1
                               /\ name[x].mid \in unreleased => delivered[x] > 0
      /\ \A a \in accepted : a.id \in 1..offered /\ a.kind = name[a.id].kind
  BY Zenon DEF Ledger
<1> HIDE DEF m, k
<1>6. ASSUME NEW x \in 1..MaxMsgs, x > k PROVE x > offered
  BY <1>1, <1>4, <1>6
<1>7. unreleased \subseteq 1..last_mid'
  BY <1>1, <1>4, <1>5
<1>8. ASSUME NEW a \in accepted' PROVE a.id \in 1..k /\ a.kind = more[a.id].kind
  <2>1. CASE a \in accepted
    BY <1>2, <1>5, <2>1, Zenon
  <2>2. CASE a = [id |-> m.id, kind |-> m.kind]
    BY <1>1, <1>2, <2>2, Zenon
  <2> QED BY <1>3, <1>8, <2>1, <2>2, Zenon
<1>9. ASSUME NEW x \in 1..k
      PROVE  /\ more[x].mid <= last_mid'
             /\ more[x].kind.qos = 2 => delivered[x] <= 1
             /\ more[x].mid \in unreleased => delivered[x] > 0
  <2>1. CASE x = k
    <3>1. more[x].mid <= last_mid' /\ more[x].mid \notin unreleased /\ delivered[x] = 0
      BY <1>1, <1>2, <1>5, <2>1, Zenon
    <3> QED BY <3>1
  <2>2. CASE x \in 1..offered
    <3>1. more[x] = name[x] /\ name[x].mid \in Nat /\ name[x].mid <= last_mid
      BY <1>2, <1>5, <2>2
    <3>2. name[x].mid <= last_mid'
      BY <1>1, <1>4, <3>1
    <3> QED BY <1>5, <2>2, <3>1, <3>2, Zenon
  <2> QED BY <1>2, <2>1, <2>2, Zenon
<1>10. /\ more \in [1..offered' -> [mid: 0..MaxMid, kind: Kinds]]
       /\ last_mid' <= offered' /\ unreleased' \subseteq 1..last_mid'
       /\ \A x \in 1..MaxMsgs : x > offered' => delivered'[x] = 0
  BY <1>1, <1>2, <1>3, <1>5, <1>6, <1>7, Zenon
<1>11. /\ \A x \in 1..offered' : more[x].mid <= last_mid'
       /\ \A x \in 1..offered' : more[x].kind.qos = 2 => delivered'[x] <= 1
       /\ \A x \in 1..offered' : more[x].mid \in unreleased' => delivered'[x] > 0
       /\ \A a \in accepted' : a.id \in 1..offered' /\ a.kind = more[a.id].kind
  BY <1>3, <1>8, <1>9, Zenon
<1> QED BY <1>2, <1>10, <1>11, ZenonT(40) DEF Ledger

\* A new message m, put in `place`, extends the book B to C.
Offered(m, place, B, C) ==
    /\ Extends(C, B) /\ OwedOK(C)
    /\ m \in Msg /\ m.age = 0 /\ m.state = "queued"
    /\ m.id \notin DOMAIN B.name /\ InBook(m, C) /\ m.kind = C.name[m.id].kind
    /\ m.id \notin C.got /\ C.owed \subseteq B.owed \cup {m.id}
    /\ place = "dropped" => C.owed \subseteq B.owed

\* What the book says of the other messages does not change when one is offered, and
\* only that one can be owed to the client in addition.
LEMMA OfferLedger ==
    ASSUME NoWrap, NEW name, OthersOK, Ledger(name), NEW keep, NEW kind \in Kinds,
           NEW place, Offer(NewMsg(kind), place),
           NEW more, more = WithName(name, NewMsg(kind))
    PROVE  /\ Ledger(more)'
           /\ Offered(NewMsg(kind), place, BookOf(name, keep), BookOf(more, keep)')
<1> DEFINE B == BookOf(name, keep)
           C == BookOf(more, keep)'
<1> DEFINE m == NewMsg(kind)
           k == offered + 1
<1>1. /\ m \in Msg /\ m.kind = kind /\ m.id = k /\ m.mid \notin unreleased
      /\ last_mid' \in Nat /\ last_mid <= last_mid' /\ m.mid <= last_mid'
      /\ last_mid' <= k
      /\ k \in 1..MaxMsgs /\ k > offered
  BY NewName, Zenon
<1>2. /\ 1..k = (1..offered) \cup {k} /\ 1..offered \subseteq 1..MaxMsgs
      /\ DOMAIN more = 1..k /\ more[k].mid = m.mid /\ more[k].kind = kind
      /\ \A x \in 1..offered : more[x] = name[x] /\ x # k
      /\ more \in [1..k -> [mid: 0..MaxMid, kind: Kinds]] /\ Naming(more)
  <2>1. 1..k = (1..offered) \cup {k} /\ 1..offered \subseteq 1..MaxMsgs
    BY NewName, Zenon
  <2>2. DOMAIN more = 1..k /\ more[k].mid = m.mid /\ more[k].kind = kind /\ Naming(more)
    BY NewName, SMTT(20)
  <2>3. \A x \in 1..offered : more[x] = name[x] /\ x # k
    BY NewName, SMTT(20)
  <2>4. more \in [1..k -> [mid: 0..MaxMid, kind: Kinds]]
    BY NewName, Zenon
  <2> QED BY <2>1, <2>2, <2>3, <2>4, Zenon
<1>3. /\ offered' = k
      /\ accepted' = IF place = "dropped" THEN accepted
                     ELSE accepted \cup {[id |-> m.id, kind |-> m.kind]}
      /\ expired' = expired /\ delivered' = delivered
      /\ refused' = refused /\ unreleased' = unreleased
  BY NewName, SMTT(20)
<1>4. offered \in Nat /\ last_mid \in Nat
  BY DEF OthersOK
<1>5. /\ B.name = name /\ B.got = {x \in 1..MaxMsgs : delivered[x] > 0}
      /\ B.open = {x \in DOMAIN name : name[x].mid \in unreleased}
      /\ B.refused = refused /\ B.owed = IF keep THEN Owed ELSE {}
  BY Zenon DEF BookOf
<1>6. /\ C.name = more /\ C.got = {x \in 1..MaxMsgs : delivered[x] > 0}
      /\ C.open = {x \in DOMAIN more : more[x].mid \in unreleased}
      /\ C.refused = refused /\ C.owed = IF keep THEN Owed' ELSE {}
  <2>1. C = [name |-> more,
             got |-> {x \in 1..MaxMsgs : delivered'[x] > 0},
             open |-> {x \in DOMAIN more : more[x].mid \in unreleased'},
             refused |-> refused',
             owed |-> IF keep THEN Owed' ELSE {}]
    BY Zenon DEF BookOf
  <2> HIDE DEF C
  <2> QED BY <1>3, <2>1, Zenon
<1> HIDE DEF B, C
<1> HIDE DEF B, C, m, k
<1>7. /\ DOMAIN name = 1..offered /\ \A x \in 1..MaxMsgs : x > offered => delivered[x] = 0
      /\ \A a \in accepted : a.id \in 1..offered /\ a.kind = name[a.id].kind
  BY Zenon DEF Ledger
<1>8. ASSUME NEW x \in 1..k PROVE x = k \/ x \in 1..offered
  BY <1>2, Zenon
<1>9. k \notin 1..offered
  BY <1>1, <1>4
<1>10. Extends(C, B)
  <2>1. C.open = B.open
    <3>1. ASSUME NEW x \in C.open PROVE x \in B.open
      <4>1. x \in 1..k /\ more[x].mid \in unreleased
        BY <1>2, <1>6, Zenon
      <4>2. x # k
        BY <1>1, <1>2, <4>1, Zenon
      <4> QED BY <1>2, <1>5, <1>7, <1>8, <4>1, <4>2, Zenon
    <3>2. ASSUME NEW x \in B.open PROVE x \in C.open
      BY <1>2, <1>5, <1>6, <1>7, Zenon
    <3> QED BY <3>1, <3>2, Zenon
  <2>2. DOMAIN B.name \subseteq DOMAIN C.name /\ \A x \in DOMAIN B.name : C.name[x] = B.name[x]
    BY <1>2, <1>5, <1>6, <1>7, Zenon
  <2> QED BY <1>5, <1>6, <2>1, <2>2, Zenon DEF Extends
<1>11. ASSUME NEW x \in Owed'
       PROVE  /\ x \in DOMAIN more /\ x \notin C.got \cup C.refused \cup expired
              /\ more[x].kind.qos # 0 /\ ~more[x].kind.oversize
              /\ x \in Owed \/ (x = k /\ place # "dropped")
  <2>1. PICK a \in accepted' : a.id = x /\ a.kind.qos # 0 /\ ~Excused(a)'
    BY <1>11, Zenon DEF Owed
  <2>2. ~Excused(a) /\ delivered[x] = 0 /\ x \in 1..MaxMsgs
    BY <1>3, <1>11, <2>1, Zenon DEF Excused, Owed
  <2>3. x \notin C.got \cup C.refused \cup expired /\ ~a.kind.oversize
    BY <1>6, <2>1, <2>2 DEF Excused
  <2>4. CASE a \in accepted
    <3>1. x \in Owed
      BY <2>1, <2>2, <2>4, Zenon DEF Owed
    <3>2. x \in DOMAIN more /\ a.kind = more[x].kind
      BY <1>2, <1>7, <2>1, <2>4, Zenon
    <3> QED BY <2>1, <2>3, <3>1, <3>2, Zenon
  <2>5. CASE place # "dropped" /\ a = [id |-> m.id, kind |-> m.kind]
    <3>1. x = k /\ a.kind = kind
      BY <1>1, <2>1, <2>5, Zenon
    <3>2. x \in DOMAIN more /\ a.kind = more[x].kind
      BY <1>2, <3>1, Zenon
    <3> QED BY <2>1, <2>3, <2>5, <3>1, <3>2, Zenon
  <2> QED BY <1>3, <2>4, <2>5, Zenon
<1>12. OwedOK(C)
  BY <1>6, <1>11, Zenon DEF OwedOK
<1>13. C.owed \subseteq B.owed \cup {m.id} /\ (place = "dropped" => C.owed \subseteq B.owed)
  BY <1>1, <1>5, <1>6, <1>11, Zenon
<1>14. m.id \notin C.got
  <2>1. delivered[k] = 0
    BY <1>1, <1>7, Zenon
  <2> QED BY <1>1, <1>6, <2>1
<1>15. /\ m.id \notin DOMAIN B.name /\ InBook(m, C) /\ m.kind = C.name[m.id].kind
  BY <1>1, <1>2, <1>5, <1>6, <1>7, <1>9, Zenon DEF InBook
<1>16. m \in Msg /\ m.age = 0 /\ m.state = "queued" /\ Ledger(more)'
  BY NewName, NewLedger, Zenon DEF m
<1>17. Offered(m, place, B, C)
  BY <1>10, <1>12, <1>13, <1>14, <1>15, <1>16, Zenon DEF Offered
<1> QED BY <1>16, <1>17, Zenon DEF B, C, m

\* A packet p that the client takes changes the book at p.id only.
LEMMA ClientLedger ==
    ASSUME NEW name, OthersOK, Ledger(name), NEW keep,
           NEW p, p.id \in 1..offered, p.mid = name[p.id].mid,
           UNCHANGED <<expired, last_mid, offered, accepted>>,
           \/ delivered' = delivered
           \/ Deliver(p) /\ (name[p.id].kind.qos = 2 => delivered[p.id] = 0),
           refused' = refused \/ refused' = refused \cup {p.id},
           \/ unreleased' = unreleased
           \/ unreleased' = unreleased \ {p.mid}
           \/ unreleased' = unreleased \cup {p.mid} /\ p.mid # 0 /\ delivered'[p.id] > 0
    PROVE  Ledger(name)' /\ DiffersAt(BookOf(name, keep)', BookOf(name, keep), p.id)
<1>1. /\ name \in [1..offered -> [mid: 0..MaxMid, kind: Kinds]] /\ Naming(name)
      /\ unreleased \subseteq 1..last_mid /\ last_mid <= offered
      /\ \A x \in 1..offered : name[x].mid <= last_mid
      /\ \A x \in 1..MaxMsgs : x > offered => delivered[x] = 0
      /\ \A x \in 1..offered : name[x].kind.qos = 2 => delivered[x] <= 1
      /\ \A x \in 1..offered : name[x].mid \in unreleased => delivered[x] > 0
      /\ \A a \in accepted : a.id \in 1..offered /\ a.kind = name[a.id].kind
  BY Zenon DEF Ledger
<1>2. /\ offered \in Nat /\ last_mid \in Nat /\ MaxMsgs \in Nat /\ offered <= MaxMsgs
      /\ delivered \in [1..MaxMsgs -> 0..2]
  BY ConstantsAssumption DEF OthersOK
<1>3. /\ p.id \in 1..MaxMsgs /\ p.mid \in Nat /\ p.mid <= last_mid /\ 1..offered \subseteq 1..MaxMsgs
  BY <1>1, <1>2
<1>4. /\ \A x \in 1..MaxMsgs : x # p.id => delivered'[x] = delivered[x]
      /\ \A x \in 1..MaxMsgs : delivered[x] > 0 => delivered'[x] > 0
      /\ name[p.id].kind.qos = 2 => delivered'[p.id] <= 1
  <2>1. CASE delivered' = delivered
    BY <1>1, <2>1, Zenon
  <2>2. CASE Deliver(p) /\ (name[p.id].kind.qos = 2 => delivered[p.id] = 0)
    <3>1. delivered' = [delivered EXCEPT ![p.id] = Lesser(delivered[p.id] + 1, 2)]
      BY <2>2, Zenon DEF Deliver
    <3>2. /\ delivered'[p.id] = Lesser(delivered[p.id] + 1, 2)
          /\ \A x \in 1..MaxMsgs : x # p.id => delivered'[x] = delivered[x]
      BY <1>2, <1>3, <3>1, Zenon
    <3>3. /\ Lesser(delivered[p.id] + 1, 2) > 0
          /\ delivered[p.id] = 0 => Lesser(delivered[p.id] + 1, 2) <= 1
      BY <1>2, <1>3, SMTT(20) DEF Lesser
    <3> QED BY <1>2, <2>2, <3>2, <3>3, Zenon
  <2> QED BY <2>1, <2>2, Zenon
<1>5. ASSUME NEW x \in 1..offered, x # p.id
      PROVE  name[x].mid \in unreleased' <=> name[x].mid \in unreleased
  <2>1. name[x].mid # p.mid \/ p.mid = 0
    BY <1>1, <1>5, Zenon DEF Naming
  <2>2. 0 \notin unreleased
    BY <1>1, <1>2
  <2> QED BY <2>1, <2>2, Zenon
<1>6. name[p.id].mid \in unreleased' => delivered'[p.id] > 0
  <2>1. p.mid \in unreleased => delivered'[p.id] > 0
    BY <1>1, <1>3, <1>4, Zenon
  <2> QED BY <2>1, Zenon
<1>7. unreleased' \subseteq 1..last_mid
  <2>1. p.mid # 0 => p.mid \in 1..last_mid
    BY <1>2, <1>3
  <2> QED BY <1>1, <2>1, Zenon
<1>8. Ledger(name)'
  <2>1. \A x \in 1..MaxMsgs : x > offered => delivered'[x] = 0
    BY <1>1, <1>2, <1>4
  <2>2. \A x \in 1..offered : name[x].kind.qos = 2 => delivered'[x] <= 1
    BY <1>1, <1>3, <1>4, Zenon
  <2>3. \A x \in 1..offered : name[x].mid \in unreleased' => delivered'[x] > 0
    BY <1>1, <1>3, <1>4, <1>5, <1>6, Zenon
  <2> QED BY <1>1, <1>7, <2>1, <2>2, <2>3, ZenonT(40) DEF Ledger
<1> DEFINE B == BookOf(name, keep)
           C == BookOf(name, keep)'
<1>9. /\ B.name = name /\ B.got = {x \in 1..MaxMsgs : delivered[x] > 0}
      /\ B.open = {x \in DOMAIN name : name[x].mid \in unreleased}
      /\ B.refused = refused /\ B.owed = IF keep THEN Owed ELSE {}
  BY Zenon DEF BookOf
<1>10. /\ C.name = name /\ C.got = {x \in 1..MaxMsgs : delivered'[x] > 0}
       /\ C.open = {x \in DOMAIN name : name[x].mid \in unreleased'}
       /\ C.refused = refused' /\ C.owed = IF keep THEN Owed' ELSE {}
  BY Zenon DEF BookOf
<1> HIDE DEF B, C
<1>11. Owed' \subseteq Owed
  <2>1. ASSUME NEW x \in Owed' PROVE x \in Owed
    <3>1. PICK a \in accepted : a.id = x /\ a.kind.qos # 0 /\ ~Excused(a)'
      BY <2>1, Zenon DEF Owed
    <3>2. ~Excused(a)
      BY <3>1, SMTT(20) DEF Excused
    <3>3. x \in 1..MaxMsgs /\ delivered'[x] = 0
      BY <2>1, SMTT(20) DEF Owed
    <3>4. delivered[x] = 0
      BY <1>2, <1>4, <3>3
    <3> QED BY <3>1, <3>2, <3>3, <3>4, Zenon DEF Owed
  <2> QED BY <2>1, Zenon
<1>12. C.owed \subseteq B.owed
  BY <1>9, <1>10, <1>11, Zenon
<1>13. ASSUME NEW y, y # p.id
       PROVE  /\ y \in C.got <=> y \in B.got
              /\ y \in C.open <=> y \in B.open
              /\ y \in C.refused <=> y \in B.refused
  BY <1>1, <1>4, <1>5, <1>9, <1>10, <1>13, Zenon
<1>14. DiffersAt(C, B, p.id)
  BY <1>9, <1>10, <1>12, <1>13, Zenon DEF DiffersAt
<1> QED BY <1>8, <1>14, Zenon DEF B, C
=============================================================================
