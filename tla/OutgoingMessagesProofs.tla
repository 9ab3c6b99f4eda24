----------------------- MODULE OutgoingMessagesProofs -----------------------
(***************************************************************************)
(* The steps of broker and subscriber keep the handshakes of all messages  *)
(* in order.  From this follow exactly-once delivery of QoS 2 messages,    *)
(* that no answer is awaited in vain, that the unsent messages are the     *)
(* last of the inflight list, and that no QoS 1 or 2 message disappears    *)
(* unnoticed.  The theorems about OutgoingMessages are at the end.         *)
(***************************************************************************)
EXTENDS OutgoingLimitsProofs, OutgoingHandshakeProofs

-----------------------------------------------------------------------------
(* The broker's handlers                                                   *)

Phase(s) == IF s = "closed" THEN "closed" ELSE "live"

\* What a handler leaves behind agrees with the book B.
Leaves(B) == Sound(msgs_out', in_packets', Phase(sock'), B)

\* do_disconnect, from inside a handler.
LEMMA CloseStep ==
    ASSUME NEW d \in Data(Msg), NEW B, ListsOK(d, B), Rested(d), Holds(d, B), Close(d)
    PROVE  Leaves(B)
<1>1. msgs_out' = [d EXCEPT !.out = <<>>] /\ sock' = "closed" /\ in_packets' = <<>>
  BY Zenon DEF Close
<1>2. Sound([d EXCEPT !.out = <<>>], <<>>, "closed", B)
  BY CloseSound, Zenon
<1>3. Phase(sock') = "closed"
  BY <1>1, Zenon DEF Phase
<1> QED BY <1>1, <1>2, <1>3, Zenon DEF Leaves

\* The connection is given up whatever the lists are.
LEMMA GiveUp ==
    ASSUME NEW d, NEW in, NEW phase \in {"live", "closed"}, NEW B, Sound(d, in, phase, B), Close(d)
    PROVE  Leaves(B)
<1>1. d \in Data(Msg) /\ ListsOK(d, B) /\ Rested(d) /\ Holds(d, B)
  BY Zenon DEF Sound
<1> QED BY <1>1, CloseStep, Zenon

\* A handler that keeps the connection.
LEMMA KeepUp ==
    ASSUME NEW d, NEW in, NEW B, Sound(d, in, Phase(sock), B),
           msgs_out' = d, in_packets' = in, sock' = sock
    PROVE  Leaves(B)
  BY Zenon DEF Leaves

\* The end of handle__subscribe.
LEMMA FinishSound ==
    ASSUME Counting, NEW d, NEW blocked, NEW B, Sound(d, in_packets, Phase(sock), B), OwedOK(B),
           FinishSubscribe(d, blocked)
    PROVE  Leaves(B)
<1>1. CASE sock = "up" /\ blocked /\ Leave(d)
  BY <1>1, KeepUp, Zenon DEF Leave, linkVars
<1>2. CASE sock = "up" /\ ~blocked /\ Leave(db__message_write_inflight_out_latest(
                                              db__message_write_queued_out(d), sock))
  <2> DEFINE q == db__message_write_queued_out(d)
             w == db__message_write_inflight_out_latest(q, sock)
  <2>1. Phase(sock) = "live"
    BY <1>2, Zenon DEF Phase
  <2>2. Sound(q, in_packets, "live", B)
    BY <2>1, WritesSound, Zenon
  <2> HIDE DEF q
  <2>3. Sound(w, in_packets, Phase(sock), B)
    BY <2>1, <2>2, WritesSound, Zenon
  <2>4. msgs_out' = w /\ in_packets' = in_packets /\ sock' = sock
    BY <1>2, Zenon DEF Leave, linkVars, w, q
  <2> HIDE DEF w
  <2> QED BY <2>3, <2>4, KeepUp, Zenon
<1>3. CASE sock = "broken" /\ Close(d)
  BY <1>3, GiveUp, Zenon DEF Phase
<1> QED BY <1>1, <1>2, <1>3, Zenon DEF FinishSubscribe

\* The number of queued messages that an acknowledgement lets through.
LEMMA RoomType ==
    ASSUME NEW d \in Data(Msg), NEW ahead \in Nat
    PROVE  Room(d, ahead) \in 0..Len(d.queued)
<1>1. PICK q \in Seq(Msg) : q = d.queued
  BY DataFields, Zenon DEF Inflights
<1>2. Len(q) \in Nat
  OBVIOUS
<1> QED BY <1>1, <1>2, ConstantsAssumption, SMTT(30) DEF Room, Lesser, Greater

\* db__message_delete_outgoing ends one handshake and sends what is behind it.
LEMMA DeleteSound ==
    ASSUME Counting, NEW d, NEW B, in_packets \in Seq(Ack), in_packets # <<>>, sock # "closed",
           Sound(d, in_packets, "live", B), Naming(B.name), OwedOK(B),
           Head(in_packets).type \in {"PUBACK", "PUBREC_FAIL", "PUBCOMP"},
           NEW state, NEW qos,
           db__message_delete_outgoing(d, Head(in_packets).mid, state, qos)
    PROVE  Leaves(B)
<1> DEFINE mid == Head(in_packets).mid
           i == Find(d.inflight, mid)
           r == IF i = 0 THEN d ELSE db__message_remove(d, i)
           n == IF i = 0 THEN Room(d, Len(d.inflight)) ELSE Room(d, i - 1)
           e == DeleteAndDequeue(d, mid)
           w == db__message_write_inflight_out_latest(e, sock)
<1>1. CASE DeleteRefused(d, mid, state, qos)
  BY <1>1, GiveUp, Zenon DEF db__message_delete_outgoing
<1>2. CASE ~DeleteRefused(d, mid, state, qos)
  <2>1. IF LatestFails(e, sock) THEN Close(w)
        ELSE msgs_out' = w /\ in_packets' = Tail(in_packets) /\ sock' = sock
    BY <1>2, Zenon DEF db__message_delete_outgoing
  <2>2. Sound(r, Tail(in_packets), "live", B)
    BY AcknowledgeSound, Zenon
  <2>3. d \in Data(Msg) /\ d.inflight \in Seq(Msg)
    BY DataFields, Zenon DEF Sound, Inflights
  <2>4. i = 0 \/ i \in DOMAIN d.inflight
    BY <2>3, FindEntry, Zenon
  <2> HIDE DEF i
  <2>5. n \in 0..Len(d.queued) /\ r.queued = d.queued
    <3>1. PICK l \in Seq(Msg) : l = d.inflight
      BY <2>3, Zenon
    <3>2. Len(l) \in Nat /\ DOMAIN l = 1..Len(l)
      OBVIOUS
    <3>3. i = 0 \/ i - 1 \in Nat
      BY <2>4, <3>1, <3>2, SMTT(30)
    <3>4. n \in 0..Len(d.queued)
      BY <2>3, <3>1, <3>2, <3>3, RoomType, Zenon
    <3>5. d \in MsgData
      BY <2>3, Zenon DEF Data
    <3>6. db__message_remove(d, i).queued = d.queued
      BY <3>5, Zenon DEF db__message_remove, MsgData
    <3> QED BY <3>4, <3>6, Zenon
  <2>6. e = Dequeue(r, n)
    BY Zenon DEF DeleteAndDequeue, i
  <2> HIDE DEF r, n, e
  <2>7. Sound(e, Tail(in_packets), "live", B)
    BY <2>2, <2>5, <2>6, WritesSound, Zenon
  <2>8. Sound(w, Tail(in_packets), "live", B)
    BY <2>7, WritesSound, Zenon
  <2> HIDE DEF w
  <2>9. Phase(sock) = "live"
    BY Zenon DEF Phase
  <2>10. CASE Close(w)
    BY <2>8, <2>10, GiveUp, Zenon
  <2>11. CASE msgs_out' = w /\ in_packets' = Tail(in_packets) /\ sock' = sock
    BY <2>8, <2>9, <2>11, KeepUp, Zenon
  <2> QED BY <2>1, <2>10, <2>11, Zenon
<1> QED BY <1>1, <1>2, Zenon

\* handle__pubackcomp and handle__pubrec.
LEMMA AnswerStep ==
    ASSUME Counting, NEW B, Inv(Msg), Sound(msgs_out, in_packets, Phase(sock), B), Naming(B.name), OwedOK(B),
           \/ \E verdict \in {"normal", "slow"} : HandlePuback(verdict)
           \/ HandlePubcomp \/ HandlePubrec \/ HandlePubrecFail
    PROVE  Leaves(B)
<1>1. in_packets \in Seq(Ack) /\ msgs_out \in Data(Msg)
  BY Zenon DEF Inv, OthersOK
<1>2. ASSUME NEW type, Receives(type)
      PROVE  /\ sock # "closed" /\ in_packets # <<>> /\ Head(in_packets).type = type
             /\ Sound(msgs_out, in_packets, "live", B)
  BY <1>2, Zenon DEF Receives, Phase
<1> DEFINE d == util__increment_send_quota(msgs_out)
<1>3. ASSUME Sound(msgs_out, in_packets, "live", B) PROVE Sound(d, in_packets, "live", B)
  <2> DEFINE quota == Refund(msgs_out.inflight_quota, 1)
  <2>1. quota \in 0..InflightMax /\ msgs_out \in MsgData
    BY <1>1, DataFields, QuotaType, Zenon DEF Inflights
  <2>2. d = [msgs_out EXCEPT !.inflight_quota = quota]
    BY Zenon DEF util__increment_send_quota
  <2> HIDE DEF quota, d
  <2>3. d \in Data(Msg)
    BY <1>1, <2>1, <2>2, Zenon DEF Data, MsgData
  <2>4. /\ d.inflight = msgs_out.inflight /\ d.queued = msgs_out.queued
        /\ d.storage = msgs_out.storage /\ d.out = msgs_out.out
    BY <2>1, <2>2, Zenon DEF MsgData
  <2> QED BY <1>3, <2>3, <2>4, SameLists, Zenon
<1>4. ASSUME NEW verdict \in {"normal", "slow"}, HandlePuback(verdict)
      PROVE  Leaves(B)
  <2> DEFINE w == db__message_write_storage_out(d, verdict)
             written == [w EXCEPT !.probing = FALSE]
             e == IF msgs_out.probing THEN written ELSE d
  <2>1. Receives("PUBACK")
          /\ db__message_delete_outgoing(e, Head(in_packets).mid, "wait_for_pubcomp", 1)
    BY <1>4, ZenonT(40) DEF HandlePuback
  <2>2. Sound(d, in_packets, "live", B)
    BY <1>2, <1>3, <2>1, Zenon
  <2> HIDE DEF d
  <2>3. Sound(w, in_packets, "live", B)
    BY <2>2, WritesSound, Zenon
  <2> HIDE DEF w
  <2>4. w \in Data(Msg) /\ w \in MsgData
    BY <2>3, Zenon DEF Sound, Data
  <2>5. written \in Data(Msg)
    BY <2>4, ZenonT(40) DEF Data, MsgData
  <2>6. /\ written.inflight = w.inflight /\ written.queued = w.queued
        /\ written.storage = w.storage /\ written.out = w.out
    BY <2>4, Zenon DEF MsgData
  <2> HIDE DEF written
  <2>7. Sound(written, in_packets, "live", B)
    BY <2>3, <2>5, <2>6, SameLists, Zenon
  <2>8. Sound(e, in_packets, "live", B)
    BY <2>2, <2>7, Zenon
  <2> HIDE DEF e
  <2> QED BY <1>1, <1>2, <2>1, <2>8, DeleteSound, Zenon
<1>5. CASE HandlePubcomp
  <2>1. Receives("PUBCOMP")
          /\ db__message_delete_outgoing(d, Head(in_packets).mid, "wait_for_pubcomp", 2)
    BY <1>5, Zenon DEF HandlePubcomp
  <2>2. Sound(d, in_packets, "live", B)
    BY <1>2, <1>3, <2>1, Zenon
  <2> HIDE DEF d
  <2> QED BY <1>1, <1>2, <2>1, <2>2, DeleteSound, Zenon
<1>6. CASE HandlePubrecFail
  <2>1. Receives("PUBREC_FAIL")
          /\ db__message_delete_outgoing(msgs_out, Head(in_packets).mid, "wait_for_pubrec", 2)
    BY <1>6, Zenon DEF HandlePubrecFail
  <2> QED BY <1>1, <1>2, <2>1, DeleteSound, Zenon
<1>7. CASE HandlePubrec
  <2> DEFINE h      == Head(in_packets)
             i      == Find(msgs_out.inflight, h.mid)
             u      == IF i = 0 THEN msgs_out
                       ELSE [msgs_out EXCEPT !.inflight[i].state = "wait_for_pubcomp"]
             pubrel == [type |-> "PUBREL", id |-> h.id, mid |-> h.mid,
                        qos |-> 2, dup |-> FALSE]
             sent   == [u EXCEPT !.out = Append(u.out, pubrel)]
  <2>1. /\ Receives("PUBREC")
        /\ \/ Close(msgs_out)
           \/ Close(u)
           \/ msgs_out' = sent /\ in_packets' = Tail(in_packets) /\ sock' = sock
    BY <1>7, ZenonT(40) DEF HandlePubrec
  <2>2. /\ u \in Data(Msg) /\ ListsOK(u, B) /\ Rested(u) /\ Holds(u, B)
        /\ Sound(sent, Tail(in_packets), "live", B)
    BY <1>1, <1>2, <2>1, PubrecSound, Zenon
  <2> HIDE DEF u, sent
  <2>3. CASE Close(msgs_out)
    BY <1>2, <2>1, <2>3, GiveUp, Zenon
  <2>4. CASE Close(u)
    BY <2>2, <2>4, CloseStep, Zenon
  <2>5. CASE msgs_out' = sent /\ in_packets' = Tail(in_packets) /\ sock' = sock
    <3>1. Phase(sock) = "live"
      BY <1>2, <2>1, Zenon DEF Phase
    <3> QED BY <2>2, <2>5, <3>1, KeepUp, Zenon
  <2> QED BY <2>1, <2>3, <2>4, <2>5, Zenon
<1> QED BY <1>4, <1>5, <1>6, <1>7, Zenon

\* The storage list of a session that is not connected is never its only list with
\* messages: connect__on_authorised does not ask the storage list whether the old
\* session has messages.
NothingOnlyStored ==
    sock # "up" /\ msgs_out.storage # <<>> =>
        msgs_out.inflight # <<>> \/ msgs_out.queued # <<>>

\* connect__on_authorised takes over the lists of the old session, and writes them.
LEMMA ReconnectStep ==
    ASSUME Counting, NEW B, Sound(msgs_out, in_packets, Phase(sock), B), OwedOK(B),
           B.owed = {} \/ NothingOnlyStored, NEW inbound, Reconnect(inbound)
    PROVE  Leaves(B)
<1> DEFINE none  == <<>>
           old   == [msgs_out EXCEPT !.out = none, !.probing = FALSE]
           taken == IF HasMessages(old, inbound)
                    THEN db__message_reconnect_reset_outgoing(old)
                    ELSE FreshMsgData
           q     == db__message_write_queued_out(taken)
           w     == db__message_write_inflight_out_all(q, "up")
<1>1. msgs_out' = w /\ sock' = "up" /\ in_packets' = none /\ sock # "up"
  BY Zenon DEF Reconnect
<1>2. /\ msgs_out \in Data(Msg) /\ ListsOK(msgs_out, B) /\ Rested(msgs_out)
      /\ Holds(msgs_out, B) /\ msgs_out \in MsgData
  BY Zenon DEF Sound, Phase, Data
<1>3. none \in Seq(Packet) /\ Elements(none) = {}
  BY NoIds
<1> HIDE DEF none
<1>4. old \in Data(Msg)
  BY <1>2, <1>3, ZenonT(40) DEF Data, MsgData
<1>5. /\ old.inflight = msgs_out.inflight /\ old.queued = msgs_out.queued
      /\ old.storage = msgs_out.storage /\ old.out = none
  BY <1>2, Zenon DEF MsgData
<1> HIDE DEF old
<1>6. HeldIn(old) = HeldIn(msgs_out) /\ Late(old) = Late(msgs_out)
        /\ (Unique(msgs_out) => Unique(old))
  BY <1>5, Zenon DEF HeldIn, Late, Unique
<1>7. ListsOK(old, B) /\ Rested(old) /\ Holds(old, B)
  BY <1>2, <1>6, Zenon DEF ListsOK, Rested, Holds
<1>8. Sound(taken, none, "resuming", B)
  <2>1. CASE HasMessages(old, inbound)
    <3>1. Sound(db__message_reconnect_reset_outgoing(old), none, "resuming", B)
      BY <1>4, <1>5, <1>7, ResetSound, Zenon DEF none
    <3> QED BY <2>1, <3>1, Zenon
  <2>2. CASE ~HasMessages(old, inbound)
    <3>1. old.inflight = none /\ old.queued = none
      BY <2>2, Zenon DEF HasMessages, none
    <3>2. B.owed = {}
      <4>1. CASE NothingOnlyStored
        <5>1. old.storage = none
          BY <1>1, <1>5, <3>1, <4>1, Zenon DEF NothingOnlyStored, none
        <5>2. HeldIn(old) = {}
          BY <1>3, <3>1, <5>1, Zenon DEF HeldIn, Late
        <5> QED BY <1>7, <5>2, Zenon DEF Holds
      <4> QED BY <4>1, Zenon
    <3>3. Sound(FreshMsgData, none, "resuming", B)
      BY <3>2, FreshSound, Zenon DEF none
    <3> QED BY <2>2, <3>3, Zenon
  <2> QED BY <2>1, <2>2, Zenon
<1> HIDE DEF taken
<1>9. Sound(q, none, "resuming", B)
  BY <1>8, WritesSound, Zenon
<1> HIDE DEF q
<1>10. Sound(w, none, "live", B)
  BY <1>9, WritesSound, Zenon
<1> HIDE DEF w
<1>11. Phase(sock') = "live"
  BY <1>1, Zenon DEF Phase
<1> QED BY <1>1, <1>10, <1>11, Zenon DEF Leaves

\* Time passes for the stored messages.
LEMMA TickStep ==
    ASSUME NEW B, Sound(msgs_out, in_packets, Phase(sock), B), Inv(Msg)', Tick
    PROVE  Leaves(B)
<1>1. PICK d : d = msgs_out
  BY Zenon
<1>2. PICK e : e = msgs_out'
  BY Zenon
<1>3. PICK s \in Seq(Msg) : s = d.storage
  BY <1>1, DataFields, Zenon DEF Sound, Inflights
<1> DEFINE older == [i \in DOMAIN s |-> Older(s[i])]
<1>4. /\ d \in Data(Msg) /\ d \in MsgData /\ ListsOK(d, B)
      /\ e \in Data(Msg)
  BY <1>1, <1>2, Zenon DEF Sound, Inv, Data
<1>5. /\ e = [d EXCEPT !.storage = older]
      /\ in_packets' = in_packets /\ sock' = sock
  BY <1>1, <1>2, <1>3, Zenon DEF Tick, linkVars
<1>6. \A i \in DOMAIN s : s[i] \in Msg
  BY <1>3, SMTT(30)
<1>7. ASSUME NEW m \in Msg
      PROVE  /\ Older(m).id = m.id /\ Older(m).mid = m.mid /\ Older(m).kind = m.kind
             /\ Older(m).state = m.state
  BY Zenon DEF Older, Msg
<1>8. /\ DOMAIN older = DOMAIN s
      /\ \A i \in DOMAIN s : /\ older[i].id = s[i].id /\ older[i].mid = s[i].mid
                             /\ older[i].kind = s[i].kind /\ older[i].state = s[i].state
  BY <1>6, <1>7, Zenon
<1> HIDE DEF older
<1>9. /\ e.inflight = d.inflight /\ e.queued = d.queued /\ e.storage = older
      /\ e.out = d.out
  BY <1>4, <1>5, Zenon DEF MsgData
<1>10. SameIds(older, s) /\ older \in Seq(Msg)
  BY <1>4, <1>8, <1>9, DataFields, Zenon DEF SameIds, Inflights
<1>11. \A m \in Late(d) : m.state \in IdleStates
  BY <1>4, Zenon DEF ListsOK
<1>12. \A m \in Late(d) : Moved(m, m)
  BY <1>11, Zenon DEF Moved
<1>13. /\ \A n \in Elements(older) : \E m \in Elements(s) : Moved(n, m)
       /\ \A m \in Elements(s) : \E n \in Elements(older) : n.id = m.id
  <2>1. ASSUME NEW i \in DOMAIN s
        PROVE  /\ s[i] \in Elements(s) /\ older[i] \in Elements(older)
               /\ older[i].id = s[i].id /\ Moved(older[i], s[i])
    <3>1. s[i] \in Elements(s) /\ older[i] \in Elements(older)
      BY <1>8, Zenon DEF Elements
    <3>2. s[i].state \in IdleStates
      BY <1>3, <1>11, <3>1, Zenon DEF Late
    <3> QED BY <1>8, <3>1, <3>2, Zenon DEF Moved
  <2>2. ASSUME NEW n \in Elements(older) PROVE \E m \in Elements(s) : Moved(n, m)
    <3>1. PICK i \in DOMAIN s : n = older[i]
      BY <1>8, <2>2, Zenon DEF Elements
    <3> QED BY <2>1, <3>1, Zenon
  <2>3. ASSUME NEW m \in Elements(s) PROVE \E n \in Elements(older) : n.id = m.id
    <3>1. PICK i \in DOMAIN s : m = s[i]
      BY <2>3, Zenon DEF Elements
    <3> QED BY <2>1, <3>1, Zenon
  <2> QED BY <2>2, <2>3, Zenon
<1>14. Shuffled(d, e)
  <2>1. \A n \in Late(e) : \E m \in Late(d) : Moved(n, m)
    BY <1>3, <1>9, <1>12, <1>13, Zenon DEF Late
  <2>2. \A m \in HeldIn(d) : \E n \in HeldIn(e) : n.id = m.id
    BY <1>3, <1>9, <1>13, Zenon DEF HeldIn, Late
  <2>3. Unique(d) => Unique(e)
    <3>1. /\ d.inflight \in Seq(Msg) /\ d.queued \in Seq(Msg)
      BY <1>4, DataFields, Zenon DEF Inflights
    <3>2. ASSUME Unique(d)
          PROVE  /\ Distinct(older) /\ Apart(d.inflight, older) /\ Apart(d.queued, older)
                 /\ Distinct(d.inflight) /\ Distinct(d.queued) /\ Apart(d.inflight, d.queued)
      <4>1. /\ Distinct(s) /\ Apart(d.inflight, s) /\ Apart(d.queued, s)
            /\ Distinct(d.inflight) /\ Distinct(d.queued) /\ Apart(d.inflight, d.queued)
        BY <1>3, <3>2, Zenon DEF Unique
      <4> QED BY <1>3, <1>10, <3>1, <4>1, SameIdsKeep, Zenon
    <3> QED BY <1>9, <3>2, Zenon DEF Unique
  <2> QED BY <1>4, <1>9, <2>1, <2>2, <2>3, Zenon DEF Shuffled
<1>15. Sound(e, in_packets, Phase(sock), B)
  BY <1>1, <1>14, ShuffledSound, Zenon
<1> QED BY <1>2, <1>5, <1>15, KeepUp, Zenon

\* Every step of the broker and of the connection.
LEMMA BrokerStep ==
    ASSUME Counting, NEW B, Inv(Msg), Inv(Msg)', Sound(msgs_out, in_packets, Phase(sock), B),
           Naming(B.name), OwedOK(B), B.owed = {} \/ NothingOnlyStored,
           \/ \E blocked \in BOOLEAN : Subscribe(blocked)
           \/ UnsubscribeLatency
           \/ \E verdict \in {"normal", "slow"} : HandlePuback(verdict)
           \/ HandlePubcomp \/ HandlePubrec \/ HandlePubrecFail
           \/ Break \/ Disconnect
           \/ \E inbound \in BOOLEAN : Reconnect(inbound)
           \/ Tick
    PROVE  Leaves(B) /\ UNCHANGED <<expired, last_mid, offered, accepted,
                                    delivered, refused, unreleased>>
<1>1. UNCHANGED <<expired, last_mid, offered, accepted, delivered, refused, unreleased>>
  <2>1. CASE \E blocked \in BOOLEAN : Subscribe(blocked)
    BY <2>1, Zenon DEF Subscribe, offerVars, clientVars
  <2>2. CASE \E verdict \in {"normal", "slow"} : HandlePuback(verdict)
    BY <2>2, ZenonT(40) DEF HandlePuback, offerVars, clientVars
  <2>3. CASE HandlePubcomp \/ HandlePubrec \/ HandlePubrecFail
    BY <2>3, ZenonT(40) DEF HandlePubcomp, HandlePubrec, HandlePubrecFail, offerVars, clientVars
  <2>4. CASE UnsubscribeLatency \/ Break \/ Disconnect \/ Tick
    BY <2>4, Zenon DEF UnsubscribeLatency, Break, Disconnect, Tick, offerVars, clientVars
  <2>5. CASE \E inbound \in BOOLEAN : Reconnect(inbound)
    BY <2>5, ZenonT(40) DEF Reconnect, offerVars, clientVars
  <2> QED BY <2>1, <2>2, <2>3, <2>4, <2>5, Zenon
<1> SUFFICES Leaves(B)
  BY <1>1, Zenon
<1>2. CASE \E blocked \in BOOLEAN : Subscribe(blocked)
  <2>1. PICK blocked \in BOOLEAN : FinishSubscribe(msgs_out, blocked)
    BY <1>2, Zenon DEF Subscribe
  <2> QED BY <2>1, FinishSound, Zenon
<1>3. CASE UnsubscribeLatency
  BY <1>3, KeepUp, Zenon DEF UnsubscribeLatency, linkVars
<1>4. CASE Break
  <2>1. Phase(sock) = "live" /\ Phase(sock') = "live"
    BY <1>4, Zenon DEF Break, Phase
  <2>2. msgs_out' = msgs_out /\ in_packets' = in_packets
    BY <1>4, Zenon DEF Break
  <2> QED BY <2>1, <2>2, Zenon DEF Leaves
<1>5. CASE Disconnect
  <2>1. Close(msgs_out) /\ Phase(sock) \in {"live", "closed"}
    BY <1>5, Zenon DEF Disconnect, Phase
  <2> QED BY <2>1, GiveUp, Zenon
<1>6. CASE \E inbound \in BOOLEAN : Reconnect(inbound)
  BY <1>6, ReconnectStep, Zenon
<1> QED BY <1>2, <1>3, <1>4, <1>5, <1>6, AnswerStep, TickStep, Zenon

-----------------------------------------------------------------------------
(* The inductive invariant                                                 *)

HandshakeInv(keep) ==
    /\ Inv(Msg)
    /\ \E name : Ledger(name) /\ Sound(msgs_out, in_packets, Phase(sock), BookOf(name, keep))

\* The client takes a packet and answers it.
LEMMA ClientStep ==
    ASSUME NEW name, Inv(Msg), Ledger(name), NEW keep,
           Sound(msgs_out, in_packets, Phase(sock), BookOf(name, keep)), ClientReceive
    PROVE  Ledger(name)' /\ Leaves(BookOf(name, keep)')
<1> DEFINE p == Head(msgs_out.out)
           B == BookOf(name, keep)
           C == BookOf(name, keep)'
           a(type) == [type |-> type, id |-> p.id, mid |-> p.mid]
<1>1. /\ sock = "up" /\ msgs_out.out # <<>>
      /\ msgs_out' = [msgs_out EXCEPT !.out = Tail(msgs_out.out)]
      /\ UNCHANGED <<sock, expired, last_mid, offered, accepted>>
  BY Zenon DEF ClientReceive, offerVars
<1>2. \/ /\ p.type = "PUBLISH" /\ p.qos = 0 /\ Deliver(p)
         /\ UNCHANGED <<in_packets, refused, unreleased>>
      \/ /\ p.type = "PUBLISH" /\ p.qos = 1 /\ Deliver(p)
         /\ in_packets' = Append(in_packets, a("PUBACK")) /\ UNCHANGED <<refused, unreleased>>
      \/ /\ p.type = "PUBLISH" /\ p.qos = 2
         /\ IF p.mid \notin unreleased THEN Deliver(p) ELSE UNCHANGED delivered
         /\ unreleased' = unreleased \cup {p.mid}
         /\ in_packets' = Append(in_packets, a("PUBREC")) /\ UNCHANGED refused
      \/ /\ p.type = "PUBLISH" /\ p.qos = 2
         /\ refused' = refused \cup {p.id}
         /\ in_packets' = Append(in_packets, a("PUBREC_FAIL"))
         /\ UNCHANGED <<delivered, unreleased>>
      \/ /\ p.type = "PUBREL"
         /\ unreleased' = unreleased \ {p.mid}
         /\ in_packets' = Append(in_packets, a("PUBCOMP"))
         /\ UNCHANGED <<delivered, refused>>
  BY ZenonT(40) DEF ClientReceive, Answer
<1>3. /\ Sound(msgs_out, in_packets, "live", B) /\ Phase(sock') = "live"
      /\ in_packets \in Seq(Ack) /\ OthersOK
  BY <1>1, Zenon DEF Phase, Inv, OthersOK
<1>4. TokenOK(p, B)
  <2>1. msgs_out.out \in Seq(Packet) /\ WiresOK(msgs_out, in_packets, TRUE, B)
    BY <1>3, DataFields, Zenon DEF Sound, Inflights
  <2>2. p \in Tokens(msgs_out, in_packets)
    BY <1>1, <2>1, TailIds, SMTT(30) DEF Tokens
  <2> QED BY <2>1, <2>2, Zenon DEF WiresOK
<1>5. /\ B.name = name /\ B.got = {x \in 1..MaxMsgs : delivered[x] > 0}
      /\ B.open = {x \in DOMAIN name : name[x].mid \in unreleased} /\ B.refused = refused
  BY Zenon DEF BookOf
<1>6. /\ C.name = name /\ C.got = {x \in 1..MaxMsgs : delivered'[x] > 0}
      /\ C.open = {x \in DOMAIN name : name[x].mid \in unreleased'} /\ C.refused = refused'
  BY Zenon DEF BookOf
<1> HIDE DEF p, B, C, a
<1>7. /\ DOMAIN name = 1..offered /\ 1..offered \subseteq 1..MaxMsgs
      /\ delivered \in [1..MaxMsgs -> 0..2]
      /\ \A x \in 1..offered : name[x].mid = 0 <=> name[x].kind.qos = 0
  BY <1>3, ConstantsAssumption, SMTT(30) DEF Ledger, Naming, OthersOK
<1>8. /\ p.id \in 1..offered /\ p.mid = name[p.id].mid
      /\ p.type = "PUBLISH" => /\ p.qos = name[p.id].kind.qos
                               /\ p.qos = 2 /\ p.id \in B.got => p.id \in B.open
  BY <1>4, <1>5, <1>7, Zenon DEF TokenOK, InBook
<1>9. ASSUME p.type = "PUBLISH", p.qos = 2
      PROVE  /\ p.mid # 0
             /\ p.mid \notin unreleased => delivered[p.id] = 0
             /\ p.mid \in unreleased => delivered[p.id] > 0
  <2>1. p.id \in 1..MaxMsgs /\ delivered[p.id] \in 0..2 /\ p.id \in B.open <=> p.mid \in unreleased
    BY <1>5, <1>7, <1>8, Zenon
  <2>2. p.mid \in unreleased => delivered[p.id] > 0
    BY <1>8, Zenon DEF Ledger
  <2> QED BY <1>5, <1>7, <1>8, <1>9, <2>1, <2>2, SMTT(30)
<1>10. Deliver(p) => delivered'[p.id] > 0
  BY <1>7, <1>8, SMTT(30) DEF Deliver, Lesser
<1>11. /\ delivered' = delivered \/ (Deliver(p) /\ (name[p.id].kind.qos = 2 => delivered[p.id] = 0))
       /\ refused' = refused \/ refused' = refused \cup {p.id}
       /\ \/ unreleased' = unreleased
          \/ unreleased' = unreleased \ {p.mid}
          \/ unreleased' = unreleased \cup {p.mid} /\ p.mid # 0 /\ delivered'[p.id] > 0
  BY <1>2, <1>8, <1>9, <1>10, SMTT(30)
<1>12. Ledger(name)' /\ DiffersAt(C, B, p.id)
  BY <1>1, <1>3, <1>8, <1>11, ClientLedger, Zenon DEF B, C
<1> DEFINE e == [msgs_out EXCEPT !.out = Tail(msgs_out.out)]
           Reply(type) == /\ a(type) \in Ack /\ a(type).id = p.id /\ TokenOK(a(type), C)
                          /\ \A m \in HeldIn(msgs_out) : m.id = p.id =>
                               MsgOK(m, C) /\ type \in Expect(m.state)
<1>13. ASSUME NEW type, Reply(type), in_packets' = Append(in_packets, a(type))
       PROVE  Sound(e, in_packets', "live", C)
  <2>1. a(type).type = type
    BY Zenon DEF a
  <2>2. PICK next : next = Append(in_packets, a(type))
    BY Zenon
  <2>3. \A m \in HeldIn(msgs_out) : m.id = p.id =>
          MsgOK(m, C) /\ next = Append(in_packets, a(type)) /\ a(type).type \in Expect(m.state)
    BY <1>13, <2>1, <2>2, Zenon
  <2>4. Sound(e, next, "live", C)
    BY <1>1, <1>3, <1>12, <1>13, <2>2, <2>3, ExchangeSound, Zenon DEF p
  <2> QED BY <1>13, <2>2, <2>4, Zenon
<1>14. /\ p.type = "PUBLISH" /\ p.qos = 0 => \A m \in HeldIn(msgs_out) : m.id # p.id
       /\ p.type = "PUBLISH" /\ p.qos = 1 /\ p.id \in C.got => Reply("PUBACK")
       /\ p.type = "PUBLISH" /\ p.qos = 2 /\ p.id \in C.got /\ p.id \in C.open => Reply("PUBREC")
       /\ p.type = "PUBLISH" /\ p.qos = 2 /\ p.id \in C.refused
            /\ C.got = B.got /\ C.open = B.open => Reply("PUBREC_FAIL")
       /\ p.type = "PUBREL" /\ C.got = B.got => Reply("PUBCOMP")
  BY <1>1, <1>3, <1>12, ClientAnswers, Zenon DEF p, a
<1> HIDE DEF e, Reply
<1>15. Sound(e, in_packets', "live", C)
  <2>1. CASE p.type = "PUBLISH" /\ p.qos = 0 /\ in_packets' = in_packets
    <3>1. \A m \in HeldIn(msgs_out) : m.id = p.id =>
            MsgOK(m, C) /\ in_packets = Append(in_packets, p) /\ p.type \in Expect(m.state)
      BY <1>14, <2>1, Zenon
    <3>2. Sound(e, in_packets, "live", C)
      BY <1>1, <1>3, <1>12, <3>1, ExchangeSound, Zenon DEF p, e
    <3> QED BY <2>1, <3>2, Zenon
  <2>2. CASE /\ p.type = "PUBLISH" /\ p.qos = 1 /\ Deliver(p)
             /\ in_packets' = Append(in_packets, a("PUBACK"))
    BY <1>6, <1>7, <1>8, <1>10, <1>13, <1>14, <2>2, Zenon
  <2>3. CASE /\ p.type = "PUBLISH" /\ p.qos = 2
             /\ IF p.mid \notin unreleased THEN Deliver(p) ELSE UNCHANGED delivered
             /\ unreleased' = unreleased \cup {p.mid}
             /\ in_packets' = Append(in_packets, a("PUBREC"))
    <3>1. p.id \in C.got /\ p.id \in C.open
      BY <1>6, <1>7, <1>8, <1>9, <1>10, <2>3, Zenon
    <3> QED BY <1>13, <1>14, <2>3, <3>1, Zenon
  <2>4. CASE /\ p.type = "PUBLISH" /\ p.qos = 2
             /\ refused' = refused \cup {p.id}
             /\ in_packets' = Append(in_packets, a("PUBREC_FAIL"))
             /\ UNCHANGED <<delivered, unreleased>>
    <3>1. p.id \in C.refused /\ C.got = B.got /\ C.open = B.open
      BY <1>5, <1>6, <2>4, Zenon
    <3> QED BY <1>13, <1>14, <2>4, <3>1, Zenon
  <2>5. CASE /\ p.type = "PUBREL" /\ in_packets' = Append(in_packets, a("PUBCOMP"))
             /\ UNCHANGED <<delivered, refused>>
    <3>1. C.got = B.got
      BY <1>5, <1>6, <2>5, Zenon
    <3> QED BY <1>13, <1>14, <2>5, <3>1, Zenon
  <2> QED BY <1>2, <2>1, <2>2, <2>3, <2>4, <2>5, Zenon
<1>16. Leaves(C)
  BY <1>1, <1>3, <1>15, Zenon DEF Leaves, e
<1> QED BY <1>12, <1>16, Zenon DEF C

\* subs__send and retain__process: a message is offered and, unless it is dropped, put
\* on one of the lists; then the lists are written.
LEMMA OfferStep ==
    ASSUME Counting, NoWrap, NEW name, Inv(Msg), Ledger(name), NEW keep,
           Sound(msgs_out, in_packets, Phase(sock), BookOf(name, keep)),
           \/ \E kind \in PublishKinds, full \in BOOLEAN : Publish(kind, full)
           \/ \E kind \in RetainedKinds, full, blocked \in BOOLEAN :
                SubscribeRetained(kind, full, blocked)
    PROVE  \E more : Ledger(more)' /\ Leaves(BookOf(more, keep)')
<1> DEFINE m(kind)           == NewMsg(kind)
           place(kind, full) == Place(msgs_out, m(kind), ModeAtInsert, sock, full)
           d(kind, full)     == Enlist(msgs_out, m(kind), place(kind, full))
<1>1. PICK kind \in Kinds, full \in BOOLEAN :
        /\ Offer(m(kind), place(kind, full))
        /\ \/ Leave(IF place(kind, full) = "dropped" THEN msgs_out
                    ELSE Update(d(kind, full), ModeAtInsert, sock))
           \/ \E blocked \in BOOLEAN : FinishSubscribe(d(kind, full), blocked)
  BY Zenon DEF Publish, SubscribeRetained, Kinds
<1> DEFINE n  == m(kind)
           pl == place(kind, full)
           e  == d(kind, full)
           u  == Update(e, ModeAtInsert, sock)
           B  == BookOf(name, keep)
<1>2. /\ Offer(n, pl) /\ e = Enlist(msgs_out, n, pl)
      /\ \/ Leave(IF pl = "dropped" THEN msgs_out ELSE u)
         \/ \E blocked \in BOOLEAN : FinishSubscribe(e, blocked)
  BY <1>1, Zenon
<1>3. pl \in {"inflight", "queued", "storage", "dropped"}
  BY Zenon DEF Place
<1>4. PICK more : more = WithName(name, n)
  BY Zenon
<1> DEFINE C == BookOf(more, keep)'
<1>5. OthersOK
  BY Zenon DEF Inv
<1>6. /\ Ledger(more)' /\ Extends(C, B) /\ OwedOK(C)
      /\ n \in Msg /\ n.age = 0 /\ n.state = "queued"
      /\ n.id \notin DOMAIN B.name /\ InBook(n, C) /\ n.kind = C.name[n.id].kind
      /\ n.id \notin C.got /\ C.owed \subseteq B.owed \cup {n.id}
      /\ pl = "dropped" => C.owed \subseteq B.owed
  <2> HIDE DEF pl, e, u
  <2>1. Ledger(more)' /\ Offered(n, pl, B, C)
    BY <1>2, <1>4, <1>5, OfferLedger, Zenon
  <2> HIDE DEF n, B, C
  <2> QED BY <2>1, Zenon DEF Offered
<1>7. pl = "dropped" => e = msgs_out
  BY <1>2, Zenon DEF Enlist
<1>8. Sound(msgs_out, in_packets, Phase(sock), B)
  BY Zenon
<1> HIDE DEF n, pl, e, u, B, C
<1>9. Sound(e, in_packets, Phase(sock), C)
  <2>1. CASE pl = "dropped"
    BY <1>6, <1>7, <1>8, <2>1, ExtendSound, Zenon
  <2>2. CASE pl # "dropped"
    BY <1>2, <1>3, <1>6, <1>8, <2>2, EnlistSound, Zenon
  <2> QED BY <2>1, <2>2, Zenon
<1>10. Leaves(C)
  <2>1. CASE Leave(IF pl = "dropped" THEN msgs_out ELSE u)
    <3>1. Sound(u, in_packets, Phase(sock), C)
      BY <1>6, <1>9, UpdateSound, Zenon DEF u, Phase
    <3>2. /\ msgs_out' = IF pl = "dropped" THEN msgs_out ELSE u
          /\ in_packets' = in_packets /\ sock' = sock
      BY <2>1, Zenon DEF Leave, linkVars
    <3>3. msgs_out' = u \/ msgs_out' = e
      BY <1>7, <3>2, Zenon
    <3> QED BY <1>9, <3>1, <3>2, <3>3, KeepUp, Zenon
  <2>2. CASE \E blocked \in BOOLEAN : FinishSubscribe(e, blocked)
    BY <1>6, <1>9, <2>2, FinishSound, Zenon
  <2> QED BY <1>2, <2>1, <2>2, Zenon
<1> QED BY <1>6, <1>10, Zenon DEF C

\* The expiry of a message is a reason to discard it.
LEMMA ExpireStep ==
    ASSUME NEW name, Ledger(name), NEW keep,
           Sound(msgs_out, in_packets, Phase(sock), BookOf(name, keep)), Expire
    PROVE  Ledger(name)' /\ Leaves(BookOf(name, keep)')
<1> DEFINE B == BookOf(name, keep)
           C == BookOf(name, keep)'
<1>1. /\ expired \subseteq expired'
      /\ UNCHANGED <<msgs_out, sock, in_packets, last_mid, offered, accepted,
                     delivered, refused, unreleased>>
  BY Zenon DEF Expire, linkVars, offerVars, clientVars
<1>2. Ledger(name)'
  BY <1>1, Zenon DEF Ledger
<1>3. Owed' \subseteq Owed
  BY <1>1, Zenon DEF Owed, Excused
<1>4. C.owed \subseteq B.owed /\ Extends(C, B)
  BY <1>1, <1>3, Zenon DEF BookOf, Extends
<1>5. Sound(msgs_out, in_packets, Phase(sock), B)
  BY Zenon
<1> HIDE DEF B, C
<1>6. Sound(msgs_out, in_packets, Phase(sock), C)
  BY <1>4, <1>5, ExtendSound, Zenon
<1>7. Leaves(C)
  BY <1>1, <1>6, KeepUp, Zenon
<1> QED BY <1>2, <1>7, Zenon DEF C

\* The invariant holds initially.
LEMMA HandshakeInit ==
    ASSUME Init, NEW keep
    PROVE  HandshakeInv(keep)
<1> DEFINE none == <<>>
<1>1. /\ msgs_out = FreshMsgData /\ last_mid = 0 /\ sock = "up" /\ in_packets = <<>>
      /\ offered = 0 /\ accepted = {} /\ unreleased = {}
      /\ delivered = [i \in 1..MaxMsgs |-> 0]
  BY Zenon DEF Init
<1>2. Inv(Msg)
  BY InvInit, Zenon DEF Inflights
<1>3. PICK name : name = [x \in 1..0 |-> 0]
  BY Zenon
<1>4. Ledger(name)
  <2>1. /\ 1..0 = {} /\ DOMAIN name = {} /\ name \in [1..0 -> [mid: 0..MaxMid, kind: Kinds]]
    BY <1>3
  <2>2. Naming(name)
    BY <2>1, Zenon DEF Naming
  <2> QED BY <1>1, <2>1, <2>2, SMTT(30) DEF Ledger
<1>5. BookOf(name, keep).owed = {}
  BY <1>1, Zenon DEF BookOf, Owed
<1>6. Sound(msgs_out, in_packets, Phase(sock), BookOf(name, keep))
  BY <1>1, <1>5, FreshSound, Zenon DEF Phase
<1> QED BY <1>2, <1>4, <1>6, Zenon DEF HandshakeInv

\* Every step keeps the invariant; with keep, as long as no session is resumed whose
\* only messages are on the storage list.
LEMMA HandshakeStep ==
    ASSUME Counting, NoWrap, NEW keep \in BOOLEAN, keep => NothingOnlyStored,
           HandshakeInv(keep), [Next]_vars
    PROVE  HandshakeInv(keep)'
<1>1. Inv(Msg) /\ Inv(Msg)'
  <2>1. Inv(Msg)
    BY Zenon DEF HandshakeInv
  <2> QED BY <2>1, InvStep, Zenon DEF Inflights
<1>2. PICK name : Ledger(name) /\ Sound(msgs_out, in_packets, Phase(sock), BookOf(name, keep))
  BY Zenon DEF HandshakeInv
<1> SUFFICES \E more : Ledger(more)' /\ Leaves(BookOf(more, keep)')
  BY <1>1, Zenon DEF HandshakeInv, Leaves
<1>3. OthersOK
  BY <1>1, Zenon DEF Inv
<1>4. OwedOK(BookOf(name, keep)) /\ Naming(BookOf(name, keep).name)
  BY <1>2, <1>3, OwedRight, Zenon
<1>5. BookOf(name, keep).owed = {} \/ NothingOnlyStored
  BY Zenon DEF BookOf
<1>6. CASE \/ \E blocked \in BOOLEAN : Subscribe(blocked)
           \/ UnsubscribeLatency
           \/ \E verdict \in {"normal", "slow"} : HandlePuback(verdict)
           \/ HandlePubcomp \/ HandlePubrec \/ HandlePubrecFail
           \/ Break \/ Disconnect
           \/ \E inbound \in BOOLEAN : Reconnect(inbound)
           \/ Tick
  <2>1. PICK B : B = BookOf(name, keep)
    BY Zenon
  <2>2. /\ Leaves(B)
        /\ UNCHANGED <<expired, last_mid, offered, accepted, delivered, refused, unreleased>>
    BY <1>1, <1>2, <1>4, <1>5, <1>6, <2>1, BrokerStep, Zenon
  <2>3. Ledger(name)' /\ BookOf(name, keep)' = B
    BY <1>2, <2>1, <2>2, SameBook, Zenon
  <2> QED BY <2>2, <2>3, Zenon
<1>7. CASE \/ \E kind \in PublishKinds, full \in BOOLEAN : Publish(kind, full)
           \/ \E kind \in RetainedKinds, full, blocked \in BOOLEAN :
                SubscribeRetained(kind, full, blocked)
  BY <1>1, <1>2, <1>7, OfferStep, Zenon
<1>8. CASE ClientReceive
  BY <1>1, <1>2, <1>8, ClientStep, Zenon
<1>9. CASE Expire
  BY <1>2, <1>9, ExpireStep, Zenon
<1>10. CASE UNCHANGED vars
  <2>1. /\ UNCHANGED <<expired, last_mid, offered, accepted, delivered, refused, unreleased>>
        /\ UNCHANGED <<msgs_out, in_packets, sock>>
    BY <1>10, Zenon DEF vars, linkVars, offerVars, clientVars
  <2>2. Ledger(name)' /\ BookOf(name, keep)' = BookOf(name, keep)
    BY <1>2, <2>1, SameBook, Zenon
  <2>3. Leaves(BookOf(name, keep))
    BY <1>2, <2>1, KeepUp, Zenon
  <2> QED BY <2>2, <2>3, Zenon
<1> QED BY <1>6, <1>7, <1>8, <1>9, <1>10, Zenon DEF Next

\* What the invariant says of the state.
LEMMA HandshakeImplies ==
    ASSUME NEW keep \in BOOLEAN, HandshakeInv(keep)
    PROVE  /\ ExactlyOnce /\ UnsentAreLast /\ WaitingIsAnswered
           /\ keep => NoSilentLoss
<1>1. PICK name : Ledger(name) /\ Sound(msgs_out, in_packets, Phase(sock), BookOf(name, keep))
  BY Zenon DEF HandshakeInv
<1> DEFINE B == BookOf(name, keep)
<1>2. OthersOK
  BY Zenon DEF HandshakeInv, Inv
<1>3. ExactlyOnce
  BY <1>1, Zenon DEF Ledger, ExactlyOnce
<1>4. UnsentAreLast
  BY <1>1, Zenon DEF Sound, Phase, UnsentLast, UnsentAreLast
<1>5. keep => NoSilentLoss
  <2>1. SUFFICES ASSUME keep, NEW a \in accepted, a.kind.qos # 0, delivered[a.id] = 0,
                        ~Excused(a)
                 PROVE  \E m \in Held : m.id = a.id
    <3>1. \A a \in accepted : delivered[a.id] \in 0..2
      BY <1>2, Zenon DEF OthersOK
    <3>2. \A a \in accepted : delivered[a.id] > 0 \/ delivered[a.id] = 0
      BY <3>1
    <3> QED BY <3>2, Zenon DEF NoSilentLoss
  <2>2. a.id \in 1..MaxMsgs
    BY <1>2, <2>1, Zenon DEF OthersOK
  <2>3. a.id \in Owed
    BY <2>1, <2>2, Zenon DEF Owed
  <2>4. a.id \in B.owed /\ Holds(msgs_out, B)
    BY <1>1, <2>1, <2>3, Zenon DEF BookOf, Sound
  <2> HIDE DEF B
  <2> QED BY <2>4, Zenon DEF Holds, HeldIn, Late, Held
<1>6. WaitingIsAnswered
  <2>1. SUFFICES ASSUME sock = "up", NEW m \in Elements(msgs_out.inflight)
                 PROVE  LET Coming(type, answers) ==
                              \/ \E p \in Elements(msgs_out.out) : p.type = type /\ p.mid = m.mid
                              \/ \E a \in Elements(in_packets) : a.type \in answers /\ a.mid = m.mid
                        IN  /\ m.state = "wait_for_puback" => Coming("PUBLISH", {"PUBACK"})
                            /\ m.state = "wait_for_pubrec" =>
                                 Coming("PUBLISH", {"PUBREC", "PUBREC_FAIL"})
                            /\ m.state = "wait_for_pubcomp" => Coming("PUBREL", {"PUBCOMP"})
    BY Zenon DEF WaitingIsAnswered
  <2>2. /\ ListsOK(msgs_out, B) /\ WiresOK(msgs_out, in_packets, TRUE, B)
        /\ msgs_out.out \in Seq(Packet) /\ in_packets \in Seq(Ack)
    BY <1>1, <1>2, <2>1, DataFields, Zenon DEF Sound, Phase, Inflights, OthersOK
  <2> HIDE DEF B
  <2>3. ASSUME Expect(m.state) # {}
        PROVE  \E t \in Tokens(msgs_out, in_packets) : t.mid = m.mid /\ t.type \in Expect(m.state)
    <3>1. PICK t \in Tokens(msgs_out, in_packets) : t.id = m.id
      BY <2>2, <2>3, Zenon DEF WiresOK
    <3>2. m \in HeldIn(msgs_out)
      BY Zenon DEF HeldIn
    <3>3. MsgOK(m, B) /\ TokenOK(t, B) /\ Match(m, t)
      BY <2>2, <3>2, Zenon DEF ListsOK, WiresOK
    <3> QED BY <3>1, <3>3, Zenon DEF MsgOK, TokenOK, InBook, Match
  <2>4. /\ \A t \in Elements(msgs_out.out) : t.type \in {"PUBLISH", "PUBREL"}
        /\ \A t \in Elements(in_packets) : t.type \notin {"PUBLISH", "PUBREL"}
    <3>1. Elements(msgs_out.out) \subseteq Packet /\ Elements(in_packets) \subseteq Ack
      BY <2>2, SMTT(30) DEF Elements
    <3> QED BY <3>1, Zenon DEF Packet, Ack
  <2>5. ASSUME m.state = "wait_for_puback"
        PROVE  \/ \E p \in Elements(msgs_out.out) : p.type = "PUBLISH" /\ p.mid = m.mid
               \/ \E a \in Elements(in_packets) : a.type \in {"PUBACK"} /\ a.mid = m.mid
    BY <2>3, <2>4, <2>5, Zenon DEF Expect, Tokens
  <2>6. ASSUME m.state = "wait_for_pubrec"
        PROVE  \/ \E p \in Elements(msgs_out.out) : p.type = "PUBLISH" /\ p.mid = m.mid
               \/ \E a \in Elements(in_packets) :
                    a.type \in {"PUBREC", "PUBREC_FAIL"} /\ a.mid = m.mid
    BY <2>3, <2>4, <2>6, Zenon DEF Expect, Tokens
  <2>7. ASSUME m.state = "wait_for_pubcomp"
        PROVE  \/ \E p \in Elements(msgs_out.out) : p.type = "PUBREL" /\ p.mid = m.mid
               \/ \E a \in Elements(in_packets) : a.type \in {"PUBCOMP"} /\ a.mid = m.mid
    BY <2>3, <2>4, <2>7, Zenon DEF Expect, Tokens
  <2> QED BY <2>5, <2>6, <2>7, Zenon
<1> QED BY <1>3, <1>4, <1>5, <1>6, Zenon

-----------------------------------------------------------------------------
(* The theorems                                                            *)

\* The library's theorems about finite sets.
Finite == INSTANCE FiniteSetTheorems

\* They are about the Cardinality and IsFiniteSet that count the lists of a client.
LEMMA SameSize ==
    \A S : Cardinality(S) = Finite!Cardinality(S) /\ (IsFiniteSet(S) <=> Finite!IsFiniteSet(S))
  BY Zenon DEF Cardinality, IsFiniteSet, Finite!Cardinality, Finite!IsFiniteSet

\* The hypothesis of the lemmas above holds.
LEMMA CountingHolds == Counting
<1>1. SizeIsNatural /\ SizeOfEmpty /\ SizeOfSingleton /\ SizeOfInterval
  BY SameSize, Finite!FS_CardinalityType, Finite!FS_EmptySet, Finite!FS_Singleton,
     Finite!FS_Interval, Zenon
     DEF SizeIsNatural, SizeOfEmpty, SizeOfSingleton, SizeOfInterval
<1>2. SizeOfSubset /\ SizeOfRest /\ SizeOfUnion
  BY SameSize, Finite!FS_Subset, Finite!FS_RemoveElement, Finite!FS_Union, Zenon
     DEF SizeOfSubset, SizeOfRest, SizeOfUnion
<1>3. SizeByInjection /\ InjectionIsOnto
  <2>1. ASSUME NEW S, NEW T, NEW f \in [S -> T], OneToOne(f, S)
        PROVE  f \in Finite!Injection(S, T)
    BY <2>1, Zenon DEF OneToOne, Finite!Injection, Finite!IsInjective
  <2>2. ASSUME NEW S, NEW T, NEW f \in Finite!Surjection(S, T)
        PROVE  Onto(f, S, T)
    BY Zenon DEF Onto, Finite!Surjection
  <2> QED BY SameSize, <2>1, <2>2, Finite!FS_Injection, Zenon
          DEF SizeByInjection, InjectionIsOnto
<1>4. SizeByBijection
  <2>1. ASSUME NEW S, NEW T, NEW f \in [S -> T], OneToOne(f, S), Onto(f, S, T)
        PROVE  Finite!ExistsBijection(S, T)
    BY <2>1, Zenon DEF OneToOne, Onto, Finite!ExistsBijection, Finite!Bijection,
                       Finite!Injection, Finite!Surjection, Finite!IsInjective
  <2> QED BY SameSize, <2>1, Finite!FS_Bijection, Zenon DEF SizeByBijection
<1> QED BY <1>1, <1>2, <1>3, <1>4, Zenon DEF Counting

\* The variables of the outgoing message path always have their types.
THEOREM TypeCorrect ==
    Spec => []TypeOK
<1> USE CountingHolds
<1>1. Msg \in Inflights
  BY Zenon DEF Inflights
<1>2. Init => Inv(Msg)
  BY <1>1, InvInit, SMTT(30)
<1>3. Inv(Msg) /\ [Next]_vars => Inv(Msg)'
  BY <1>1, InvStep, SMTT(30)
<1>4. Inv(Msg) => TypeOK
  BY <1>1, InvImplies, SMTT(30)
<1> QED BY <1>2, <1>3, <1>4, PTL DEF Spec

\* The storage list is always ordered by age, so the loop of
\* db__message_write_storage_out moves exactly the messages that are due.
THEOREM StorageStaysOrdered ==
    Spec => []StorageOldestFirst
<1> USE CountingHolds
<1>1. Msg \in Inflights
  BY Zenon DEF Inflights
<1>2. Init => Inv(Msg)
  BY <1>1, InvInit, Zenon
<1>3. Inv(Msg) /\ [Next]_vars => Inv(Msg)'
  BY <1>1, InvStep, Zenon
<1>4. Inv(Msg) => StorageOldestFirst
  BY <1>1, InvImplies, Zenon
<1> QED BY <1>2, <1>3, <1>4, PTL DEF Spec

\* When QoS 0 messages are never queued, or the number of inflight messages is not
\* limited (as in the mosquitto.conf of the repository), no message is left on the
\* inflight list in a state in which neither a write nor an answer moves it.
THEOREM InflightStaysLive ==
    ASSUME Qos0NeverQueued
    PROVE  Spec => []InflightIsLive
<1> USE CountingHolds
<1>1. LiveMsg \in Inflights
  BY Zenon DEF Inflights
<1>2. Init => Inv(LiveMsg)
  BY <1>1, InvInit, Zenon
<1>3. Inv(LiveMsg) /\ [Next]_vars => Inv(LiveMsg)'
  BY <1>1, InvStep, Zenon
<1>4. Inv(LiveMsg) => InflightIsLive
  BY LiveInvImplies, SMTT(20)
<1> QED BY <1>2, <1>3, <1>4, PTL DEF Spec

\* msg_count12 counts the QoS 1 and 2 messages on the lists, for every limit, QoS,
\* expiry, oversize message and refusal, as long as the transmit policy stores nothing
\* (db__message_reconnect_reset_outgoing does not count the storage list).
THEOREM CountStaysExact ==
    ASSUME StorageUnused
    PROVE  Spec => []CountExact
<1> USE CountingHolds
<1>1. Init => LimitsInv
  BY LimitsInit, Zenon
<1>2. LimitsInv /\ [Next]_vars => LimitsInv'
  BY LimitsStep, Zenon
<1>3. LimitsInv => CountExact
  <2> SUFFICES ASSUME LimitsInv PROVE CountExact
    BY Zenon
  <2>1. /\ msgs_out \in Data(Msg) /\ msgs_out.storage = <<>>
        /\ msgs_out.msg_count12 = InflightCount(msgs_out) + QueuedCount(msgs_out)
    BY Zenon DEF LimitsInv, Inv, Limits
  <2>2. N12(msgs_out.storage) = 0
    BY <2>1, N12Empty, Zenon
  <2>3. InflightCount(msgs_out) \in Nat /\ QueuedCount(msgs_out) \in Nat
    BY <2>1, CountTypes, Zenon
  <2> QED BY <2>1, <2>2, <2>3, SMTT(30) DEF CountExact, InflightCount, QueuedCount, N12
<1> QED BY <1>1, <1>2, <1>3, PTL DEF Spec

\* When no message is too large for the client, none is refused by a failing PUBREC and
\* no QoS 0 message is queued, no unit of send quota is lost: as long as the connection
\* lasts, each missing unit is held by an inflight QoS 1 or 2 message.
THEOREM QuotaNeverLeaks ==
    ASSUME StorageUnused, QuotaIsReturned
    PROVE  Spec => []NoQuotaLeak
<1> USE CountingHolds
<1>1. Init => LimitsInv
  BY LimitsInit, Zenon
<1>2. LimitsInv /\ [Next]_vars => LimitsInv'
  BY LimitsStep, Zenon
<1>3. LimitsInv => NoQuotaLeak
  BY Zenon DEF LimitsInv, Limits, Balanced, InflightCount, N12, NoQuotaLeak
<1> QED BY <1>1, <1>2, <1>3, PTL DEF Spec

\* Under the same conditions max_queued_messages bounds the queue.  db__ready_for_queue
\* does not look at the queue: it subtracts max_inflight_messages from msg_count12, which
\* is right only because the count is exact and no quota is lost.
THEOREM QueueStaysBounded ==
    ASSUME StorageUnused, QuotaIsReturned
    PROVE  Spec => []QueueBounded
<1> USE CountingHolds
<1>1. Init => LimitsInv
  BY LimitsInit, Zenon
<1>2. LimitsInv /\ [Next]_vars => LimitsInv'
  BY LimitsStep, Zenon
<1>3. LimitsInv => QueueBounded
  BY Zenon DEF LimitsInv, Limits, QueuedCount, N12, QueueBounded
<1> QED BY <1>1, <1>2, <1>3, PTL DEF Spec

\* When, in addition, no message expires and all have QoS 1 or 2, a connected client
\* with queued messages has messages in flight, so that an acknowledgement moves the
\* queue on.  (An expired message gives its quota back without looking at the queue.)
THEOREM QueueNeverStalls ==
    ASSUME StorageUnused, OnlyAcknowledged
    PROVE  Spec => []NoStall
<1> USE CountingHolds
<1>1. Init => LimitsInv
  BY LimitsInit, Zenon
<1>2. LimitsInv /\ [Next]_vars => LimitsInv'
  BY LimitsStep, Zenon
<1>3. LimitsInv => NoStall
  <2> SUFFICES ASSUME LimitsInv, sock = "up", msgs_out.queued # <<>>
               PROVE  msgs_out.inflight # <<>>
    BY Zenon DEF NoStall
  <2>1. InflightCount(msgs_out) >= 1
    BY Zenon DEF LimitsInv, Limits, Flowing
  <2>2. ASSUME msgs_out.inflight = <<>> PROVE FALSE
    <3>1. InflightCount(msgs_out) = 0
      BY <2>2, N12Empty, Zenon DEF InflightCount
    <3> QED BY <2>1, <3>1, SMTT(30)
  <2> QED BY <2>2, Zenon
<1> QED BY <1>1, <1>2, <1>3, PTL DEF Spec

\* Exactly-once delivery: over any number of connections, and whatever is lost with
\* them, the client application sees a QoS 2 message at most once.
THEOREM QosTwoDeliveredOnce ==
    ASSUME NoWrap
    PROVE  Spec => []ExactlyOnce
<1> USE CountingHolds
<1>1. Init => HandshakeInv(FALSE)
  BY HandshakeInit, Zenon
<1>2. HandshakeInv(FALSE) /\ [Next]_vars => HandshakeInv(FALSE)'
  BY HandshakeStep, Zenon
<1>3. HandshakeInv(FALSE) => ExactlyOnce
  BY HandshakeImplies, Zenon
<1> QED BY <1>1, <1>2, <1>3, PTL DEF Spec

\* The inflight messages not yet sent are the last of the list, so that the search
\* of db__message_write_inflight_out_latest from the tail finds them all.
THEOREM UnsentStayLast ==
    ASSUME NoWrap
    PROVE  Spec => []UnsentAreLast
<1> USE CountingHolds
<1>1. Init => HandshakeInv(FALSE)
  BY HandshakeInit, Zenon
<1>2. HandshakeInv(FALSE) /\ [Next]_vars => HandshakeInv(FALSE)'
  BY HandshakeStep, Zenon
<1>3. HandshakeInv(FALSE) => UnsentAreLast
  BY HandshakeImplies, Zenon
<1> QED BY <1>1, <1>2, <1>3, PTL DEF Spec

\* On a working connection the broker never waits for an answer that cannot come:
\* the packet that the client has to answer, or the answer, is under way.
THEOREM NoAnswerInVain ==
    ASSUME NoWrap
    PROVE  Spec => []WaitingIsAnswered
<1> USE CountingHolds
<1>1. Init => HandshakeInv(FALSE)
  BY HandshakeInit, Zenon
<1>2. HandshakeInv(FALSE) /\ [Next]_vars => HandshakeInv(FALSE)'
  BY HandshakeStep, Zenon
<1>3. HandshakeInv(FALSE) => WaitingIsAnswered
  BY HandshakeImplies, Zenon
<1> QED BY <1>1, <1>2, <1>3, PTL DEF Spec

\* A QoS 1 or 2 message that the broker put on a list stays on its lists until it has
\* reached the client or may be discarded, as long as no session is left whose only
\* messages are on the storage list, which connect__on_authorised does not look at.
THEOREM OnlyStorageIsLost ==
    ASSUME NoWrap
    PROVE  Spec /\ []NothingOnlyStored => []NoSilentLoss
<1> USE CountingHolds
<1>1. Init => HandshakeInv(TRUE)
  BY HandshakeInit, Zenon
<1>2. NothingOnlyStored /\ HandshakeInv(TRUE) /\ [Next]_vars => HandshakeInv(TRUE)'
  BY HandshakeStep, Zenon
<1>3. HandshakeInv(TRUE) => NoSilentLoss
  BY HandshakeImplies, Zenon
<1> QED BY <1>1, <1>2, <1>3, PTL DEF Spec
=============================================================================
