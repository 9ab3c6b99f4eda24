----------------------- MODULE IncomingSessionProofs ------------------------
(***************************************************************************)
(* The steps of the publisher and the losses of its connection keep the    *)
(* handshakes going; the theorems about a whole session.                   *)
(***************************************************************************)
EXTENDS IncomingMessagesProofs

-----------------------------------------------------------------------------
(* The publisher                                                           *)

\* The parts of the invariant that are about the broker's lists stay when neither
\* they nor what was handed on or refused changes.
LEMMA ListsUnchanged ==
    ASSUME UNCHANGED <<msgs_in, routed, rejected>>
    PROVE  Infl' = Infl /\ Listed' = Listed /\ Settled' = Settled
<1>1. msgs_in' = msgs_in /\ routed' = routed /\ rejected' = rejected
  OBVIOUS
<1>2. Infl' = Infl
  BY <1>1, Zenon DEF Infl
<1>3. Listed' = Listed
  BY <1>2, Zenon DEF Listed
<1>4. Settled' = Settled
  BY <1>1, Zenon DEF Settled
<1> QED BY <1>2, <1>3, <1>4

\* What the client publishes next is new: nobody has the message yet, and no packet
\* or reply uses the packet identifier.
NewPacket(p) ==
    /\ in_packets' = Append(in_packets, p)
    /\ p \in SoundPacket /\ p.type = "PUBLISH"
    /\ p.id \notin DOMAIN published /\ p.id \in 1..MaxMsgs
    /\ published' = Append(published, p.kind)
    /\ p.id \in DOMAIN published' /\ published'[p.id] = p.kind
    /\ \A i \in DOMAIN published : i \in DOMAIN published' /\ published'[i] = published[i]
    /\ \A i \in DOMAIN published' : i \in DOMAIN published \/ i = p.id
    /\ Len(published') <= MaxMsgs
    /\ \/ p.kind.qos = 0 /\ p.mid = 0 /\ unfinished' = unfinished
       \/ /\ p.kind.qos > 0 /\ p.mid # 0
          /\ Len(unfinished') <= Window
          /\ \A k \in DOMAIN unfinished : k \in DOMAIN unfinished' /\ unfinished'[k] = unfinished[k]
          /\ \A k \in DOMAIN unfinished : unfinished[k].mid # p.mid
          /\ \E u \in Unfinished :
               /\ u.id = p.id /\ u.mid = p.mid /\ u.kind = p.kind /\ u.phase = "publish"
               /\ Len(unfinished) + 1 \in DOMAIN unfinished' /\ unfinished'[Len(unfinished) + 1] = u
               /\ \A k \in DOMAIN unfinished' :
                    \/ k \in DOMAIN unfinished /\ unfinished'[k] = unfinished[k]
                    \/ k \notin DOMAIN unfinished /\ k = Len(unfinished) + 1 /\ unfinished'[k] = u

\* Each PUBLISH of the client but a repeated one is new in this sense.
LEMMA PublishIsNew ==
    ASSUME Counting, TypeInv, ClientOK, NEW kind \in InKinds, ClientPublish(kind)
    PROVE  \E p : NewPacket(p)
<1> DEFINE id == Len(published) + 1
           q0 == [type |-> "PUBLISH", id |-> id, mid |-> 0, kind |-> kind]
           u  == [id |-> id, mid |-> FirstOf(FreeMids), kind |-> kind, phase |-> "publish"]
<1>1. /\ Len(published) < MaxMsgs
      /\ published' = Append(published, kind)
      /\ \/ kind.qos = 0 /\ in_packets' = Append(in_packets, q0) /\ UNCHANGED unfinished
         \/ /\ kind.qos > 0 /\ FreeMids # {} /\ Len(unfinished) < Window
            /\ unfinished' = Append(unfinished, u)
            /\ in_packets' = Append(in_packets, Again(u))
  BY DEF ClientPublish
<1>2. /\ published \in Seq(InKinds) /\ unfinished \in Seq(Unfinished)
      /\ in_packets \in Seq(SoundPacket)
  BY TypeParts
<1>3. /\ id \in 1..MaxMsgs /\ id \notin DOMAIN published
      /\ id \in DOMAIN published' /\ published'[id] = kind
      /\ \A i \in DOMAIN published : i \in DOMAIN published' /\ published'[i] = published[i]
      /\ \A i \in DOMAIN published' : i \in DOMAIN published \/ i = id
      /\ Len(published') <= MaxMsgs
  BY <1>1, <1>2, ConstantsAssumption
<1>4. CASE kind.qos = 0 /\ in_packets' = Append(in_packets, q0) /\ UNCHANGED unfinished
  <2>1. 0 \in 0..MaxMid /\ ~(kind.qos > 0)
    BY <1>4, ConstantsAssumption
  <2>2. /\ q0 \in Packet /\ q0.kind = kind /\ q0.id = id /\ q0.mid = 0 /\ q0.type = "PUBLISH"
    BY <1>3, <2>1, Zenon DEF Packet
  <2>3. q0 \in SoundPacket
    BY <2>1, <2>2, Zenon DEF SoundPacket
  <2>4. unfinished' = unfinished /\ in_packets' = Append(in_packets, q0)
    BY <1>4
  <2> HIDE DEF q0, id
  <2>5. NewPacket(q0)
    BY <1>1, <1>3, <1>4, <2>2, <2>3, <2>4, Zenon DEF NewPacket
  <2> QED BY <2>5
<1>5. CASE /\ kind.qos > 0 /\ FreeMids # {} /\ Len(unfinished) < Window
           /\ unfinished' = Append(unfinished, u)
           /\ in_packets' = Append(in_packets, Again(u))
  <2>1. u \in Unfinished /\ FirstOf(FreeMids) \in FreeMids
    BY <1>1, <1>5, NewEntryType, Zenon
  <2>2. u.id = id /\ u.mid = FirstOf(FreeMids) /\ u.kind = kind /\ u.phase = "publish"
    OBVIOUS
  <2> HIDE DEF u, id
  <2>3. Again(u) \in SoundPacket
    BY <2>1, AgainType
  <2>4. Again(u) = [type |-> "PUBLISH", id |-> u.id, mid |-> u.mid, kind |-> u.kind]
    BY <2>2 DEF Again
  <2>5. /\ Again(u).type = "PUBLISH" /\ Again(u).id = u.id /\ Again(u).mid = u.mid
        /\ Again(u).kind = kind
    BY <2>2, <2>4
  <2>6. u.mid # 0
    BY <2>1 DEF Unfinished
  <2>7. \A k \in DOMAIN unfinished : unfinished[k].mid # u.mid
    BY <2>1, <2>2, Zenon DEF FreeMids, Elements
  <2>8. /\ Len(unfinished') <= Window
        /\ \A k \in DOMAIN unfinished : k \in DOMAIN unfinished' /\ unfinished'[k] = unfinished[k]
        /\ Len(unfinished) + 1 \in DOMAIN unfinished' /\ unfinished'[Len(unfinished) + 1] = u
        /\ \A k \in DOMAIN unfinished' :
             \/ k \in DOMAIN unfinished /\ unfinished'[k] = unfinished[k]
             \/ k \notin DOMAIN unfinished /\ k = Len(unfinished) + 1 /\ unfinished'[k] = u
    <3>1. PICK t \in Seq(Unfinished) : t = unfinished
      BY <1>2
    <3>2. /\ Len(t) \in Nat /\ DOMAIN t = 1..Len(t) /\ DOMAIN Append(t, u) = 1..(Len(t) + 1)
          /\ Len(Append(t, u)) = Len(t) + 1
          /\ \A k \in 1..Len(t) : Append(t, u)[k] = t[k]
          /\ Append(t, u)[Len(t) + 1] = u
      BY <2>1, AppendProperties
    <3>3. unfinished' = Append(t, u) /\ Len(t) < Window
      BY <1>5, <3>1
    <3> HIDE DEF u
    <3> QED BY <3>1, <3>2, <3>3, ConstantsAssumption, SMTT(30)
  <2> DEFINE p == Again(u)
  <2>9. /\ p.type = "PUBLISH" /\ p.id = id /\ p.id = u.id /\ p.mid = u.mid /\ p.mid # 0
        /\ p.kind = kind /\ p.kind = u.kind /\ p \in SoundPacket
        /\ in_packets' = Append(in_packets, p)
    BY <1>5, <2>2, <2>3, <2>5, <2>6, Zenon
  <2> HIDE DEF p
  <2>10. NewPacket(p)
    BY <1>1, <1>3, <1>5, <2>1, <2>2, <2>7, <2>8, <2>9, Zenon DEF NewPacket
  <2> QED BY <2>10
<1> QED BY <1>1, <1>4, <1>5, Zenon

\* A new message keeps the handshakes going.
LEMMA ClientPublishStep ==
    ASSUME Counting, HandshakeInv, NEW kind \in InKinds, ClientPublish(kind)
    PROVE  HandshakeInv'
<1>1. /\ TypeInv /\ ClientOK /\ RoutedOK /\ ListsOK /\ PacketsOK /\ RepliesOK /\ AnsweredOK
      /\ LossOK
  BY DEF HandshakeInv
<1>2. PICK p : NewPacket(p)
  BY <1>1, PublishIsNew
<1>3. UNCHANGED <<msgs_in, sock, out_packets, routed, rejected, finished>> /\ sock = "up"
  BY DEF ClientPublish
<1>u. /\ msgs_in' = msgs_in /\ sock' = sock /\ out_packets' = out_packets /\ routed' = routed
      /\ finished' = finished /\ Infl' = Infl /\ Listed' = Listed /\ Settled' = Settled
  BY <1>3, ListsUnchanged
<1>4. TypeInv'
  BY <1>1, ClientPublishType, Zenon
<1>5. /\ in_packets' = Append(in_packets, p)
      /\ p \in SoundPacket /\ p.type = "PUBLISH"
      /\ p.id \notin DOMAIN published /\ p.id \in 1..MaxMsgs
      /\ p.id \in DOMAIN published' /\ published'[p.id] = p.kind
      /\ \A i \in DOMAIN published : i \in DOMAIN published' /\ published'[i] = published[i]
      /\ \A i \in DOMAIN published' : i \in DOMAIN published \/ i = p.id
      /\ Len(published') <= MaxMsgs
  BY <1>2, Zenon DEF NewPacket
<1>6. /\ \A k \in DOMAIN unfinished : k \in DOMAIN unfinished' /\ unfinished'[k] = unfinished[k]
      /\ \A k \in DOMAIN unfinished' :
           \/ k \in DOMAIN unfinished /\ unfinished'[k] = unfinished[k]
           \/ /\ k \notin DOMAIN unfinished /\ k = Len(unfinished) + 1
              /\ p.mid # 0 /\ p.kind.qos > 0
              /\ unfinished'[k].id = p.id /\ unfinished'[k].mid = p.mid
              /\ unfinished'[k].kind = p.kind /\ unfinished'[k].phase = "publish"
      /\ \A k \in DOMAIN unfinished : unfinished[k].mid # p.mid
      /\ Len(unfinished') <= Window
      /\ p.mid # 0 => \E k \in DOMAIN unfinished' : Sends(p, unfinished'[k])
      /\ p.mid = 0 => p.kind.qos = 0
  <2>1. CASE p.kind.qos = 0 /\ p.mid = 0 /\ unfinished' = unfinished
    <3>1. \A k \in DOMAIN unfinished : unfinished[k].mid # 0
      BY <1>1, EntryTypes, Zenon
    <3>2. Len(unfinished) <= Window
      BY <1>1, Zenon DEF ClientOK
    <3> QED BY <2>1, <3>1, <3>2, Zenon
  <2>2. CASE /\ p.kind.qos > 0 /\ p.mid # 0
             /\ Len(unfinished') <= Window
             /\ \A k \in DOMAIN unfinished : k \in DOMAIN unfinished' /\ unfinished'[k] = unfinished[k]
             /\ \A k \in DOMAIN unfinished : unfinished[k].mid # p.mid
             /\ \E u \in Unfinished :
                  /\ u.id = p.id /\ u.mid = p.mid /\ u.kind = p.kind /\ u.phase = "publish"
                  /\ Len(unfinished) + 1 \in DOMAIN unfinished' /\ unfinished'[Len(unfinished) + 1] = u
                  /\ \A k \in DOMAIN unfinished' :
                       \/ k \in DOMAIN unfinished /\ unfinished'[k] = unfinished[k]
                       \/ k \notin DOMAIN unfinished /\ k = Len(unfinished) + 1 /\ unfinished'[k] = u
    <3>1. PICK u \in Unfinished :
            /\ u.id = p.id /\ u.mid = p.mid /\ u.kind = p.kind /\ u.phase = "publish"
            /\ Len(unfinished) + 1 \in DOMAIN unfinished' /\ unfinished'[Len(unfinished) + 1] = u
            /\ \A k \in DOMAIN unfinished' :
                 \/ k \in DOMAIN unfinished /\ unfinished'[k] = unfinished[k]
                 \/ k \notin DOMAIN unfinished /\ k = Len(unfinished) + 1 /\ unfinished'[k] = u
      BY <2>2, Zenon
    <3>2. Sends(p, u)
      BY <1>5, <3>1 DEF Sends
    <3>3. \E k \in DOMAIN unfinished' : Sends(p, unfinished'[k])
      BY <3>1, <3>2, Zenon
    <3> QED BY <2>2, <3>1, <3>3, Zenon
  <2> QED BY <1>2, <2>1, <2>2, Zenon DEF NewPacket
<1>7. ClientOK'
  <2>1. ASSUME NEW k \in DOMAIN unfinished'
        PROVE  /\ unfinished'[k].id \in DOMAIN published'
               /\ unfinished'[k].kind = published'[unfinished'[k].id]
               /\ unfinished'[k].kind.qos > 0
               /\ unfinished'[k].phase = "pubrel" => unfinished'[k].kind.qos = 2
    <3>1. CASE k \in DOMAIN unfinished /\ unfinished'[k] = unfinished[k]
      <4>1. /\ unfinished[k].id \in DOMAIN published
            /\ unfinished[k].kind = published[unfinished[k].id]
            /\ unfinished[k].kind.qos > 0
            /\ unfinished[k].phase = "pubrel" => unfinished[k].kind.qos = 2
        BY <1>1, <3>1, Zenon DEF ClientOK
      <4> QED BY <1>5, <3>1, <4>1, Zenon
    <3>2. CASE /\ p.kind.qos > 0
               /\ unfinished'[k].id = p.id /\ unfinished'[k].mid = p.mid
               /\ unfinished'[k].kind = p.kind /\ unfinished'[k].phase = "publish"
      BY <1>5, <3>2
    <3> QED BY <1>6, <3>1, <3>2, Zenon
  <2>2. ASSUME NEW k \in DOMAIN unfinished, NEW l \in DOMAIN unfinished', unfinished'[l].id = p.id
        PROVE  unfinished[k].id # unfinished'[l].id
    BY <1>1, <1>5, <2>2, Zenon DEF ClientOK
  <2>3. ASSUME NEW k \in DOMAIN unfinished', NEW l \in DOMAIN unfinished', k # l
        PROVE  /\ unfinished'[k].id # unfinished'[l].id
               /\ unfinished'[k].mid # unfinished'[l].mid
    <3>1. CASE k \in DOMAIN unfinished /\ l \in DOMAIN unfinished
      <4>1. unfinished'[k] = unfinished[k] /\ unfinished'[l] = unfinished[l]
        BY <1>6, <3>1, Zenon
      <4>2. unfinished[k].id # unfinished[l].id /\ unfinished[k].mid # unfinished[l].mid
        BY <1>1, <2>3, <3>1, Zenon DEF ClientOK
      <4> QED BY <4>1, <4>2, Zenon
    <3>2. CASE k \in DOMAIN unfinished /\ l \notin DOMAIN unfinished
      <4>1. unfinished'[l].id = p.id /\ unfinished'[l].mid = p.mid
        BY <1>6, <3>2, Zenon
      <4>2. unfinished'[k] = unfinished[k] /\ unfinished[k].mid # p.mid
        BY <1>6, <3>2, Zenon
      <4> QED BY <2>2, <3>2, <4>1, <4>2, Zenon
    <3>3. CASE k \notin DOMAIN unfinished /\ l \in DOMAIN unfinished
      <4>1. unfinished'[k].id = p.id /\ unfinished'[k].mid = p.mid
        BY <1>6, <3>3, Zenon
      <4>2. unfinished'[l] = unfinished[l] /\ unfinished[l].mid # p.mid
        BY <1>6, <3>3, Zenon
      <4> QED BY <2>2, <3>3, <4>1, <4>2, Zenon
    <3>4. CASE k \notin DOMAIN unfinished /\ l \notin DOMAIN unfinished
      BY <1>6, <2>3, <3>4, Zenon
    <3> QED BY <3>1, <3>2, <3>3, <3>4
  <2> QED BY <1>5, <1>6, <2>1, <2>3, Zenon DEF ClientOK
<1>8. routed[p.id] = 0 /\ \A i \in 1..MaxMsgs : i \notin DOMAIN published => routed[i] = 0
  BY <1>1, <1>5, Zenon DEF RoutedOK
<1>9. RoutedOK'
  <2>1. \A i \in 1..MaxMsgs : i \notin DOMAIN published' => routed[i] = 0
    BY <1>5, <1>8, Zenon
  <2>2. ASSUME NEW k \in DOMAIN unfinished', unfinished'[k].kind.qos = 2,
               unfinished'[k].phase = "publish"
        PROVE  routed[unfinished'[k].id] = 0
    <3>1. CASE k \in DOMAIN unfinished /\ unfinished'[k] = unfinished[k]
      BY <1>1, <2>2, <3>1, Zenon DEF RoutedOK
    <3>2. CASE unfinished'[k].id = p.id
      BY <1>8, <3>2
    <3> QED BY <1>6, <3>1, <3>2, Zenon
  <2>3. ASSUME NEW i \in DOMAIN published', published'[i].qos = 2
        PROVE  routed[i] <= 1
    <3>1. CASE i \in DOMAIN published
      BY <1>1, <1>5, <2>3, <3>1, Zenon DEF RoutedOK, RoutedOnce
    <3>2. CASE i = p.id
      BY <1>8, <3>2
    <3> QED BY <1>5, <3>1, <3>2, Zenon
  <2> QED BY <1>u, <2>1, <2>2, <2>3, Zenon DEF RoutedOK, RoutedOnce
<1>10. ListsOK'
  <2>1. ASSUME NEW i \in DOMAIN Infl
        PROVE  \E k \in DOMAIN unfinished' : Belongs(Infl[i], unfinished'[k])
    <3>1. PICK k \in DOMAIN unfinished : Belongs(Infl[i], unfinished[k])
      BY <1>1, Zenon DEF ListsOK
    <3> QED BY <1>6, <3>1, Zenon
  <2>2. /\ msgs_in.queued = <<>> /\ InMax <= msgs_in.inflight_quota + Inflight(msgs_in)
        /\ \A i, j \in DOMAIN Infl : i # j => Infl[i].id # Infl[j].id
        /\ \A i \in DOMAIN Infl : routed[Infl[i].id] = 0
    BY <1>1, Zenon DEF ListsOK
  <2> QED BY <1>u, <2>1, <2>2, Zenon DEF ListsOK
<1>11. /\ in_packets \in Seq(SoundPacket)
       /\ \A i \in DOMAIN in_packets : i \in DOMAIN in_packets' /\ in_packets'[i] = in_packets[i]
       /\ \A i \in DOMAIN in_packets' :
            \/ i \in DOMAIN in_packets /\ in_packets'[i] = in_packets[i]
            \/ i \notin DOMAIN in_packets /\ i = Len(in_packets) + 1 /\ in_packets'[i] = p
       /\ Len(in_packets) + 1 \in DOMAIN in_packets' /\ in_packets'[Len(in_packets) + 1] = p
  <2>1. in_packets \in Seq(SoundPacket)
    BY <1>1, TypeParts
  <2> QED BY <1>5, <2>1, AppendProperties
<1>12. \A i \in DOMAIN in_packets : in_packets[i].mid # p.mid \/ p.mid = 0
  <2> SUFFICES ASSUME NEW i \in DOMAIN in_packets, p.mid # 0, in_packets[i].mid = p.mid PROVE FALSE
    BY Zenon
  <2>1. PICK k \in DOMAIN unfinished : Sends(in_packets[i], unfinished[k])
    BY <1>1, Zenon DEF PacketsOK
  <2> QED BY <1>6, <2>1, Zenon DEF Sends
<1>13. \A i \in DOMAIN out_packets : out_packets[i].mid # p.mid
  <2> SUFFICES ASSUME NEW i \in DOMAIN out_packets PROVE out_packets[i].mid # p.mid
    OBVIOUS
  <2>1. PICK k \in DOMAIN unfinished : Answers(out_packets[i], unfinished[k], Listed)
    BY <1>1, Zenon DEF RepliesOK
  <2> QED BY <1>6, <2>1, Zenon DEF Answers
<1>14. PacketsOK'
  <2>1. ASSUME NEW i \in DOMAIN in_packets'
        PROVE  \/ in_packets'[i].mid = 0 /\ Simple(in_packets'[i], published')
               \/ in_packets'[i].mid # 0
                  /\ \E k \in DOMAIN unfinished' : Sends(in_packets'[i], unfinished'[k])
    <3>1. CASE i \in DOMAIN in_packets /\ in_packets'[i] = in_packets[i]
      <4>1. CASE in_packets[i].mid = 0 /\ Simple(in_packets[i], published)
        <5>1. Simple(in_packets[i], published')
          BY <1>5, <4>1, Zenon DEF Simple
        <5> QED BY <3>1, <4>1, <5>1, Zenon
      <4>2. CASE in_packets[i].mid # 0 /\ \E k \in DOMAIN unfinished : Sends(in_packets[i], unfinished[k])
        <5>1. PICK k \in DOMAIN unfinished : Sends(in_packets[i], unfinished[k])
          BY <4>2
        <5> QED BY <1>6, <3>1, <4>2, <5>1, Zenon
      <4> QED BY <1>1, <3>1, <4>1, <4>2, Zenon DEF PacketsOK
    <3>2. CASE in_packets'[i] = p
      <4>1. p.mid = 0 => Simple(p, published')
        BY <1>5, <1>6, Zenon DEF Simple
      <4> QED BY <1>6, <3>2, <4>1, Zenon
    <3> QED BY <1>11, <3>1, <3>2, Zenon
  <2>2. ASSUME NEW i \in DOMAIN in_packets', NEW j \in DOMAIN in_packets', i # j
        PROVE  in_packets'[i].mid # in_packets'[j].mid \/ in_packets'[i].mid = 0
    <3>1. CASE i \in DOMAIN in_packets /\ j \in DOMAIN in_packets
      BY <1>1, <1>11, <2>2, <3>1, Zenon DEF PacketsOK
    <3>2. CASE i \in DOMAIN in_packets /\ j \notin DOMAIN in_packets
      BY <1>11, <1>12, <3>2, Zenon
    <3>3. CASE i \notin DOMAIN in_packets /\ j \in DOMAIN in_packets
      BY <1>11, <1>12, <3>3, Zenon
    <3>4. CASE i \notin DOMAIN in_packets /\ j \notin DOMAIN in_packets
      BY <1>11, <2>2, <3>4, Zenon
    <3> QED BY <3>1, <3>2, <3>3, <3>4
  <2>3. sock' # "closed"
    BY <1>3
  <2> QED BY <2>1, <2>2, <2>3, Zenon DEF PacketsOK
<1>15. RepliesOK'
  <2>1. ASSUME NEW i \in DOMAIN out_packets
        PROVE  \E k \in DOMAIN unfinished' : Answers(out_packets[i], unfinished'[k], Listed)
    <3>1. PICK k \in DOMAIN unfinished : Answers(out_packets[i], unfinished[k], Listed)
      BY <1>1, Zenon DEF RepliesOK
    <3> QED BY <1>6, <3>1, Zenon
  <2>2. \A i, j \in DOMAIN out_packets : i # j => out_packets[i].mid # out_packets[j].mid
    BY <1>1, Zenon DEF RepliesOK
  <2>3. ASSUME NEW i \in DOMAIN in_packets', NEW j \in DOMAIN out_packets
        PROVE  in_packets'[i].mid # out_packets[j].mid
    <3>1. CASE i \in DOMAIN in_packets /\ in_packets'[i] = in_packets[i]
      BY <1>1, <3>1, Zenon DEF RepliesOK
    <3>2. CASE in_packets'[i] = p
      BY <1>13, <3>2, Zenon
    <3> QED BY <1>11, <3>1, <3>2, Zenon
  <2> QED BY <1>u, <2>1, <2>2, <2>3, Zenon DEF RepliesOK
<1>16. AnsweredOK'
  <2> SUFFICES ASSUME NEW k \in DOMAIN unfinished'
               PROVE  \/ \E i \in DOMAIN in_packets' : in_packets'[i].mid = unfinished'[k].mid
                      \/ \E i \in DOMAIN out_packets : out_packets[i].mid = unfinished'[k].mid
    BY <1>u, Zenon DEF AnsweredOK
  <2>1. CASE k \in DOMAIN unfinished /\ unfinished'[k] = unfinished[k]
    <3>1. \/ \E i \in DOMAIN in_packets : in_packets[i].mid = unfinished[k].mid
          \/ \E i \in DOMAIN out_packets : out_packets[i].mid = unfinished[k].mid
      BY <1>1, <1>3, <2>1, Zenon DEF AnsweredOK
    <3> QED BY <1>11, <2>1, <3>1, Zenon
  <2>2. CASE unfinished'[k].mid = p.mid
    BY <1>11, <2>2, Zenon
  <2> QED BY <1>6, <2>1, <2>2, Zenon
<1>17. LossOK'
  <2> SUFFICES ASSUME PolicyInactive PROVE LossOK'
    BY DEF LossOK, PolicyInactive
  <2>1. ASSUME NEW k \in DOMAIN unfinished', unfinished'[k].phase = "pubrel"
        PROVE  unfinished'[k].id \in Settled \/ unfinished'[k].id \in Listed
    <3>1. k \in DOMAIN unfinished /\ unfinished'[k] = unfinished[k]
      <4>1. "publish" # "pubrel"
        OBVIOUS
      <4> QED BY <1>6, <2>1, <4>1, Zenon
    <3> QED BY <1>1, <2>1, <3>1, Zenon DEF LossOK
  <2>2. ASSUME NEW i \in DOMAIN out_packets, NEW k \in DOMAIN unfinished',
               out_packets[i].mid = unfinished'[k].mid
        PROVE  unfinished'[k].id \in Settled \/ unfinished'[k].id \in Listed
    <3>1. k \in DOMAIN unfinished /\ unfinished'[k] = unfinished[k]
      BY <1>6, <1>13, <2>2, Zenon
    <3> QED BY <1>1, <2>2, <3>1, Zenon DEF LossOK
  <2>3. finished \subseteq Settled
    BY <1>1, Zenon DEF LossOK
  <2> QED BY <1>u, <2>1, <2>2, <2>3, Zenon DEF LossOK
<1> QED BY <1>4, <1>7, <1>9, <1>10, <1>14, <1>15, <1>16, <1>17, Zenon DEF HandshakeInv

\* The reply r is about the entry at position k only.
IsAbout(r, k) ==
    /\ Mine(r) = {k} /\ unfinished[k].mid = r.mid
    /\ \A l \in DOMAIN unfinished : l # k => unfinished[l].mid # r.mid
    /\ r.type = "PUBREC" /\ r.ok =>
         unfinished[k].kind.qos = 2 /\ unfinished[k].phase = "publish"
    /\ r.type # "PUBREC" \/ ~r.ok => unfinished[k].id \notin Listed

\* No packet under way, and none of the other replies o, has the packet identifier
\* of the reply r.
OnlyReply(r, o) ==
    /\ r \in Reply
    /\ \A i \in DOMAIN in_packets : in_packets[i].mid # r.mid
    /\ \A i \in DOMAIN o :
         i + 1 \in DOMAIN out_packets /\ o[i] = out_packets[i + 1] /\ o[i].mid # r.mid
    /\ \A i \in DOMAIN out_packets : out_packets[i].mid # r.mid =>
         \E j \in DOMAIN o : o[j] = out_packets[i]
    /\ \A i, j \in DOMAIN o : i # j => o[i].mid # o[j].mid

\* The reply the client takes is about one entry; no other packet under way has
\* its packet identifier.
LEMMA ReplyEntry ==
    ASSUME TypeInv, ClientOK, ListsOK, PacketsOK, RepliesOK, out_packets # <<>>,
           NEW r, r = Head(out_packets)
    PROVE  /\ OnlyReply(r, Tail(out_packets))
           /\ \E k \in DOMAIN unfinished : IsAbout(r, k)
<1>1. out_packets \in Seq(Reply)
  BY TypeParts
<1>2. /\ r \in Reply /\ 1 \in DOMAIN out_packets /\ r = out_packets[1]
      /\ \A i \in DOMAIN Tail(out_packets) : i + 1 \in DOMAIN out_packets /\ i + 1 # 1
                                             /\ Tail(out_packets)[i] = out_packets[i + 1]
      /\ \A i \in DOMAIN out_packets : i # 1 =>
           \E j \in DOMAIN Tail(out_packets) : j + 1 = i /\ Tail(out_packets)[j] = out_packets[i]
      /\ \A i \in DOMAIN Tail(out_packets) : i \in Int
  <2>1. Tail(out_packets) \in Seq(Reply) /\ 1 \in DOMAIN out_packets
    BY <1>1, TailProperties
  <2>2. r \in Reply /\ \A i \in DOMAIN Tail(out_packets) : i \in Int
    BY <1>1, <2>1
  <2> QED BY <1>1, <2>1, <2>2, TailProperties
<1>3. /\ \A i \in DOMAIN in_packets : in_packets[i].mid # r.mid
      /\ \A i \in DOMAIN out_packets : i # 1 => out_packets[i].mid # r.mid
  <2>1. 1 \in DOMAIN out_packets /\ r = out_packets[1]
    BY <1>2
  <2>2. /\ \A i \in DOMAIN in_packets : in_packets[i].mid # out_packets[1].mid
        /\ \A i \in DOMAIN out_packets : i # 1 => out_packets[i].mid # out_packets[1].mid
    BY <2>1, Zenon DEF RepliesOK
  <2> QED BY <2>1, <2>2
<1>4. ASSUME NEW i \in DOMAIN Tail(out_packets), NEW j \in DOMAIN Tail(out_packets), i # j
      PROVE  Tail(out_packets)[i].mid # Tail(out_packets)[j].mid
  <2>1. i + 1 # j + 1
    BY <1>2, <1>4
  <2>2. out_packets[i + 1].mid # out_packets[j + 1].mid
    BY <1>2, <2>1, Zenon DEF RepliesOK
  <2> QED BY <1>2, <2>2, Zenon
<1>5. PICK k \in DOMAIN unfinished : Answers(r, unfinished[k], Listed)
  <2>1. 1 \in DOMAIN out_packets /\ r = out_packets[1]
    BY <1>2
  <2>2. \E k \in DOMAIN unfinished : Answers(out_packets[1], unfinished[k], Listed)
    BY <2>1, Zenon DEF RepliesOK
  <2> QED BY <2>1, <2>2
<1>6. /\ unfinished[k].mid = r.mid
      /\ \A l \in DOMAIN unfinished : l # k => unfinished[l].mid # r.mid
  <2>1. unfinished[k].mid = r.mid
    BY <1>5, Zenon DEF Answers
  <2> QED BY <2>1, Zenon DEF ClientOK
<1>7. r.type \in {"PUBACK", "PUBREC", "PUBCOMP"} /\ r.ok \in BOOLEAN
  BY <1>2 DEF Reply
<1>8. unfinished[k].kind.qos \in 0..2 /\ (unfinished[k].phase = "pubrel" => unfinished[k].kind.qos = 2)
  BY EntryTypes, Zenon DEF ClientOK
<1>9. k \in Mine(r)
  <2>1. CASE r.type = "PUBACK"
    BY <1>5, <1>6, <2>1 DEF Answers, Mine
  <2>2. CASE r.type = "PUBREC"
    BY <1>5, <1>6, <1>8, <2>2 DEF Answers, Mine
  <2>3. CASE r.type = "PUBCOMP"
    BY <1>5, <1>6, <1>8, <2>3 DEF Answers, Mine
  <2> QED BY <1>7, <2>1, <2>2, <2>3
<1>10. Mine(r) = {k}
  <2>1. \A l \in Mine(r) : l \in DOMAIN unfinished /\ unfinished[l].mid = r.mid
    BY Zenon DEF Mine
  <2> QED BY <1>6, <1>9, <2>1, Zenon
<1>11. r.type = "PUBREC" /\ r.ok =>
         unfinished[k].kind.qos = 2 /\ unfinished[k].phase = "publish"
  BY <1>5, Zenon DEF Answers
<1>12. ASSUME r.type # "PUBREC" \/ ~r.ok PROVE unfinished[k].id \notin Listed
  <2>1. CASE r.type = "PUBACK"
    <3> SUFFICES ASSUME unfinished[k].id \in Listed PROVE FALSE
      OBVIOUS
    <3>1. PICK i \in DOMAIN Infl : Infl[i].id = unfinished[k].id
      BY Zenon DEF Listed
    <3>2. PICK l \in DOMAIN unfinished : Belongs(Infl[i], unfinished[l])
      BY Zenon DEF ListsOK
    <3>3. l = k
      BY <3>1, <3>2, Zenon DEF Belongs, ClientOK
    <3>4. unfinished[k].kind.qos = 2
      BY <3>2, <3>3, Zenon DEF Belongs
    <3>5. unfinished[k].kind.qos = 1
      BY <1>5, <2>1, Zenon DEF Answers
    <3> QED BY <3>4, <3>5
  <2>2. CASE r.type = "PUBREC" /\ ~r.ok
    BY <1>5, <2>2, Zenon DEF Answers
  <2>3. CASE r.type = "PUBCOMP"
    BY <1>5, <2>3, Zenon DEF Answers
  <2> QED BY <1>7, <1>12, <2>1, <2>2, <2>3, ZenonT(40)
<1>13. /\ \A i \in DOMAIN Tail(out_packets) :
            /\ i + 1 \in DOMAIN out_packets /\ Tail(out_packets)[i] = out_packets[i + 1]
            /\ Tail(out_packets)[i].mid # r.mid
       /\ \A i \in DOMAIN out_packets : out_packets[i].mid # r.mid =>
            \E j \in DOMAIN Tail(out_packets) : Tail(out_packets)[j] = out_packets[i]
  <2>1. ASSUME NEW i \in DOMAIN Tail(out_packets)
        PROVE  /\ i + 1 \in DOMAIN out_packets /\ Tail(out_packets)[i] = out_packets[i + 1]
               /\ Tail(out_packets)[i].mid # r.mid
    <3>1. i + 1 \in DOMAIN out_packets /\ i + 1 # 1 /\ Tail(out_packets)[i] = out_packets[i + 1]
      BY <1>2, Zenon
    <3> QED BY <1>3, <3>1, Zenon
  <2>2. ASSUME NEW i \in DOMAIN out_packets, out_packets[i].mid # r.mid
        PROVE  \E j \in DOMAIN Tail(out_packets) : Tail(out_packets)[j] = out_packets[i]
    <3>1. i # 1
      BY <1>2, <2>2, Zenon
    <3> QED BY <1>2, <3>1, Zenon
  <2> QED BY <2>1, <2>2
<1>14. IsAbout(r, k)
  BY <1>6, <1>10, <1>11, <1>12, Zenon DEF IsAbout
<1>15. OnlyReply(r, Tail(out_packets))
  BY <1>2, <1>3, <1>4, <1>13, Zenon DEF OnlyReply
<1> QED BY <1>14, <1>15, Zenon

\* An interval that starts at 1 has one end.
LEMMA SameInterval ==
    ASSUME NEW m \in Nat, NEW n \in Nat, 1..m = 1..n
    PROVE  m = n
<1>1. ASSUME m < n PROVE FALSE
  <2>1. n \in 1..n /\ n \notin 1..m
    BY <1>1
  <2> QED BY <2>1, Zenon
<1>2. ASSUME n < m PROVE FALSE
  <2>1. m \in 1..m /\ m \notin 1..n
    BY <1>2
  <2> QED BY <2>1, Zenon
<1> QED BY <1>1, <1>2

\* A PUBREC moves the entry on to its PUBREL.
LEMMA PubrecStep ==
    ASSUME Counting, HandshakeInv, ClientReceive, Head(out_packets).type = "PUBREC", Head(out_packets).ok
    PROVE  HandshakeInv'
<1>r. PICK r : r = Head(out_packets)
  OBVIOUS
<1> DEFINE pubrel == [type |-> "PUBREL", mid |-> r.mid]
           o == Tail(out_packets)
<1>1. /\ TypeInv /\ ClientOK /\ RoutedOK /\ ListsOK /\ PacketsOK /\ RepliesOK /\ AnsweredOK
      /\ LossOK
  BY DEF HandshakeInv
<1>2. /\ sock = "up" /\ out_packets # <<>> /\ out_packets' = o
      /\ UNCHANGED <<msgs_in, sock, routed, rejected, published>>
      /\ unfinished' = [i \in DOMAIN unfinished |->
                          IF i \in Mine(r) THEN [unfinished[i] EXCEPT !.phase = "pubrel"]
                          ELSE unfinished[i]]
      /\ in_packets' = Append(in_packets, pubrel)
      /\ finished' = finished
  BY <1>r DEF ClientReceive
<1>3. PICK k \in DOMAIN unfinished :
        /\ Mine(r) = {k} /\ unfinished[k].mid = r.mid
        /\ \A l \in DOMAIN unfinished : l # k => unfinished[l].mid # r.mid
        /\ unfinished[k].kind.qos = 2 /\ unfinished[k].phase = "publish"
  <2>1. r.type = "PUBREC" /\ r.ok
    BY <1>r
  <2>2. PICK k \in DOMAIN unfinished : IsAbout(r, k)
    <3>1. out_packets # <<>>
      BY <1>2
    <3> QED BY <1>r, <1>1, <3>1, ReplyEntry, Zenon
  <2> QED BY <2>1, <2>2, Zenon DEF IsAbout
<1>4. /\ r \in Reply
      /\ \A i \in DOMAIN in_packets : in_packets[i].mid # r.mid
      /\ \A i \in DOMAIN o :
           i + 1 \in DOMAIN out_packets /\ o[i] = out_packets[i + 1] /\ o[i].mid # r.mid
      /\ \A i \in DOMAIN out_packets : out_packets[i].mid # r.mid =>
           \E j \in DOMAIN o : o[j] = out_packets[i]
      /\ \A i, j \in DOMAIN o : i # j => o[i].mid # o[j].mid
  <2>1. out_packets # <<>>
    BY <1>2
  <2>2. OnlyReply(r, o)
    BY <1>r, <1>1, <2>1, ReplyEntry, Zenon
  <2> HIDE DEF o
  <2> QED BY <2>2, Zenon DEF OnlyReply
<1>u. /\ msgs_in' = msgs_in /\ sock' = sock /\ routed' = routed /\ published' = published
      /\ Infl' = Infl /\ Listed' = Listed /\ Settled' = Settled
  BY <1>2, ListsUnchanged
<1>5. TypeInv'
  BY <1>1, ClientReceiveType, Zenon
<1>6. /\ DOMAIN unfinished' = DOMAIN unfinished
      /\ \A l \in DOMAIN unfinished :
           /\ unfinished'[l].id = unfinished[l].id /\ unfinished'[l].mid = unfinished[l].mid
           /\ unfinished'[l].kind = unfinished[l].kind
           /\ l # k => unfinished'[l] = unfinished[l]
      /\ unfinished'[k].phase = "pubrel"
  <2>1. ASSUME NEW l \in DOMAIN unfinished, l # k
        PROVE  unfinished'[l] = unfinished[l]
    BY <1>2, <1>3, <2>1, Zenon
  <2>2. unfinished'[k] = [unfinished[k] EXCEPT !.phase = "pubrel"]
    BY <1>2, <1>3, Zenon
  <2>3. unfinished[k] \in Unfinished
    BY <1>1, EntryTypes, Zenon
  <2>4. /\ unfinished'[k].id = unfinished[k].id /\ unfinished'[k].mid = unfinished[k].mid
        /\ unfinished'[k].kind = unfinished[k].kind /\ unfinished'[k].phase = "pubrel"
    BY <2>2, <2>3 DEF Unfinished
  <2>5. DOMAIN unfinished' = DOMAIN unfinished
    BY <1>2, Zenon
  <2> QED BY <2>1, <2>4, <2>5, Zenon
<1>7. Len(unfinished') = Len(unfinished)
  <2>1. unfinished' \in Seq(Unfinished) /\ unfinished \in Seq(Unfinished)
    BY <1>1, <1>5, TypeParts, Zenon
  <2>2. DOMAIN unfinished' = 1..Len(unfinished') /\ DOMAIN unfinished = 1..Len(unfinished)
        /\ Len(unfinished') \in Nat /\ Len(unfinished) \in Nat
    BY <2>1
  <2>3. 1..Len(unfinished') = 1..Len(unfinished)
    BY <1>6, <2>2, Zenon
  <2> QED BY <2>2, <2>3, SameInterval, Zenon
<1>8. pubrel.mid = r.mid /\ pubrel.type = "PUBREL" /\ pubrel \in SoundPacket /\ r.mid # 0
  <2>1. r.mid \in 1..MaxMid
    BY <1>4 DEF Reply
  <2>2. pubrel \in Packet /\ pubrel.type # "PUBLISH"
    BY <2>1, Zenon DEF Packet
  <2> QED BY <2>1, <2>2 DEF SoundPacket
<1> HIDE DEF pubrel, o
<1>9. /\ \A i \in DOMAIN in_packets : i \in DOMAIN in_packets' /\ in_packets'[i] = in_packets[i]
      /\ \A i \in DOMAIN in_packets' :
           \/ i \in DOMAIN in_packets /\ in_packets'[i] = in_packets[i]
           \/ i \notin DOMAIN in_packets /\ i = Len(in_packets) + 1 /\ in_packets'[i] = pubrel
      /\ Len(in_packets) + 1 \in DOMAIN in_packets' /\ in_packets'[Len(in_packets) + 1] = pubrel
  <2>1. in_packets \in Seq(SoundPacket)
    BY <1>1, TypeParts
  <2> QED BY <1>2, <1>8, <2>1, AppendProperties
<1>10. ClientOK'
  <2>1. ASSUME NEW l \in DOMAIN unfinished
        PROVE  /\ unfinished'[l].id \in DOMAIN published
               /\ unfinished'[l].kind = published[unfinished'[l].id]
               /\ unfinished'[l].kind.qos > 0
               /\ unfinished'[l].phase = "pubrel" => unfinished'[l].kind.qos = 2
    <3>1. /\ unfinished[l].id \in DOMAIN published
          /\ unfinished[l].kind = published[unfinished[l].id]
          /\ unfinished[l].kind.qos > 0
          /\ unfinished[l].phase = "pubrel" => unfinished[l].kind.qos = 2
      BY <1>1, Zenon DEF ClientOK
    <3>2. unfinished[k].kind.qos = 2
      BY <1>3
    <3> QED BY <1>6, <3>1, <3>2, Zenon
  <2>2. \A a, b \in DOMAIN unfinished :
          a # b => unfinished'[a].id # unfinished'[b].id /\ unfinished'[a].mid # unfinished'[b].mid
    <3> SUFFICES ASSUME NEW a \in DOMAIN unfinished, NEW b \in DOMAIN unfinished, a # b
                 PROVE  /\ unfinished'[a].id # unfinished'[b].id
                        /\ unfinished'[a].mid # unfinished'[b].mid
      OBVIOUS
    <3>1. unfinished[a].id # unfinished[b].id /\ unfinished[a].mid # unfinished[b].mid
      BY <1>1, Zenon DEF ClientOK
    <3>2. /\ unfinished'[a].id = unfinished[a].id /\ unfinished'[a].mid = unfinished[a].mid
          /\ unfinished'[b].id = unfinished[b].id /\ unfinished'[b].mid = unfinished[b].mid
      BY <1>6, Zenon
    <3> QED BY <3>1, <3>2, Zenon
  <2>3. Len(unfinished') <= Window /\ Len(published) <= MaxMsgs
    BY <1>1, <1>7, Zenon DEF ClientOK
  <2> QED BY <1>u, <1>6, <2>1, <2>2, <2>3, Zenon DEF ClientOK
<1>11. RoutedOK'
  <2>1. ASSUME NEW l \in DOMAIN unfinished, unfinished'[l].kind.qos = 2,
               unfinished'[l].phase = "publish"
        PROVE  routed[unfinished'[l].id] = 0
    <3>1. l # k
      BY <1>6, <2>1
    <3> QED BY <1>1, <1>6, <2>1, <3>1, Zenon DEF RoutedOK
  <2>2. /\ \A i \in 1..MaxMsgs : i \notin DOMAIN published => routed[i] = 0
        /\ RoutedOnce
    BY <1>1, Zenon DEF RoutedOK
  <2> QED BY <1>u, <1>6, <2>1, <2>2, Zenon DEF RoutedOK, RoutedOnce
<1>12. ListsOK'
  <2>1. ASSUME NEW i \in DOMAIN Infl
        PROVE  \E l \in DOMAIN unfinished : Belongs(Infl[i], unfinished'[l])
    <3>1. PICK l \in DOMAIN unfinished : Belongs(Infl[i], unfinished[l])
      BY <1>1, Zenon DEF ListsOK
    <3>2. Belongs(Infl[i], unfinished'[l])
      BY <1>6, <3>1, Zenon DEF Belongs
    <3> QED BY <3>2
  <2>2. /\ msgs_in.queued = <<>> /\ InMax <= msgs_in.inflight_quota + Inflight(msgs_in)
        /\ \A i, j \in DOMAIN Infl : i # j => Infl[i].id # Infl[j].id
        /\ \A i \in DOMAIN Infl : routed[Infl[i].id] = 0
    BY <1>1, Zenon DEF ListsOK
  <2> QED BY <1>u, <1>6, <2>1, <2>2, Zenon DEF ListsOK
<1>13. PacketsOK'
  <2>1. ASSUME NEW i \in DOMAIN in_packets'
        PROVE  \/ in_packets'[i].mid = 0 /\ Simple(in_packets'[i], published)
               \/ in_packets'[i].mid # 0
                  /\ \E l \in DOMAIN unfinished : Sends(in_packets'[i], unfinished'[l])
    <3>1. CASE i \in DOMAIN in_packets /\ in_packets'[i] = in_packets[i]
      <4>1. CASE in_packets[i].mid = 0 /\ Simple(in_packets[i], published)
        BY <3>1, <4>1, Zenon
      <4>2. CASE in_packets[i].mid # 0 /\ \E l \in DOMAIN unfinished : Sends(in_packets[i], unfinished[l])
        <5>1. PICK l \in DOMAIN unfinished : Sends(in_packets[i], unfinished[l])
          BY <4>2
        <5>2. l # k
          <6>1. unfinished[l].mid = in_packets[i].mid /\ in_packets[i].mid # r.mid
            BY <1>4, <3>1, <5>1, Zenon DEF Sends
          <6> QED BY <1>3, <6>1, Zenon
        <5> QED BY <1>6, <3>1, <4>2, <5>1, <5>2, Zenon
      <4> QED BY <1>1, <3>1, <4>1, <4>2, Zenon DEF PacketsOK
    <3>2. CASE in_packets'[i] = pubrel
      <4>1. Sends(pubrel, unfinished'[k])
        BY <1>3, <1>6, <1>8 DEF Sends
      <4> QED BY <1>8, <3>2, <4>1, Zenon
    <3> QED BY <1>9, <3>1, <3>2, Zenon
  <2>2. ASSUME NEW i \in DOMAIN in_packets', NEW j \in DOMAIN in_packets', i # j
        PROVE  in_packets'[i].mid # in_packets'[j].mid \/ in_packets'[i].mid = 0
    <3>1. CASE i \in DOMAIN in_packets /\ j \in DOMAIN in_packets
      BY <1>1, <1>9, <2>2, <3>1, ZenonT(40) DEF PacketsOK
    <3>2. CASE i \in DOMAIN in_packets /\ j \notin DOMAIN in_packets
      <4>1. in_packets'[i] = in_packets[i] /\ in_packets'[j] = pubrel /\ in_packets[i].mid # r.mid
        BY <1>4, <1>9, <3>2, Zenon
      <4> QED BY <1>8, <4>1, Zenon
    <3>3. CASE i \notin DOMAIN in_packets /\ j \in DOMAIN in_packets
      <4>1. in_packets'[j] = in_packets[j] /\ in_packets'[i] = pubrel /\ in_packets[j].mid # r.mid
        BY <1>4, <1>9, <3>3, Zenon
      <4> QED BY <1>8, <4>1, Zenon
    <3>4. CASE i \notin DOMAIN in_packets /\ j \notin DOMAIN in_packets
      BY <1>9, <2>2, <3>4, Zenon
    <3> QED BY <3>1, <3>2, <3>3, <3>4
  <2>3. sock' # "closed"
    BY <1>2
  <2> QED BY <1>u, <1>6, <2>1, <2>2, <2>3, Zenon DEF PacketsOK
<1>14. RepliesOK'
  <2>1. ASSUME NEW i \in DOMAIN o
        PROVE  \E l \in DOMAIN unfinished : Answers(o[i], unfinished'[l], Listed)
    <3>1. i + 1 \in DOMAIN out_packets /\ o[i] = out_packets[i + 1] /\ o[i].mid # r.mid
      BY <1>4, Zenon
    <3>2. PICK l \in DOMAIN unfinished : Answers(out_packets[i + 1], unfinished[l], Listed)
      BY <1>1, <3>1, Zenon DEF RepliesOK
    <3>3. l # k
      BY <1>3, <3>1, <3>2, Zenon DEF Answers
    <3> QED BY <1>6, <3>1, <3>2, <3>3, Zenon
  <2>2. ASSUME NEW i \in DOMAIN in_packets', NEW j \in DOMAIN o
        PROVE  in_packets'[i].mid # o[j].mid
    <3>1. CASE i \in DOMAIN in_packets /\ in_packets'[i] = in_packets[i]
      <4>1. j + 1 \in DOMAIN out_packets /\ o[j] = out_packets[j + 1]
        BY <1>4, Zenon
      <4>2. in_packets[i].mid # out_packets[j + 1].mid
        BY <1>1, <3>1, <4>1, Zenon DEF RepliesOK
      <4> QED BY <3>1, <4>1, <4>2, Zenon
    <3>2. CASE in_packets'[i] = pubrel
      BY <1>4, <1>8, <3>2, Zenon
    <3> QED BY <1>9, <3>1, <3>2, Zenon
  <2>3. out_packets' = o /\ DOMAIN unfinished' = DOMAIN unfinished
    BY <1>2, <1>6, Zenon
  <2>4. \A i, j \in DOMAIN o : i # j => o[i].mid # o[j].mid
    BY <1>4, Zenon
  <2> QED BY <1>u, <2>1, <2>2, <2>3, <2>4, Zenon DEF RepliesOK
<1>15. AnsweredOK'
  <2> SUFFICES ASSUME NEW l \in DOMAIN unfinished
               PROVE  \/ \E i \in DOMAIN in_packets' : in_packets'[i].mid = unfinished'[l].mid
                      \/ \E i \in DOMAIN o : o[i].mid = unfinished'[l].mid
    <3>1. out_packets' = o /\ DOMAIN unfinished' = DOMAIN unfinished
      BY <1>2, <1>6, Zenon
    <3> QED BY <3>1, Zenon DEF AnsweredOK
  <2>1. CASE l = k
    <3>1. unfinished'[l].mid = pubrel.mid
      BY <1>3, <1>6, <1>8, <2>1, Zenon
    <3> QED BY <1>9, <3>1, Zenon
  <2>2. CASE l # k
    <3>1. \/ \E i \in DOMAIN in_packets : in_packets[i].mid = unfinished[l].mid
          \/ \E i \in DOMAIN out_packets : out_packets[i].mid = unfinished[l].mid
      BY <1>1, <1>2, Zenon DEF AnsweredOK
    <3>2. unfinished[l].mid # r.mid /\ unfinished'[l].mid = unfinished[l].mid
      BY <1>3, <1>6, <2>2, Zenon
    <3>3. CASE \E i \in DOMAIN in_packets : in_packets[i].mid = unfinished[l].mid
      BY <1>9, <3>2, <3>3, Zenon
    <3>4. CASE \E i \in DOMAIN out_packets : out_packets[i].mid = unfinished[l].mid
      <4>1. PICK i \in DOMAIN out_packets : out_packets[i].mid = unfinished[l].mid
        BY <3>4
      <4>2. PICK j \in DOMAIN o : o[j] = out_packets[i]
        BY <1>4, <3>2, <4>1, Zenon
      <4> QED BY <3>2, <4>1, <4>2, Zenon
    <3> QED BY <3>1, <3>3, <3>4
  <2> QED BY <2>1, <2>2
<1>16. LossOK'
  <2> SUFFICES ASSUME PolicyInactive PROVE LossOK'
    BY DEF LossOK, PolicyInactive
  <2>1. unfinished[k].id \in Settled \/ unfinished[k].id \in Listed
    <3>1. PICK i \in DOMAIN out_packets : out_packets[i] = r
      <4>1. out_packets \in Seq(Reply)
        BY <1>1, TypeParts
      <4> QED BY <1>r, <1>2, <4>1, TailProperties, ZenonT(40)
    <3> QED BY <1>1, <1>3, <3>1, Zenon DEF LossOK
  <2>2. ASSUME NEW l \in DOMAIN unfinished, unfinished'[l].phase = "pubrel"
        PROVE  unfinished'[l].id \in Settled \/ unfinished'[l].id \in Listed
    <3>1. CASE l = k
      BY <1>6, <2>1, <3>1, Zenon
    <3>2. CASE l # k
      BY <1>1, <1>6, <2>2, <3>2, Zenon DEF LossOK
    <3> QED BY <3>1, <3>2
  <2>3. ASSUME NEW i \in DOMAIN o, NEW l \in DOMAIN unfinished, o[i].mid = unfinished'[l].mid
        PROVE  unfinished'[l].id \in Settled \/ unfinished'[l].id \in Listed
    <3>1. i + 1 \in DOMAIN out_packets /\ o[i] = out_packets[i + 1]
      BY <1>4, Zenon
    <3>2. out_packets[i + 1].mid = unfinished[l].mid
      BY <1>6, <2>3, <3>1, Zenon
    <3>3. unfinished[l].id \in Settled \/ unfinished[l].id \in Listed
      BY <1>1, <3>1, <3>2, Zenon DEF LossOK
    <3> QED BY <1>6, <3>3, Zenon
  <2>4. finished \subseteq Settled
    BY <1>1, Zenon DEF LossOK
  <2>5. out_packets' = o /\ DOMAIN unfinished' = DOMAIN unfinished /\ finished' = finished
    BY <1>2, <1>6, Zenon
  <2> QED BY <1>u, <2>2, <2>3, <2>4, <2>5, Zenon DEF LossOK
<1> QED BY <1>5, <1>10, <1>11, <1>12, <1>13, <1>14, <1>15, <1>16, Zenon DEF HandshakeInv

\* Any other reply ends the handshake of its entry.
LEMMA FinalStep ==
    ASSUME Counting, HandshakeInv, ClientReceive, Head(out_packets).type # "PUBREC" \/ ~Head(out_packets).ok
    PROVE  HandshakeInv'
<1>r. PICK r : r = Head(out_packets)
  OBVIOUS
<1> DEFINE o == Tail(out_packets)
<1>1. /\ TypeInv /\ ClientOK /\ RoutedOK /\ ListsOK /\ PacketsOK /\ RepliesOK /\ AnsweredOK
      /\ LossOK
  BY DEF HandshakeInv
<1>2. /\ sock = "up" /\ out_packets # <<>> /\ out_packets' = o
      /\ UNCHANGED <<msgs_in, sock, routed, rejected, published>>
      /\ unfinished' = Pick(unfinished, DOMAIN unfinished \ Mine(r))
      /\ finished' = IF r.ok THEN finished \cup {unfinished[i].id : i \in Mine(r)} ELSE finished
      /\ in_packets' = in_packets
  BY <1>r DEF ClientReceive
<1>3. PICK k \in DOMAIN unfinished :
        /\ Mine(r) = {k} /\ unfinished[k].mid = r.mid
        /\ \A l \in DOMAIN unfinished : l # k => unfinished[l].mid # r.mid
        /\ unfinished[k].id \notin Listed
  <2>1. r.type # "PUBREC" \/ ~r.ok
    BY <1>r
  <2>2. PICK k \in DOMAIN unfinished : IsAbout(r, k)
    <3>1. out_packets # <<>>
      BY <1>2
    <3> QED BY <1>r, <1>1, <3>1, ReplyEntry, Zenon
  <2> QED BY <2>1, <2>2, Zenon DEF IsAbout
<1>4. /\ r \in Reply
      /\ \A i \in DOMAIN in_packets : in_packets[i].mid # r.mid
      /\ \A i \in DOMAIN o :
           i + 1 \in DOMAIN out_packets /\ o[i] = out_packets[i + 1] /\ o[i].mid # r.mid
      /\ \A i \in DOMAIN out_packets : out_packets[i].mid # r.mid =>
           \E j \in DOMAIN o : o[j] = out_packets[i]
      /\ \A i, j \in DOMAIN o : i # j => o[i].mid # o[j].mid
  <2>1. out_packets # <<>>
    BY <1>2
  <2>2. OnlyReply(r, o)
    BY <1>r, <1>1, <2>1, ReplyEntry, Zenon
  <2> HIDE DEF o
  <2> QED BY <2>2, Zenon DEF OnlyReply
<1>u. /\ msgs_in' = msgs_in /\ sock' = sock /\ routed' = routed /\ published' = published
      /\ in_packets' = in_packets /\ out_packets' = o
      /\ Infl' = Infl /\ Listed' = Listed /\ Settled' = Settled
  <2> HIDE DEF o
  <2> QED BY <1>2, ListsUnchanged
<1> HIDE DEF o
<1>5. TypeInv'
  BY <1>1, ClientReceiveType, Zenon
<1> DEFINE Kept == DOMAIN unfinished \ {k}
<1>6. /\ \A j \in DOMAIN unfinished' : \E i \in Kept : unfinished'[j] = unfinished[i]
      /\ \A i \in Kept : \E j \in DOMAIN unfinished' : unfinished'[j] = unfinished[i]
      /\ \A j, l \in DOMAIN unfinished' : j # l =>
           \E a, b \in Kept : a # b /\ unfinished'[j] = unfinished[a] /\ unfinished'[l] = unfinished[b]
      /\ Len(unfinished') <= Window
  <2>1. unfinished \in Seq(Unfinished)
    BY <1>1, TypeParts, Zenon
  <2>2. Kept \in SUBSET DOMAIN unfinished /\ {k} \in SUBSET DOMAIN unfinished
    OBVIOUS
  <2>3. unfinished' = Pick(unfinished, Kept)
    BY <1>2, <1>3, Zenon
  <2>4. /\ Len(unfinished') = Len(unfinished) - Cardinality({k}) /\ Cardinality({k}) \in Nat
    BY <2>1, <2>2, <2>3, WithoutLength, Zenon
  <2> HIDE DEF Kept
  <2>5. /\ \A j \in DOMAIN unfinished' : \E i \in Kept : unfinished'[j] = unfinished[i]
        /\ \A i \in Kept : \E j \in DOMAIN unfinished' : unfinished'[j] = unfinished[i]
        /\ \A j, l \in DOMAIN unfinished' : j # l =>
             \E a, b \in Kept : a # b /\ unfinished'[j] = unfinished[a] /\ unfinished'[l] = unfinished[b]
    BY <2>1, <2>2, <2>3, PickDistinct, SMTT(30)
  <2>6. Len(unfinished) <= Window /\ Len(unfinished) \in Nat
    BY <1>1, EntryTypes, Zenon DEF ClientOK
  <2>7. Len(unfinished') <= Window
    BY <2>4, <2>6, ConstantsAssumption
  <2> QED BY <2>5, <2>7
<1>7. ASSUME NEW l \in DOMAIN unfinished, unfinished[l].mid # r.mid
      PROVE  \E j \in DOMAIN unfinished' : unfinished'[j] = unfinished[l]
  <2>1. l \in Kept
    BY <1>3, <1>7, Zenon
  <2> QED BY <1>6, <2>1, Zenon
<1>8. ASSUME NEW j \in DOMAIN unfinished'
      PROVE  \E i \in DOMAIN unfinished : unfinished'[j] = unfinished[i] /\ unfinished[i].mid # r.mid
  <2>1. PICK i \in Kept : unfinished'[j] = unfinished[i]
    BY <1>6, Zenon
  <2> QED BY <1>3, <2>1, Zenon
<1>9. ClientOK'
  <2>1. ASSUME NEW j \in DOMAIN unfinished'
        PROVE  /\ unfinished'[j].id \in DOMAIN published
               /\ unfinished'[j].kind = published[unfinished'[j].id]
               /\ unfinished'[j].kind.qos > 0
               /\ unfinished'[j].phase = "pubrel" => unfinished'[j].kind.qos = 2
    <3>1. PICK i \in DOMAIN unfinished : unfinished'[j] = unfinished[i]
      BY <1>8, Zenon
    <3>2. /\ unfinished[i].id \in DOMAIN published
          /\ unfinished[i].kind = published[unfinished[i].id]
          /\ unfinished[i].kind.qos > 0
          /\ unfinished[i].phase = "pubrel" => unfinished[i].kind.qos = 2
      BY <1>1, Zenon DEF ClientOK
    <3> QED BY <3>1, <3>2, Zenon
  <2>2. ASSUME NEW j \in DOMAIN unfinished', NEW l \in DOMAIN unfinished', j # l
        PROVE  unfinished'[j].id # unfinished'[l].id /\ unfinished'[j].mid # unfinished'[l].mid
    <3>1. PICK a \in Kept, b \in Kept :
            a # b /\ unfinished'[j] = unfinished[a] /\ unfinished'[l] = unfinished[b]
      BY <1>6, <2>2, Zenon
    <3>2. unfinished[a].id # unfinished[b].id /\ unfinished[a].mid # unfinished[b].mid
      BY <1>1, <3>1, Zenon DEF ClientOK
    <3> QED BY <3>1, <3>2, Zenon
  <2>3. Len(published) <= MaxMsgs
    BY <1>1, Zenon DEF ClientOK
  <2> QED BY <1>u, <1>6, <2>1, <2>2, <2>3, Zenon DEF ClientOK
<1>10. RoutedOK'
  <2>1. ASSUME NEW j \in DOMAIN unfinished', unfinished'[j].kind.qos = 2,
               unfinished'[j].phase = "publish"
        PROVE  routed[unfinished'[j].id] = 0
    <3>1. PICK i \in DOMAIN unfinished : unfinished'[j] = unfinished[i]
      BY <1>8, Zenon
    <3> QED BY <1>1, <2>1, <3>1, Zenon DEF RoutedOK
  <2>2. /\ \A i \in 1..MaxMsgs : i \notin DOMAIN published => routed[i] = 0
        /\ RoutedOnce
    BY <1>1, Zenon DEF RoutedOK
  <2> QED BY <1>u, <2>1, <2>2, Zenon DEF RoutedOK, RoutedOnce
<1>11. ListsOK'
  <2>1. ASSUME NEW i \in DOMAIN Infl
        PROVE  \E l \in DOMAIN unfinished' : Belongs(Infl[i], unfinished'[l])
    <3>1. PICK l \in DOMAIN unfinished : Belongs(Infl[i], unfinished[l])
      BY <1>1, Zenon DEF ListsOK
    <3>2. Infl[i].id \in Listed
      BY Zenon DEF Listed
    <3>3. l # k
      BY <1>3, <3>1, <3>2, Zenon DEF Belongs
    <3>4. unfinished[l].mid # r.mid
      BY <1>3, <3>3, Zenon
    <3> QED BY <1>7, <3>1, <3>4, Zenon
  <2>2. /\ msgs_in.queued = <<>> /\ InMax <= msgs_in.inflight_quota + Inflight(msgs_in)
        /\ \A i, j \in DOMAIN Infl : i # j => Infl[i].id # Infl[j].id
        /\ \A i \in DOMAIN Infl : routed[Infl[i].id] = 0
    BY <1>1, Zenon DEF ListsOK
  <2> QED BY <1>u, <2>1, <2>2, Zenon DEF ListsOK
<1>12. PacketsOK'
  <2>1. ASSUME NEW i \in DOMAIN in_packets
        PROVE  \/ in_packets[i].mid = 0 /\ Simple(in_packets[i], published)
               \/ in_packets[i].mid # 0
                  /\ \E l \in DOMAIN unfinished' : Sends(in_packets[i], unfinished'[l])
    <3>1. CASE in_packets[i].mid = 0 /\ Simple(in_packets[i], published)
      BY <3>1
    <3>2. CASE in_packets[i].mid # 0 /\ \E l \in DOMAIN unfinished : Sends(in_packets[i], unfinished[l])
      <4>1. PICK l \in DOMAIN unfinished : Sends(in_packets[i], unfinished[l])
        BY <3>2
      <4>2. unfinished[l].mid # r.mid
        BY <1>4, <4>1, Zenon DEF Sends
      <4> QED BY <1>7, <3>2, <4>1, <4>2, Zenon
    <3> QED BY <1>1, <3>1, <3>2, Zenon DEF PacketsOK
  <2>2. \A i, j \in DOMAIN in_packets :
          i # j => in_packets[i].mid # in_packets[j].mid \/ in_packets[i].mid = 0
    BY <1>1, Zenon DEF PacketsOK
  <2>3. sock' # "closed"
    BY <1>2
  <2> QED BY <1>u, <2>1, <2>2, <2>3, Zenon DEF PacketsOK
<1>13. RepliesOK'
  <2>1. ASSUME NEW i \in DOMAIN o
        PROVE  \E l \in DOMAIN unfinished' : Answers(o[i], unfinished'[l], Listed)
    <3>1. i + 1 \in DOMAIN out_packets /\ o[i] = out_packets[i + 1] /\ o[i].mid # r.mid
      BY <1>4, Zenon
    <3>2. PICK l \in DOMAIN unfinished : Answers(out_packets[i + 1], unfinished[l], Listed)
      BY <1>1, <3>1, Zenon DEF RepliesOK
    <3>3. unfinished[l].mid # r.mid
      BY <3>1, <3>2, Zenon DEF Answers
    <3> QED BY <1>7, <3>1, <3>2, <3>3, Zenon
  <2>2. ASSUME NEW i \in DOMAIN in_packets, NEW j \in DOMAIN o
        PROVE  in_packets[i].mid # o[j].mid
    <3>1. j + 1 \in DOMAIN out_packets /\ o[j] = out_packets[j + 1]
      BY <1>4, Zenon
    <3>2. in_packets[i].mid # out_packets[j + 1].mid
      BY <1>1, <3>1, Zenon DEF RepliesOK
    <3> QED BY <3>1, <3>2, Zenon
  <2>3. \A i, j \in DOMAIN o : i # j => o[i].mid # o[j].mid
    BY <1>4, Zenon
  <2> QED BY <1>u, <2>1, <2>2, <2>3, Zenon DEF RepliesOK
<1>14. AnsweredOK'
  <2> SUFFICES ASSUME NEW j \in DOMAIN unfinished'
               PROVE  \/ \E i \in DOMAIN in_packets : in_packets[i].mid = unfinished'[j].mid
                      \/ \E i \in DOMAIN o : o[i].mid = unfinished'[j].mid
    BY <1>u, Zenon DEF AnsweredOK
  <2>1. PICK l \in DOMAIN unfinished : unfinished'[j] = unfinished[l] /\ unfinished[l].mid # r.mid
    BY <1>8, Zenon
  <2>2. \/ \E i \in DOMAIN in_packets : in_packets[i].mid = unfinished[l].mid
        \/ \E i \in DOMAIN out_packets : out_packets[i].mid = unfinished[l].mid
    BY <1>1, <1>2, Zenon DEF AnsweredOK
  <2>3. CASE \E i \in DOMAIN in_packets : in_packets[i].mid = unfinished[l].mid
    BY <2>1, <2>3, Zenon
  <2>4. CASE \E i \in DOMAIN out_packets : out_packets[i].mid = unfinished[l].mid
    <3>1. PICK i \in DOMAIN out_packets : out_packets[i].mid = unfinished[l].mid
      BY <2>4
    <3>2. PICK a \in DOMAIN o : o[a] = out_packets[i]
      BY <1>4, <2>1, <3>1, Zenon
    <3> QED BY <2>1, <3>1, <3>2, Zenon
  <2> QED BY <2>2, <2>3, <2>4
<1>15. LossOK'
  <2> SUFFICES ASSUME PolicyInactive PROVE LossOK'
    BY DEF LossOK, PolicyInactive
  <2>1. unfinished[k].id \in Settled
    <3>1. PICK i \in DOMAIN out_packets : out_packets[i] = r
      <4>1. out_packets \in Seq(Reply)
        BY <1>1, TypeParts
      <4> QED BY <1>r, <1>2, <4>1, TailProperties, ZenonT(40)
    <3> QED BY <1>1, <1>3, <3>1, Zenon DEF LossOK
  <2>2. ASSUME NEW j \in DOMAIN unfinished', unfinished'[j].phase = "pubrel"
        PROVE  unfinished'[j].id \in Settled \/ unfinished'[j].id \in Listed
    <3>1. PICK l \in DOMAIN unfinished : unfinished'[j] = unfinished[l]
      BY <1>8, Zenon
    <3> QED BY <1>1, <2>2, <3>1, Zenon DEF LossOK
  <2>3. ASSUME NEW i \in DOMAIN o, NEW j \in DOMAIN unfinished', o[i].mid = unfinished'[j].mid
        PROVE  unfinished'[j].id \in Settled \/ unfinished'[j].id \in Listed
    <3>1. i + 1 \in DOMAIN out_packets /\ o[i] = out_packets[i + 1]
      BY <1>4, Zenon
    <3>2. PICK l \in DOMAIN unfinished : unfinished'[j] = unfinished[l]
      BY <1>8, Zenon
    <3>3. out_packets[i + 1].mid = unfinished[l].mid
      BY <2>3, <3>1, <3>2, Zenon
    <3>4. unfinished[l].id \in Settled \/ unfinished[l].id \in Listed
      BY <1>1, <3>1, <3>3, Zenon DEF LossOK
    <3> QED BY <3>2, <3>4, Zenon
  <2>4. finished' \subseteq Settled
    <3>1. finished \subseteq Settled
      BY <1>1, Zenon DEF LossOK
    <3> QED BY <1>2, <1>3, <2>1, <3>1, Zenon
  <2> QED BY <1>u, <2>2, <2>3, <2>4, Zenon DEF LossOK
<1> QED BY <1>5, <1>9, <1>10, <1>11, <1>12, <1>13, <1>14, <1>15, Zenon DEF HandshakeInv

-----------------------------------------------------------------------------
(* Connection loss and resumption                                          *)

\* A lost connection takes the packets under way with it, or leaves them for the
\* broker to handle; nothing else changes.
LEMMA LinkLossStep ==
    ASSUME HandshakeInv, TypeInv',
           UNCHANGED <<msgs_in, routed, rejected, unfinished, finished, published>>,
           \/ UNCHANGED <<in_packets, out_packets, sock>>
           \/ UNCHANGED <<in_packets, out_packets>> /\ sock' = "broken"
           \/ in_packets' = <<>> /\ out_packets' = <<>> /\ sock' = "closed"
    PROVE  HandshakeInv'
<1>1. /\ TypeInv /\ ClientOK /\ RoutedOK /\ ListsOK /\ PacketsOK /\ RepliesOK /\ AnsweredOK
      /\ LossOK
  BY DEF HandshakeInv
<1>u. /\ msgs_in' = msgs_in /\ routed' = routed /\ published' = published /\ rejected' = rejected
      /\ unfinished' = unfinished /\ finished' = finished
      /\ Infl' = Infl /\ Listed' = Listed /\ Settled' = Settled
  BY ListsUnchanged
<1>2. ClientOK' /\ RoutedOK' /\ ListsOK'
  <2>1. ClientOK'
    BY <1>1, <1>u, Zenon DEF ClientOK
  <2>2. RoutedOK'
    BY <1>1, <1>u, Zenon DEF RoutedOK, RoutedOnce
  <2>3. ListsOK'
    BY <1>1, <1>u, Zenon DEF ListsOK
  <2> QED BY <2>1, <2>2, <2>3
<1>3. PacketsOK' /\ RepliesOK' /\ AnsweredOK' /\ LossOK'
  <2>1. CASE in_packets' = <<>> /\ out_packets' = <<>> /\ sock' = "closed"
    <3>1. DOMAIN in_packets' = {} /\ DOMAIN out_packets' = {} /\ sock' # "up"
      BY <2>1
    <3>2. LossOK'
      BY <1>1, <1>u, <3>1, Zenon DEF LossOK
    <3> QED BY <2>1, <3>1, <3>2, Zenon DEF PacketsOK, RepliesOK, AnsweredOK
  <2>2. CASE UNCHANGED <<in_packets, out_packets>> /\ sock' = "broken"
    <3>1. in_packets' = in_packets /\ out_packets' = out_packets /\ sock' # "up" /\ sock' # "closed"
      BY <2>2
    <3>2. PacketsOK'
      BY <1>1, <1>u, <3>1, Zenon DEF PacketsOK
    <3>3. RepliesOK' /\ AnsweredOK'
      <4>1. RepliesOK'
        BY <1>1, <1>u, <3>1, Zenon DEF RepliesOK
      <4>2. AnsweredOK'
        BY <1>1, <1>u, <3>1, Zenon DEF AnsweredOK
      <4> QED BY <4>1, <4>2
    <3>4. LossOK'
      BY <1>1, <1>u, <3>1, Zenon DEF LossOK
    <3> QED BY <3>2, <3>3, <3>4, ZenonT(40)
  <2>3. CASE UNCHANGED <<in_packets, out_packets, sock>>
    <3>1. in_packets' = in_packets /\ out_packets' = out_packets /\ sock' = sock
      BY <2>3
    <3>2. PacketsOK'
      BY <1>1, <1>u, <3>1, Zenon DEF PacketsOK
    <3>3. RepliesOK' /\ AnsweredOK'
      <4>1. RepliesOK'
        BY <1>1, <1>u, <3>1, Zenon DEF RepliesOK
      <4>2. AnsweredOK'
        BY <1>1, <1>u, <3>1, Zenon DEF AnsweredOK
      <4> QED BY <4>1, <4>2
    <3>4. LossOK'
      BY <1>1, <1>u, <3>1, Zenon DEF LossOK
    <3> QED BY <3>2, <3>3, <3>4
  <2> QED BY <2>1, <2>2, <2>3
<1> QED BY <1>2, <1>3, Zenon DEF HandshakeInv

\* connect__on_authorised keeps the inflight messages of the session, and they take
\* their quota again.
LEMMA ReconnectLists ==
    ASSUME TypeInv, ListsOK, NEW outbound, Reconnect(outbound)
    PROVE  /\ Infl' = Infl /\ msgs_in'.queued = <<>>
           /\ InMax <= msgs_in'.inflight_quota + Inflight(msgs_in')
<1>1. msgs_in' = IF HasMessages(msgs_in, outbound)
                 THEN db__message_reconnect_reset_incoming(msgs_in) ELSE FreshMsgData
  BY DEF Reconnect
<1>2. /\ msgs_in \in MsgData /\ msgs_in.queued = <<>> /\ InMax \in Nat
      /\ Inflight(msgs_in) \in Nat
  BY TypeParts, DataFields, ConstantsAssumption, Zenon DEF ListsOK
<1>3. CASE HasMessages(msgs_in, outbound)
  <2> DEFINE quota == Spend(InMax, Inflight(msgs_in))
             c     == Inflight(msgs_in) + Queued(msgs_in)
             reset == [msgs_in EXCEPT !.inflight_quota = quota, !.msg_count12 = c]
             n     == IF InMax = 0 THEN Queued(msgs_in) ELSE Lesser(Queued(msgs_in), quota)
  <2>1. msgs_in' = Dequeue(reset, n)
    BY <1>1, <1>3 DEF db__message_reconnect_reset_incoming, ResetCount, Inflight, Queued
  <2>2. quota \in 0..InMax /\ c \in Int /\ InMax <= quota + Inflight(msgs_in) /\ n = 0
    <3>1. Queued(msgs_in) = 0
      BY <1>2, DequeueNone
    <3> QED BY <1>2, <3>1 DEF Spend, Greater, Lesser
  <2> HIDE DEF quota, c, n
  <2>3. /\ reset \in MsgData /\ reset.inflight = msgs_in.inflight /\ reset.queued = <<>>
        /\ reset.inflight_quota = quota
    <3>1. reset \in MsgData
      BY <1>2, <2>2, Zenon DEF MsgData
    <3>2. /\ reset.inflight = msgs_in.inflight /\ reset.queued = msgs_in.queued
          /\ reset.inflight_quota = quota
      BY <1>2 DEF MsgData
    <3> QED BY <1>2, <3>1, <3>2, Zenon
  <2> HIDE DEF reset
  <2>4. /\ msgs_in'.inflight = msgs_in.inflight /\ msgs_in'.queued = <<>>
        /\ msgs_in'.inflight_quota = quota
    BY <2>1, <2>2, <2>3, DequeueNone, Zenon
  <2>5. Inflight(msgs_in') = Inflight(msgs_in)
    BY <2>4, Zenon DEF Inflight
  <2> QED BY <2>2, <2>4, <2>5, Zenon DEF Infl
<1>4. CASE ~HasMessages(msgs_in, outbound)
  <2>1. msgs_in.inflight = <<>>
    BY <1>4 DEF HasMessages
  <2>2. msgs_in' = FreshMsgData
    BY <1>1, <1>4
  <2>3. /\ msgs_in'.inflight = <<>> /\ msgs_in'.queued = <<>> /\ msgs_in'.inflight_quota = InMax
    BY <2>2 DEF FreshMsgData
  <2>4. Inflight(msgs_in') = 0
    BY <2>3 DEF Inflight
  <2>5. InMax <= InMax + 0
    BY <1>2
  <2> QED BY <2>1, <2>3, <2>4, <2>5, Zenon DEF Infl
<1> QED BY <1>3, <1>4

\* The client sends again what it has no answer to, and the handshakes go on.
LEMMA ReconnectStep ==
    ASSUME HandshakeInv, NEW outbound, Reconnect(outbound)
    PROVE  HandshakeInv'
<1>1. /\ TypeInv /\ ClientOK /\ RoutedOK /\ ListsOK /\ PacketsOK /\ RepliesOK /\ AnsweredOK
      /\ LossOK
  BY DEF HandshakeInv
<1>2. /\ sock' = "up" /\ out_packets' = <<>>
      /\ in_packets' = [i \in DOMAIN unfinished |-> Again(unfinished[i])]
      /\ UNCHANGED <<routed, rejected, unfinished, finished, published>>
  BY DEF Reconnect, clientVars
<1>3. /\ Infl' = Infl /\ msgs_in'.queued = <<>>
      /\ InMax <= msgs_in'.inflight_quota + Inflight(msgs_in')
  BY <1>1, ReconnectLists, Zenon
<1>u. /\ routed' = routed /\ published' = published /\ rejected' = rejected
      /\ unfinished' = unfinished /\ finished' = finished
      /\ Infl' = Infl /\ Listed' = Listed /\ Settled' = Settled
  <2>1. routed' = routed /\ published' = published /\ rejected' = rejected
        /\ unfinished' = unfinished /\ finished' = finished
    BY <1>2
  <2>2. Listed' = Listed
    BY <1>3, Zenon DEF Listed
  <2>3. Settled' = Settled
    BY <2>1, Zenon DEF Settled
  <2> QED BY <1>3, <2>1, <2>2, <2>3
<1>4. TypeInv'
  BY <1>1, ReconnectType, Zenon
<1>5. ClientOK'
  BY <1>1, <1>u DEF ClientOK
<1>6. RoutedOK'
  BY <1>1, <1>u, Zenon DEF RoutedOK, RoutedOnce
<1>7. ListsOK'
  BY <1>1, <1>u, <1>3, Zenon DEF ListsOK
<1>8. DOMAIN out_packets' = {} /\ sock' # "closed"
  BY <1>2
<1>9. DOMAIN in_packets' = DOMAIN unfinished
      /\ \A i \in DOMAIN unfinished : in_packets'[i] = Again(unfinished[i])
  BY <1>2, Zenon
<1>10. ASSUME NEW i \in DOMAIN unfinished
       PROVE  /\ Again(unfinished[i]).mid = unfinished[i].mid /\ unfinished[i].mid # 0
              /\ Sends(Again(unfinished[i]), unfinished[i])
  <2>1. unfinished[i].mid # 0 /\ unfinished[i].phase \in {"publish", "pubrel"}
    BY <1>1, EntryTypes, Zenon
  <2>2. CASE unfinished[i].phase = "pubrel"
    BY <2>1, <2>2, ZenonT(40) DEF Again, Sends
  <2>3. CASE unfinished[i].phase = "publish"
    BY <2>1, <2>3 DEF Again, Sends
  <2> QED BY <2>1, <2>2, <2>3
<1>11. PacketsOK'
  <2>1. ASSUME NEW i \in DOMAIN in_packets'
        PROVE  in_packets'[i].mid # 0 /\ \E k \in DOMAIN unfinished : Sends(in_packets'[i], unfinished[k])
    <3>1. i \in DOMAIN unfinished /\ in_packets'[i] = Again(unfinished[i])
      BY <1>9, Zenon
    <3> QED BY <1>10, <3>1, Zenon
  <2>2. ASSUME NEW i \in DOMAIN in_packets', NEW j \in DOMAIN in_packets', i # j
        PROVE  in_packets'[i].mid # in_packets'[j].mid
    <3>1. /\ i \in DOMAIN unfinished /\ in_packets'[i].mid = unfinished[i].mid
          /\ j \in DOMAIN unfinished /\ in_packets'[j].mid = unfinished[j].mid
      BY <1>9, <1>10, Zenon
    <3>2. unfinished[i].mid # unfinished[j].mid
      BY <1>1, <2>2, <3>1, Zenon DEF ClientOK
    <3> QED BY <3>1, <3>2, Zenon
  <2> QED BY <1>u, <1>8, <2>1, <2>2, Zenon DEF PacketsOK
<1>12. RepliesOK'
  BY <1>8, Zenon DEF RepliesOK
<1>13. AnsweredOK'
  <2>1. \A k \in DOMAIN unfinished : \E i \in DOMAIN in_packets' : in_packets'[i].mid = unfinished[k].mid
    BY <1>9, <1>10, Zenon
  <2> QED BY <1>u, <2>1, Zenon DEF AnsweredOK
<1>14. LossOK'
  BY <1>1, <1>u, <1>8, Zenon DEF LossOK
<1> QED BY <1>4, <1>5, <1>6, <1>7, <1>11, <1>12, <1>13, <1>14, Zenon DEF HandshakeInv

-----------------------------------------------------------------------------
(* The theorems                                                            *)

\* No message has been published yet.
LEMMA HandshakeInit == Init => HandshakeInv
<1> SUFFICES ASSUME Init PROVE HandshakeInv
  OBVIOUS
<1>1. TypeInv
  BY TypeInit
<1>2. /\ msgs_in = FreshMsgData /\ in_packets = <<>> /\ out_packets = <<>>
      /\ unfinished = <<>> /\ published = <<>> /\ finished = {} /\ sock = "up"
      /\ routed = [i \in 1..MaxMsgs |-> 0]
  BY DEF Init
<1>3. /\ Infl = <<>> /\ msgs_in.queued = <<>> /\ msgs_in.inflight_quota = InMax
  BY <1>2 DEF FreshMsgData, Infl
<1>4. /\ DOMAIN in_packets = {} /\ DOMAIN out_packets = {} /\ DOMAIN unfinished = {}
      /\ DOMAIN published = {} /\ DOMAIN Infl = {} /\ Len(unfinished) = 0 /\ Len(published) = 0
  BY <1>2, <1>3
<1>5. ClientOK
  <2>1. 0 <= Window /\ 0 <= MaxMsgs
    BY ConstantsAssumption
  <2> QED BY <1>4, <2>1, Zenon DEF ClientOK
<1>6. RoutedOK
  BY <1>2, <1>4, Zenon DEF RoutedOK, RoutedOnce
<1>7. ListsOK
  <2>1. Inflight(msgs_in) = 0 /\ InMax <= InMax + 0
    <3>1. msgs_in.inflight = <<>>
      BY <1>3 DEF Infl
    <3> QED BY <3>1, ConstantsAssumption DEF Inflight
  <2> QED BY <1>3, <1>4, <2>1, Zenon DEF ListsOK
<1>8. PacketsOK /\ RepliesOK /\ AnsweredOK
  <2>1. sock # "closed"
    BY <1>2
  <2> QED BY <1>4, <2>1, Zenon DEF PacketsOK, RepliesOK, AnsweredOK
<1>9. LossOK
  BY <1>2, <1>4, Zenon DEF LossOK
<1> QED BY <1>1, <1>5, <1>6, <1>7, <1>8, <1>9, Zenon DEF HandshakeInv

\* Every step of the broker, of the publisher and of the connection.
LEMMA HandshakeStep ==
    ASSUME Counting, KeepsReceiveMaximum, HandshakeInv, [Next]_vars
    PROVE  HandshakeInv'
<1>1. TypeInv'
  BY TypeStep DEF HandshakeInv
<1>2. CASE \E kind \in InKinds : ClientPublish(kind)
  BY <1>2, ClientPublishStep, Zenon
<1>3. CASE ClientReceive
  BY <1>3, PubrecStep, FinalStep, Zenon
<1>4. CASE \E slow \in Modes : HandlePublish(slow)
  BY <1>4, PublishStep, Zenon
<1>5. CASE HandlePubrel
  BY <1>5, PubrelStep, Zenon
<1>6. CASE Break
  <2>1. /\ UNCHANGED <<in_packets, out_packets>> /\ sock' = "broken"
        /\ UNCHANGED <<msgs_in, routed, rejected, unfinished, finished, published>>
    BY <1>6 DEF Break, clientVars
  <2> QED BY <1>1, <2>1, LinkLossStep, Zenon
<1>7. CASE Disconnect
  <2>1. /\ in_packets' = <<>> /\ out_packets' = <<>> /\ sock' = "closed"
        /\ UNCHANGED <<msgs_in, routed, rejected, unfinished, finished, published>>
    BY <1>7 DEF Disconnect, Close, clientVars
  <2> QED BY <1>1, <2>1, LinkLossStep, Zenon
<1>8. CASE \E outbound \in BOOLEAN : Reconnect(outbound)
  BY <1>8, ReconnectStep, Zenon
<1>9. CASE UNCHANGED vars
  <2>1. /\ UNCHANGED <<in_packets, out_packets, sock>>
        /\ UNCHANGED <<msgs_in, routed, rejected, unfinished, finished, published>>
    BY <1>9 DEF vars, linkVars, clientVars
  <2> QED BY <1>1, <2>1, LinkLossStep, Zenon
<1> QED BY <1>2, <1>3, <1>4, <1>5, <1>6, <1>7, <1>8, <1>9, Zenon DEF Next

-----------------------------------------------------------------------------
(* The theorems                                                            *)

\* The library's theorems about finite sets.
Finite == INSTANCE FiniteSetTheorems

\* They are about the Cardinality and IsFiniteSet that count the lists of a client.
LEMMA SameSize ==
    \A S : Cardinality(S) = Finite!Cardinality(S) /\ (IsFiniteSet(S) <=> Finite!IsFiniteSet(S))
  BY DEF Cardinality, IsFiniteSet, Finite!Cardinality, Finite!IsFiniteSet

\* The hypothesis of the lemmas above holds.
LEMMA CountingHolds == Counting
<1>1. SizeIsNatural /\ SizeOfEmpty /\ SizeOfSingleton /\ SizeOfInterval
  BY SameSize, Finite!FS_CardinalityType, Finite!FS_EmptySet, Finite!FS_Singleton,
     Finite!FS_Interval, Zenon
     DEF SizeIsNatural, SizeOfEmpty, SizeOfSingleton, SizeOfInterval
<1>2. SizeOfSubset /\ SizeOfRest /\ SizeOfUnion
  BY SameSize, Finite!FS_Subset, Finite!FS_RemoveElement, Finite!FS_Union, Zenon
     DEF SizeOfSubset, SizeOfRest, SizeOfUnion
<1>3. SizeByInjection /\ InjectionIsOnto
  <2>1. ASSUME NEW S, NEW T, NEW f \in [S -> T], OneToOne(f, S)
        PROVE  f \in Finite!Injection(S, T)
    BY <2>1, Zenon DEF OneToOne, Finite!Injection, Finite!IsInjective
  <2>2. ASSUME NEW S, NEW T, NEW f \in Finite!Surjection(S, T)
        PROVE  Onto(f, S, T)
    BY Zenon DEF Onto, Finite!Surjection
  <2> QED BY SameSize, <2>1, <2>2, Finite!FS_Injection, Zenon
          DEF SizeByInjection, InjectionIsOnto
<1>4. SizeByBijection
  <2>1. ASSUME NEW S, NEW T, NEW f \in [S -> T], OneToOne(f, S), Onto(f, S, T)
        PROVE  Finite!ExistsBijection(S, T)
    BY <2>1, Zenon DEF OneToOne, Onto, Finite!ExistsBijection, Finite!Bijection,
                       Finite!Injection, Finite!Surjection, Finite!IsInjective
  <2> QED BY SameSize, <2>1, Finite!FS_Bijection, Zenon DEF SizeByBijection
<1> QED BY <1>1, <1>2, <1>3, <1>4, ZenonT(40) DEF Counting

\* The variables of the incoming message path always have their types.
THEOREM TypeCorrect ==
    Spec => []TypeOK
<1> USE CountingHolds
<1>1. Init => TypeInv
  BY TypeInit, ZenonT(40)
<1>2. TypeInv /\ [Next]_vars => TypeInv'
  BY TypeStep
<1>3. TypeInv => TypeOK
  BY DEF TypeInv
<1> QED BY <1>1, <1>2, <1>3, PTL DEF Spec

\* With the transmit policy inactive msg_count12, which decides in
\* db__ready_for_queue whether a publisher's message is refused, is the number of
\* messages listed, whatever was queued, released, cleared or reset before.
THEOREM CountStaysExact ==
    ASSUME PolicyInactive
    PROVE  Spec => []CountExact
<1> USE CountingHolds
<1> DEFINE I == TypeInv /\ CountInv
<1>1. Init => I
  BY TypeInit, ZenonT(40)
<1>2. I /\ [Next]_vars => I'
  BY TypeStep
<1>3. I => CountExact
  BY Zenon DEF CountInv, Counted, CountExact, Inflight, Queued, Stored
<1> QED BY <1>1, <1>2, <1>3, PTL DEF Spec

\* Exactly once: however often the connection is lost and the client sends again,
\* db__message_release_incoming hands a QoS 2 message to the subscribers at most
\* once, as long as the client keeps to the receive maximum.
THEOREM QosTwoOnce ==
    ASSUME KeepsReceiveMaximum
    PROVE  Spec => []RoutedOnce
<1> USE CountingHolds
<1>1. Init => HandshakeInv
  BY HandshakeInit
<1>2. HandshakeInv /\ [Next]_vars => HandshakeInv'
  BY HandshakeStep
<1>3. HandshakeInv => RoutedOnce
  BY ZenonT(40) DEF HandshakeInv, RoutedOK
<1> QED BY <1>1, <1>2, <1>3, PTL DEF Spec

\* handle__publish never finds another message under the packet identifier of the
\* PUBLISH it handles, so it never clears one that the client still counts on.
THEOREM NoIdentifierClash ==
    ASSUME KeepsReceiveMaximum
    PROVE  Spec => []IdentifiersAgree
<1> USE CountingHolds
<1>1. Init => HandshakeInv
  BY HandshakeInit
<1>2. HandshakeInv /\ [Next]_vars => HandshakeInv'
  BY HandshakeStep
<1>3. HandshakeInv => IdentifiersAgree
  <2> SUFFICES ASSUME HandshakeInv,
                      NEW m \in Elements(msgs_in.inflight) \cup Elements(msgs_in.queued),
                      NEW p \in Elements(in_packets), p.type = "PUBLISH", p.mid = m.mid
               PROVE  p.id = m.id
    BY Zenon DEF IdentifiersAgree
  <2>1. TypeInv /\ ClientOK /\ ListsOK /\ PacketsOK
    BY DEF HandshakeInv
  <2>2. DOMAIN msgs_in.queued = {}
    BY <2>1 DEF ListsOK
  <2>3. PICK i \in DOMAIN Infl : m = Infl[i]
    BY <2>2, Zenon DEF Elements, Infl
  <2>4. PICK k \in DOMAIN unfinished : Belongs(Infl[i], unfinished[k])
    BY <2>1, Zenon DEF ListsOK
  <2>5. PICK j \in DOMAIN in_packets : p = in_packets[j]
    BY Zenon DEF Elements
  <2>6. p.mid # 0
    <3>1. unfinished[k].mid # 0 /\ unfinished[k].mid = m.mid
      BY <2>1, <2>3, <2>4, EntryTypes, Zenon DEF Belongs
    <3> QED BY <3>1, Zenon
  <2>7. PICK l \in DOMAIN unfinished : Sends(p, unfinished[l])
    BY <2>1, <2>5, <2>6, Zenon DEF PacketsOK
  <2>8. unfinished[l].mid = p.mid /\ unfinished[l].id = p.id
    BY <2>7, Zenon DEF Sends
  <2>9. unfinished[k].mid = m.mid /\ unfinished[k].id = m.id
    BY <2>3, <2>4, Zenon DEF Belongs
  <2>10. l = k
    BY <2>1, <2>8, <2>9, Zenon DEF ClientOK
  <2> QED BY <2>8, <2>9, <2>10, ZenonT(40)
<1> QED BY <1>1, <1>2, <1>3, PTL DEF Spec

\* On a working connection the packet the broker has to answer, or its answer, is
\* under way for every message the client has not finished.
THEOREM NobodyWaitsInVain ==
    ASSUME KeepsReceiveMaximum
    PROVE  Spec => []PublisherIsAnswered
<1> USE CountingHolds
<1>1. Init => HandshakeInv
  BY HandshakeInit
<1>2. HandshakeInv /\ [Next]_vars => HandshakeInv'
  BY HandshakeStep
<1>3. HandshakeInv => PublisherIsAnswered
  <2> SUFFICES ASSUME HandshakeInv, sock = "up", NEW k \in DOMAIN unfinished
               PROVE  \/ \E p \in Elements(in_packets) :
                           /\ p.mid = unfinished[k].mid
                           /\ p.type = IF unfinished[k].phase = "publish" THEN "PUBLISH" ELSE "PUBREL"
                      \/ \E r \in Elements(out_packets) : r.mid = unfinished[k].mid
    BY Zenon DEF PublisherIsAnswered, Elements
  <2>1. TypeInv /\ ClientOK /\ PacketsOK /\ AnsweredOK
    BY DEF HandshakeInv
  <2>2. \/ \E i \in DOMAIN in_packets : in_packets[i].mid = unfinished[k].mid
        \/ \E i \in DOMAIN out_packets : out_packets[i].mid = unfinished[k].mid
    BY <2>1, Zenon DEF AnsweredOK
  <2>3. CASE \E i \in DOMAIN out_packets : out_packets[i].mid = unfinished[k].mid
    BY <2>3, Zenon DEF Elements
  <2>4. CASE \E i \in DOMAIN in_packets : in_packets[i].mid = unfinished[k].mid
    <3>1. PICK i \in DOMAIN in_packets : in_packets[i].mid = unfinished[k].mid
      BY <2>4, ZenonT(40)
    <3>2. unfinished[k].mid # 0
      BY <2>1, EntryTypes, Zenon
    <3>3. PICK l \in DOMAIN unfinished : Sends(in_packets[i], unfinished[l])
      BY <2>1, <3>1, <3>2, Zenon DEF PacketsOK
    <3>4. l = k
      BY <2>1, <3>1, <3>3, Zenon DEF Sends, ClientOK
    <3>5. in_packets[i].type \in {"PUBLISH", "PUBREL"}
      <4>1. in_packets \in Seq(SoundPacket)
        BY <2>1, TypeParts, Zenon
      <4>2. in_packets[i] \in SoundPacket
        BY <4>1, SMTT(30)
      <4> QED BY <4>2, PacketFields, ZenonT(40)
    <3>6. in_packets[i].type = IF unfinished[k].phase = "publish" THEN "PUBLISH" ELSE "PUBREL"
      BY <3>3, <3>4, <3>5, ZenonT(40) DEF Sends
    <3> QED BY <3>1, <3>6, Zenon DEF Elements
  <2> QED BY <2>2, <2>3, <2>4, ZenonT(40)
<1> QED BY <1>1, <1>2, <1>3, PTL DEF Spec

\* With the transmit policy inactive, a message whose final acknowledgement the
\* client has got was handed to the subscribers or refused: db__message_insert has
\* not dropped it, and no resumption has forgotten it.
THEOREM AcknowledgedIsRouted ==
    ASSUME KeepsReceiveMaximum, PolicyInactive
    PROVE  Spec => []NothingLost
<1> USE CountingHolds
<1>1. Init => HandshakeInv
  BY HandshakeInit, ZenonT(40)
<1>2. HandshakeInv /\ [Next]_vars => HandshakeInv'
  BY HandshakeStep, ZenonT(40)
<1>3. HandshakeInv => NothingLost
  <2> SUFFICES ASSUME HandshakeInv, NEW i \in finished
               PROVE  routed[i] > 0 \/ i \in rejected
    BY Zenon DEF NothingLost
  <2>1. i \in Settled
    BY Zenon DEF HandshakeInv, LossOK
  <2> QED BY <2>1, Zenon DEF Settled
<1> QED BY <1>1, <1>2, <1>3, PTL DEF Spec
=============================================================================
