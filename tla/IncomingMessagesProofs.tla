----------------------- MODULE IncomingMessagesProofs -----------------------
(***************************************************************************)
(* Proofs about IncomingMessages, for every limit, window and number of    *)
(* messages and connection losses: the type invariant and the message      *)
(* count, which hold whether or not a queue forms; then the handshake of   *)
(* each message of the client, HandshakeInv, and that the broker's         *)
(* handlers for PUBLISH and PUBREL keep it, for a client that keeps to the *)
(* receive maximum.  IncomingSessionProofs has the other steps.            *)
(***************************************************************************)
EXTENDS IncomingMessages, SubsequencesProofs

\* The transmit policy holds back no message of this client.
PolicyInactive == ~MaySlow \/ \A k \in InKinds : ~k.large

\* The lengths of the lists, and the message count that goes with them.
Inflight(d) == Len(d.inflight)
Queued(d) == Len(d.queued)
Stored(d) == Len(d.storage)
Counted(d) == d.msg_count12 = Inflight(d) + Queued(d) + Stored(d)

\* An entry of the client's list of unfinished messages.
Unfinished == [id: 1..MaxMsgs, mid: 1..MaxMid, kind: InKinds,
               phase: {"publish", "pubrel"}]

\* A PUBLISH of QoS 1 or 2 has a packet identifier.
SoundPacket == {p \in Packet : p.type = "PUBLISH" /\ p.kind.qos > 0 => p.mid > 0}

TypeInv == TypeOK /\ in_packets \in Seq(SoundPacket)

\* The message kinds of the client.
LEMMA KindFields ==
    \A k \in InKinds : k.qos \in 0..2 /\ k.large \in BOOLEAN /\ k.denied \in BOOLEAN
  BY ConstantsAssumption DEF Kind

\* The fields of a packet from the client, by its type.
LEMMA PacketFields ==
    ASSUME NEW p \in SoundPacket
    PROVE  /\ p \in Packet
           /\ p.type \in {"PUBLISH", "PUBREL"}
           /\ p.mid \in 0..MaxMid
           /\ p.type = "PUBREL" => p.mid \in 1..MaxMid
           /\ p.type = "PUBLISH" =>
                /\ p.id \in 1..MaxMsgs /\ p.kind \in InKinds /\ p.kind.qos \in 0..2
                /\ p.kind.denied \in BOOLEAN
                /\ p.kind.qos > 0 => p.mid \in 1..MaxMid
<1>1. p \in Packet /\ (p.type = "PUBLISH" /\ p.kind.qos > 0 => p.mid > 0)
  BY DEF SoundPacket
<1>2. CASE p \in [type: {"PUBLISH"}, id: 1..MaxMsgs, mid: 0..MaxMid, kind: InKinds]
  BY <1>1, <1>2, KindFields
<1>3. CASE p \in [type: {"PUBREL"}, mid: 1..MaxMid]
  BY <1>1, <1>3
<1> QED BY <1>1, <1>2, <1>3 DEF Packet

\* A PUBLISH with QoS 1 or 2 has a packet identifier, and there is no other QoS above 0.
LEMMA AnsweredQos ==
    ASSUME NEW p \in SoundPacket, p.type = "PUBLISH"
    PROVE  /\ p.kind.qos = 2 => p.mid \in 1..MaxMid /\ p.mid # 0
           /\ p.kind.qos = 2 => p.kind.qos > 0 /\ p.kind.qos # 1
           /\ p.kind.qos > 0 => p.kind.qos \in {1, 2}
  BY PacketFields, SMTT(30)

\* The fields of the msgs_in record.
LEMMA DataFields ==
    ASSUME NEW d \in MsgData
    PROVE  /\ d.inflight \in Seq(Msg) /\ d.queued \in Seq(Msg) /\ d.storage \in Seq(Msg)
           /\ d.inflight_quota \in 0..InMax /\ d.msg_count12 \in Int
           /\ Inflight(d) \in Nat /\ Queued(d) \in Nat /\ Stored(d) \in Nat
  BY DEF MsgData, Inflight, Queued, Stored

\* Appending a list, and an element.
LEMMA ConcatType ==
    ASSUME NEW S, NEW s \in Seq(S), NEW t \in Seq(S)
    PROVE  /\ s \o t \in Seq(S) /\ Len(s \o t) = Len(s) + Len(t)
           /\ \A i \in 1..Len(s) : (s \o t)[i] = s[i]
           /\ \A i \in 1..Len(t) : (s \o t)[Len(s) + i] = t[i]
  OBVIOUS

\* A function on an initial interval is a list.
LEMMA TupleType ==
    ASSUME NEW S, NEW n \in Nat, NEW f \in [1..n -> S]
    PROVE  f \in Seq(S) /\ Len(f) = n /\ DOMAIN f = 1..n
  OBVIOUS

\* The clamps keep the receive quota between 0 and the inflight maximum.
LEMMA QuotaType ==
    ASSUME NEW q \in 0..InMax, NEW n \in Nat
    PROVE  /\ Spend(q, n) \in 0..InMax
           /\ Refund(q) \in 0..InMax
           /\ Refund(q) >= q
           /\ Refund(Spend(q, 1)) >= q
  BY ConstantsAssumption DEF Spend, Refund, Greater, Lesser

-----------------------------------------------------------------------------
(* The functions on msgs_in                                                *)

\* db__message_dequeue_first, n times: the messages move, none is lost.
LEMMA DequeueType ==
    ASSUME NEW d \in MsgData, NEW n \in 0..Queued(d)
    PROVE  /\ Dequeue(d, n) \in MsgData
           /\ Counted(d) => Counted(Dequeue(d, n))
           /\ Dequeue(d, n).storage = d.storage
<1> DEFINE infl == d.inflight \o TakeFirst(d.queued, n)
           qd   == DropFirst(d.queued, n)
           qu   == Spend(d.inflight_quota, n)
           new  == Dequeue(d, n)
<1>1. /\ n \in Nat /\ n \in 0..Len(d.queued)
      /\ d.inflight \in Seq(Msg) /\ d.queued \in Seq(Msg) /\ d.inflight_quota \in 0..InMax
      /\ Inflight(d) \in Nat /\ Queued(d) \in Nat /\ Stored(d) \in Nat
      /\ d.msg_count12 \in Int
  BY DataFields DEF Queued
<1>2. /\ TakeFirst(d.queued, n) \in Seq(Msg) /\ Len(TakeFirst(d.queued, n)) = n
      /\ qd \in Seq(Msg) /\ Len(qd) = Queued(d) - n
  <2>1. PICK q \in Seq(Msg) : q = d.queued
    BY <1>1
  <2>2. n \in 0..Len(q)
    BY <1>1, <2>1
  <2>3. /\ TakeFirst(q, n) \in Seq(Msg) /\ Len(TakeFirst(q, n)) = n
        /\ DropFirst(q, n) \in Seq(Msg) /\ Len(DropFirst(q, n)) = Len(q) - n
    BY <2>2, TakeDropProperties
  <2> QED BY <2>1, <2>3, Zenon DEF Queued
<1>3. infl \in Seq(Msg) /\ Len(infl) = Inflight(d) + n
  <2>1. infl \in Seq(Msg) /\ Len(infl) = Len(d.inflight) + Len(TakeFirst(d.queued, n))
    BY <1>1, <1>2, ConcatType, ZenonT(40)
  <2> QED BY <1>2, <2>1, Zenon DEF Inflight
<1>4. qu \in 0..InMax
  BY <1>1, QuotaType, Zenon
<1>5. new = [d EXCEPT !.inflight = infl, !.queued = qd, !.inflight_quota = qu]
  BY DEF Dequeue
<1> HIDE DEF infl, qd, qu, new
<1>6. new \in MsgData
  BY <1>2, <1>3, <1>4, <1>5, Zenon DEF MsgData
<1>7. /\ new.inflight = infl /\ new.queued = qd
      /\ new.storage = d.storage
      /\ new.msg_count12 = d.msg_count12
  BY <1>5 DEF MsgData
<1>8. Inflight(new) = Inflight(d) + n /\ Queued(new) = Queued(d) - n /\ Stored(new) = Stored(d)
  BY <1>2, <1>3, <1>7, Zenon DEF Inflight, Queued, Stored
<1>9. Counted(d) => Counted(new)
  BY <1>1, <1>7, <1>8 DEF Counted
<1> QED BY <1>6, <1>7, <1>9 DEF new

\* What is left of a list without the positions in K.
LEMMA WithoutLength ==
    ASSUME Counting, NEW S, NEW s \in Seq(S), NEW K \in SUBSET DOMAIN s
    PROVE  /\ IsFiniteSet(K) /\ Cardinality(K) \in Nat
           /\ Pick(s, DOMAIN s \ K) \in Seq(S)
           /\ Len(Pick(s, DOMAIN s \ K)) = Len(s) - Cardinality(K)
<1> DEFINE n == Len(s)
           L == (1..n) \ K
<1>1. DOMAIN s = 1..n /\ n \in Nat
  OBVIOUS
<1>2. K \in SUBSET (1..n)
  BY <1>1, Zenon
<1> HIDE DEF n
<1>3. IsFiniteSet(1..n) /\ Cardinality(1..n) = n
  BY <1>1, FiniteInterval
<1>4. L \in SUBSET (1..n) /\ L \cup K = 1..n /\ L \cap K = {}
  BY <1>2
<1> HIDE DEF L
<1>5. IsFiniteSet(K) /\ IsFiniteSet(L)
  BY <1>2, <1>3, <1>4, FiniteSubset, Zenon
<1>6. Cardinality(K) \in Nat /\ Cardinality(L) \in Nat
  BY <1>5, FiniteCount
<1>7. Cardinality(1..n) = Cardinality(L) + Cardinality(K) - Cardinality({})
  BY <1>4, <1>5, FiniteUnion, Zenon
<1>8. n = Cardinality(L) + Cardinality(K) - 0
  BY <1>3, <1>7, FiniteEmpty
<1>9. DOMAIN s \ K = L /\ L \in SUBSET DOMAIN s
  BY <1>1, <1>4, Zenon DEF L
<1>10. Pick(s, L) \in Seq(S) /\ Len(Pick(s, L)) = Cardinality(L)
  BY <1>9, PickProperties
<1>11. Cardinality(L) = n - Cardinality(K)
  BY <1>1, <1>6, <1>8
<1> QED BY <1>5, <1>6, <1>9, <1>10, <1>11, Zenon DEF n

\* Removing the messages at the positions K from the inflight list.
LEMMA PickInflight ==
    ASSUME Counting, NEW d \in MsgData, NEW K \in SUBSET DOMAIN d.inflight
    PROVE  LET new == [d EXCEPT !.inflight = Pick(d.inflight, DOMAIN d.inflight \ K),
                                !.msg_count12 = d.msg_count12 - Cardinality(K)]
           IN  /\ new \in MsgData
               /\ Counted(d) => Counted(new)
               /\ new.storage = d.storage
               /\ new.queued = d.queued
               /\ new.inflight_quota = d.inflight_quota
               /\ new.inflight = Pick(d.inflight, DOMAIN d.inflight \ K)
               /\ Inflight(new) = Inflight(d) - Cardinality(K)
<1> DEFINE s    == d.inflight
           left == Pick(s, DOMAIN s \ K)
           c    == d.msg_count12 - Cardinality(K)
           new  == [d EXCEPT !.inflight = left, !.msg_count12 = c]
<1>1. /\ s \in Seq(Msg) /\ Inflight(d) \in Nat /\ Queued(d) \in Nat /\ Stored(d) \in Nat
      /\ d.msg_count12 \in Int /\ Inflight(d) = Len(s)
  BY DataFields DEF Inflight
<1>4. /\ IsFiniteSet(K) /\ Cardinality(K) \in Nat
      /\ left \in Seq(Msg) /\ Len(left) = Len(s) - Cardinality(K)
  BY <1>1, WithoutLength, Zenon
<1>6. c \in Int
  BY <1>1, <1>4
<1> HIDE DEF s, left, c, new
<1>7. new \in MsgData
  BY <1>4, <1>6, Zenon DEF MsgData, new
<1>8. /\ new.inflight = left /\ new.queued = d.queued /\ new.storage = d.storage
      /\ new.inflight_quota = d.inflight_quota /\ new.msg_count12 = c
  BY DEF MsgData, new
<1>9. /\ Inflight(new) = Inflight(d) - Cardinality(K)
      /\ Queued(new) = Queued(d) /\ Stored(new) = Stored(d)
  BY <1>1, <1>4, <1>8, Zenon DEF Inflight, Queued, Stored
<1>10. Counted(d) => Counted(new)
  BY <1>1, <1>4, <1>8, <1>9 DEF Counted, c
<1> QED BY <1>7, <1>8, <1>9, <1>10 DEF new, left, s, c

\* The first of a set of positions is one of them.
LEMMA FirstOfType ==
    ASSUME Counting, NEW n \in Nat, NEW K \in SUBSET (1..n), K # {}
    PROVE  FirstOf(K) \in K
<1>1. \E i \in K : \A j \in K : i <= j
  BY FirstLastExist, Zenon
<1> QED BY <1>1, Zenon DEF FirstOf

\* db__message_remove_incoming keeps msgs_in well-formed and counted.
LEMMA RemoveType ==
    ASSUME Counting, NEW d \in MsgData, NEW mid
    PROVE  LET new == db__message_remove_incoming(d, mid)
           IN  /\ new \in MsgData
               /\ Counted(d) => Counted(new)
               /\ new.storage = d.storage
<1> DEFINE Same == SameMid(d.inflight, mid)
           new  == db__message_remove_incoming(d, mid)
<1>1. CASE Same = {}
  BY <1>1 DEF db__message_remove_incoming
<1>2. CASE Same # {}
  <2>1. d.inflight \in Seq(Msg)
    BY DataFields
  <2>2. Same \in SUBSET DOMAIN d.inflight
    BY DEF SameMid
  <2>3. DOMAIN d.inflight = 1..Len(d.inflight) /\ Len(d.inflight) \in Nat
    BY <2>1
  <2>4. FirstOf(Same) \in Same
    BY <1>2, <2>2, <2>3, FirstOfType, Zenon
  <2>5. {FirstOf(Same)} \in SUBSET DOMAIN d.inflight
    BY <2>2, <2>4, Zenon
  <2>6. Cardinality({FirstOf(Same)}) = 1
    BY FiniteSingleton, Zenon
  <2>7. new = [d EXCEPT !.inflight = Pick(d.inflight, DOMAIN d.inflight \ {FirstOf(Same)}),
                        !.msg_count12 = d.msg_count12 - Cardinality({FirstOf(Same)})]
    BY <1>2, <2>6, Zenon DEF db__message_remove_incoming
  <2> HIDE DEF Same, new
  <2>8. new \in MsgData /\ (Counted(d) => Counted(new)) /\ new.storage = d.storage
    BY <2>5, <2>7, PickInflight, Zenon
  <2> QED BY <2>8 DEF new
<1> QED BY <1>1, <1>2

\* handle__pubrel takes the messages with its mid off the inflight list.
LEMMA UnreleasedType ==
    ASSUME Counting, NEW d \in MsgData, NEW mid
    PROVE  LET new == Unreleased(d, mid)
           IN  /\ new \in MsgData
               /\ Counted(d) => Counted(new)
               /\ new.storage = d.storage
               /\ new.queued = d.queued
               /\ new.inflight_quota = d.inflight_quota
               /\ new.inflight = Pick(d.inflight, DOMAIN d.inflight \ SameMid(d.inflight, mid))
               /\ Inflight(new) = Inflight(d) - Cardinality(SameMid(d.inflight, mid))
<1>1. SameMid(d.inflight, mid) \in SUBSET DOMAIN d.inflight
  BY DEF SameMid
<1> QED BY <1>1, PickInflight, Zenon DEF Unreleased

\* A change of the quota.
LEMMA QuotaChange ==
    ASSUME NEW d \in MsgData, NEW q \in 0..InMax
    PROVE  LET new == [d EXCEPT !.inflight_quota = q]
           IN  /\ new \in MsgData
               /\ Counted(d) => Counted(new)
               /\ new.storage = d.storage /\ new.queued = d.queued
               /\ new.inflight = d.inflight /\ new.inflight_quota = q
<1> DEFINE new == [d EXCEPT !.inflight_quota = q]
<1>1. new \in MsgData
  BY Zenon DEF MsgData
<1>2. /\ new.storage = d.storage /\ new.queued = d.queued /\ new.inflight = d.inflight
      /\ new.msg_count12 = d.msg_count12 /\ new.inflight_quota = q
  BY DEF MsgData
<1> HIDE DEF new
<1>3. Counted(d) => Counted(new)
  BY <1>2, Zenon DEF Counted, Inflight, Queued, Stored
<1> QED BY <1>1, <1>2, <1>3 DEF new

\* db__message_insert puts the message on the list chosen for it.
LEMMA InsertType ==
    ASSUME NEW d \in MsgData, NEW m \in Msg,
           NEW place \in {"inflight", "queued", "storage", "dropped"}
    PROVE  LET new == db__message_insert(d, m, place)
           IN  /\ new \in MsgData
               /\ Counted(d) => Counted(new)
               /\ place # "storage" => new.storage = d.storage
               /\ place # "queued" => new.queued = d.queued
               /\ new.inflight = IF place = "inflight" THEN Append(d.inflight, m)
                                 ELSE d.inflight
               /\ new.inflight_quota = d.inflight_quota
<1> DEFINE new == db__message_insert(d, m, place)
           c   == d.msg_count12 + 1
<1>1. /\ d.inflight \in Seq(Msg) /\ d.queued \in Seq(Msg) /\ d.storage \in Seq(Msg)
      /\ Inflight(d) \in Nat /\ Queued(d) \in Nat /\ Stored(d) \in Nat
      /\ d.msg_count12 \in Int
  BY DataFields
<1>2. c \in Int
  BY <1>1
<1>3. ASSUME NEW s \in Seq(Msg)
      PROVE  Append(s, m) \in Seq(Msg) /\ Len(Append(s, m)) = Len(s) + 1
  OBVIOUS
<1>4. CASE place = "inflight"
  <2> DEFINE s == Append(d.inflight, m)
  <2>1. new = [d EXCEPT !.msg_count12 = c, !.inflight = s]
    BY <1>4 DEF db__message_insert
  <2>2. s \in Seq(Msg) /\ Len(s) = Inflight(d) + 1
    BY <1>1, <1>3, Zenon DEF Inflight
  <2> HIDE DEF new, c, s
  <2>3. new \in MsgData
    BY <1>2, <2>1, <2>2, Zenon DEF MsgData
  <2>4. /\ new.inflight = s /\ new.queued = d.queued /\ new.storage = d.storage
        /\ new.msg_count12 = c /\ new.inflight_quota = d.inflight_quota
    BY <2>1 DEF MsgData
  <2>5. Inflight(new) = Inflight(d) + 1 /\ Queued(new) = Queued(d) /\ Stored(new) = Stored(d)
    BY <2>2, <2>4, Zenon DEF Inflight, Queued, Stored
  <2>6. Counted(d) => Counted(new)
    BY <1>1, <2>4, <2>5 DEF Counted, c
  <2> QED BY <1>4, <2>3, <2>4, <2>6, Zenon DEF new, s
<1>5. CASE place = "queued"
  <2> DEFINE s == Append(d.queued, m)
  <2>1. new = [d EXCEPT !.msg_count12 = c, !.queued = s]
    BY <1>5 DEF db__message_insert
  <2>2. s \in Seq(Msg) /\ Len(s) = Queued(d) + 1
    BY <1>1, <1>3, Zenon DEF Queued
  <2> HIDE DEF new, c, s
  <2>3. new \in MsgData
    BY <1>2, <2>1, <2>2, Zenon DEF MsgData
  <2>4. /\ new.inflight = d.inflight /\ new.queued = s /\ new.storage = d.storage
        /\ new.msg_count12 = c /\ new.inflight_quota = d.inflight_quota
    BY <2>1 DEF MsgData
  <2>5. Inflight(new) = Inflight(d) /\ Queued(new) = Queued(d) + 1 /\ Stored(new) = Stored(d)
    BY <2>2, <2>4, Zenon DEF Inflight, Queued, Stored
  <2>6. Counted(d) => Counted(new)
    BY <1>1, <2>4, <2>5 DEF Counted, c
  <2> QED BY <1>5, <2>3, <2>4, <2>6 DEF new
<1>6. CASE place = "storage"
  <2> DEFINE s == Append(d.storage, m)
  <2>1. new = [d EXCEPT !.msg_count12 = c, !.storage = s]
    BY <1>6 DEF db__message_insert
  <2>2. s \in Seq(Msg) /\ Len(s) = Stored(d) + 1
    BY <1>1, <1>3, Zenon DEF Stored
  <2> HIDE DEF new, c, s
  <2>3. new \in MsgData
    BY <1>2, <2>1, <2>2, Zenon DEF MsgData
  <2>4. /\ new.inflight = d.inflight /\ new.queued = d.queued /\ new.storage = s
        /\ new.msg_count12 = c /\ new.inflight_quota = d.inflight_quota
    BY <2>1 DEF MsgData
  <2>5. Inflight(new) = Inflight(d) /\ Queued(new) = Queued(d) /\ Stored(new) = Stored(d) + 1
    BY <2>2, <2>4, Zenon DEF Inflight, Queued, Stored
  <2>6. Counted(d) => Counted(new)
    BY <1>1, <2>4, <2>5 DEF Counted, c
  <2> QED BY <1>6, <2>3, <2>4, <2>6 DEF new
<1>7. CASE place = "dropped"
  BY <1>7 DEF db__message_insert
<1> QED BY <1>4, <1>5, <1>6, <1>7

\* What the queue loops may take is on the queue.
LEMMA CountsInRange ==
    ASSUME NEW d \in MsgData, NEW k \in Nat
    PROVE  WrittenIn(d) \in 0..Queued(d) /\ Released(d, k) \in 0..Queued(d)
<1>1. Queued(d) \in Nat /\ d.inflight_quota \in Nat /\ InMax \in Nat
  BY DataFields, ConstantsAssumption
<1> DEFINE ready == IF OutMax = 0 THEN Queued(d) ELSE Lesser(Queued(d), d.inflight_quota)
<1>2. ready \in 0..Queued(d)
  BY <1>1 DEF Lesser
<1>3. WrittenIn(d) = IF sock = "broken" THEN Lesser(ready, 1) ELSE ready
  BY DEF WrittenIn, Queued
<1> HIDE DEF ready
<1>4. WrittenIn(d) \in 0..Queued(d)
  BY <1>1, <1>2, <1>3 DEF Lesser
<1>5. Released(d, k) = IF InMax = 0 THEN Queued(d)
                       ELSE Lesser(Queued(d), Greater(InMax - k, 0))
  BY DEF Released, Queued
<1>6. Released(d, k) \in 0..Queued(d)
  BY <1>1, <1>5 DEF Lesser, Greater
<1> QED BY <1>4, <1>6

\* db__message_reconnect_reset_incoming; it counts the two lists it knows of.
LEMMA ResetType ==
    ASSUME NEW d \in MsgData
    PROVE  LET new == db__message_reconnect_reset_incoming(d)
           IN  /\ new \in MsgData
               /\ d.storage = <<>> => Counted(new)
               /\ new.storage = d.storage
<1> DEFINE quota == Spend(InMax, Inflight(d))
           c     == Inflight(d) + Queued(d)
           reset == [d EXCEPT !.inflight_quota = quota, !.msg_count12 = c]
           n     == IF InMax = 0 THEN Queued(d) ELSE Lesser(Queued(d), quota)
<1>1. Inflight(d) \in Nat /\ Queued(d) \in Nat /\ InMax \in Nat /\ InMax \in 0..InMax
  BY DataFields, ConstantsAssumption
<1>2. quota \in 0..InMax /\ c \in Int
  BY <1>1, QuotaType
<1>3. n \in 0..Queued(d)
  BY <1>1, <1>2 DEF Lesser
<1>4. db__message_reconnect_reset_incoming(d) = Dequeue(reset, n)
  BY DEF db__message_reconnect_reset_incoming, ResetCount, Inflight, Queued
<1> HIDE DEF quota, c, n
<1>5. reset \in MsgData
  BY <1>2, Zenon DEF MsgData
<1>6. /\ reset.inflight = d.inflight /\ reset.queued = d.queued /\ reset.storage = d.storage
      /\ reset.msg_count12 = c
  BY DEF MsgData
<1> HIDE DEF reset
<1>7. Queued(reset) = Queued(d) /\ Inflight(reset) = Inflight(d) /\ Stored(reset) = Stored(d)
  BY <1>6, Zenon DEF Queued, Inflight, Stored
<1>8. ASSUME d.storage = <<>> PROVE Counted(reset)
  <2>1. Stored(d) = 0
    BY <1>8 DEF Stored
  <2> QED BY <1>1, <1>6, <1>7, <2>1 DEF Counted, c
<1>9. n \in 0..Queued(reset)
  BY <1>3, <1>7
<1>10. /\ Dequeue(reset, n) \in MsgData /\ Dequeue(reset, n).storage = reset.storage
       /\ Counted(reset) => Counted(Dequeue(reset, n))
  BY <1>5, <1>9, DequeueType
<1> QED BY <1>4, <1>6, <1>8, <1>10

-----------------------------------------------------------------------------
(* Type correctness and the message count                                  *)

\* Handing messages on keeps the type of routed.
LEMMA RouteType ==
    ASSUME Counting, routed \in [1..MaxMsgs -> 0..2], NEW l, NEW n \in Nat,
           NEW K \in SUBSET (1..n), Route(l, K)
    PROVE  routed' \in [1..MaxMsgs -> 0..2]
<1> DEFINE times(i) == Cardinality({j \in K : l[j].id = i})
<1>1. ASSUME NEW i PROVE times(i) \in Nat
  <2>1. {j \in K : l[j].id = i} \in SUBSET (1..n)
    BY Zenon
  <2>2. IsFiniteSet(1..n)
    BY FiniteInterval
  <2>3. IsFiniteSet({j \in K : l[j].id = i})
    BY <2>1, <2>2, FiniteSubset, Zenon
  <2> QED BY <2>3, FiniteCount
<1>2. routed' = [i \in 1..MaxMsgs |-> Lesser(routed[i] + times(i), 2)]
  BY DEF Route
<1> HIDE DEF times
<1>3. ASSUME NEW i \in 1..MaxMsgs PROVE Lesser(routed[i] + times(i), 2) \in 0..2
  BY <1>1 DEF Lesser
<1> QED BY <1>2, <1>3, Zenon

\* The replies of a handler, and its return.
LEMMA FinishType ==
    ASSUME TypeInv, in_packets # <<>>, NEW replies \in Seq(Reply), NEW checked \in BOOLEAN,
           Finish(replies, checked)
    PROVE  /\ sock' \in {"up", "broken", "closed"}
           /\ in_packets' \in Seq(SoundPacket)
           /\ out_packets' \in Seq(Reply)
<1>1. in_packets \in Seq(SoundPacket) /\ out_packets \in Seq(Reply)
        /\ sock \in {"up", "broken", "closed"}
  BY DEF TypeInv, TypeOK
<1>2. Tail(in_packets) \in Seq(SoundPacket) /\ out_packets \o replies \in Seq(Reply)
  BY <1>1, ConcatType
<1>3. CASE sock = "broken" /\ checked
  <2>1. sock' = "closed" /\ in_packets' = <<>> /\ out_packets' = <<>>
    BY <1>3, Zenon DEF Finish, Close
  <2> QED BY <2>1
<1>4. CASE ~(sock = "broken" /\ checked)
  BY <1>1, <1>2, <1>4, Zenon DEF Finish
<1> QED BY <1>3, <1>4

\* The PUBRECs for messages that leave the queue.
LEMMA PubrecsType ==
    ASSUME NEW d \in MsgData, NEW n \in 0..Queued(d)
    PROVE  Pubrecs(d, n) \in Seq(Reply) /\ Len(Pubrecs(d, n)) = n
<1>1. d.queued \in Seq(Msg) /\ n \in 0..Len(d.queued) /\ n \in Nat
  BY DataFields DEF Queued
<1>2. ASSUME NEW i \in 1..n PROVE Pubrec(d.queued[i]) \in Reply
  <2>1. d.queued[i] \in Msg
    BY <1>1
  <2> QED BY <2>1, Zenon DEF Msg, Reply, Pubrec
<1>3. Pubrecs(d, n) \in [1..n -> Reply]
  BY <1>2, Zenon DEF Pubrecs
<1> QED BY <1>1, <1>3, TupleType, Zenon

\* The end of handle__publish: whatever db__message_write_queued_in moves, the
\* message data stays well-formed and counted.
LEMMA WriteQueuedInType ==
    ASSUME TypeInv, in_packets # <<>>, NEW d \in MsgData, NEW reply \in Seq(Reply),
           WriteQueuedIn(d, reply)
    PROVE  /\ msgs_in' \in MsgData
           /\ Counted(d) => Counted(msgs_in')
           /\ msgs_in'.storage = d.storage
           /\ sock' \in {"up", "broken", "closed"}
           /\ in_packets' \in Seq(SoundPacket)
           /\ out_packets' \in Seq(Reply)
<1>1. PICK n \in {WrittenIn(d)} :
        msgs_in' = Dequeue(d, n) /\ Finish(reply \o Pubrecs(d, n), reply # <<>>)
  BY DEF WriteQueuedIn
<1>2. n \in 0..Queued(d)
  BY CountsInRange
<1>3. reply \o Pubrecs(d, n) \in Seq(Reply)
  BY <1>2, PubrecsType, ConcatType, Zenon
<1>4. (reply # <<>>) \in BOOLEAN
  OBVIOUS
<1> QED BY <1>1, <1>2, <1>3, <1>4, FinishType, DequeueType, Zenon

\* The refusal of a message.
LEMMA BadMessageType ==
    ASSUME TypeInv, in_packets # <<>>, NEW d \in MsgData, NEW p \in SoundPacket,
           p.type = "PUBLISH", process_bad_message(d, p)
    PROVE  /\ msgs_in' \in MsgData
           /\ Counted(d) => Counted(msgs_in')
           /\ msgs_in'.storage = d.storage
           /\ sock' \in {"up", "broken", "closed"}
           /\ in_packets' \in Seq(SoundPacket)
           /\ out_packets' \in Seq(Reply)
           /\ rejected' \subseteq 1..MaxMsgs
<1> DEFINE gives == p.kind.qos = 1 \/ (p.kind.qos = 2 /\ Mqtt5)
           reply == [type |-> IF p.kind.qos = 1 THEN "PUBACK" ELSE "PUBREC",
                     mid |-> p.mid, ok |-> ~Mqtt5]
           replies == IF p.kind.qos = 0 THEN <<>> ELSE <<reply>>
<1>1. /\ msgs_in' = IF gives THEN [d EXCEPT !.inflight_quota = Refund(d.inflight_quota)]
                    ELSE d
      /\ rejected' = rejected \cup {p.id}
      /\ Finish(replies, p.kind.qos > 0)
  BY DEF process_bad_message
<1>2. p.id \in 1..MaxMsgs /\ (p.kind.qos > 0 => p.mid \in 1..MaxMid) /\ p.kind.qos \in 0..2
  BY PacketFields
<1>3. replies \in Seq(Reply)
  <2>1. CASE p.kind.qos = 0
    BY <2>1
  <2>2. CASE p.kind.qos # 0
    <3>1. p.mid \in 1..MaxMid
      BY <1>2, <2>2
    <3>2. reply \in Reply
      BY <3>1, ConstantsAssumption, Zenon DEF Reply
    <3> HIDE DEF reply
    <3> QED BY <2>2, <3>2
  <2> QED BY <2>1, <2>2
<1>4. (p.kind.qos > 0) \in BOOLEAN
  OBVIOUS
<1>5. /\ sock' \in {"up", "broken", "closed"} /\ in_packets' \in Seq(SoundPacket)
      /\ out_packets' \in Seq(Reply)
  <2> HIDE DEF replies
  <2> QED BY <1>1, <1>3, <1>4, FinishType, Zenon
<1>6. /\ msgs_in' \in MsgData /\ (Counted(d) => Counted(msgs_in'))
      /\ msgs_in'.storage = d.storage
  <2>1. Refund(d.inflight_quota) \in 0..InMax
    BY DataFields, QuotaType
  <2> HIDE DEF gives
  <2> QED BY <1>1, <2>1, QuotaChange, Zenon
<1>7. rejected' \subseteq 1..MaxMsgs
  BY <1>1, <1>2 DEF TypeInv, TypeOK
<1> QED BY <1>5, <1>6, <1>7

\* The acceptance of a message.
LEMMA AcceptType ==
    ASSUME Counting, TypeInv, in_packets # <<>>, NEW d \in MsgData, NEW p \in SoundPacket,
           p.type = "PUBLISH", NEW dup, NEW slow \in Modes, Accept(d, p, dup, slow)
    PROVE  /\ msgs_in' \in MsgData
           /\ Counted(d) => Counted(msgs_in')
           /\ PolicyInactive => msgs_in'.storage = d.storage
           /\ sock' \in {"up", "broken", "closed"}
           /\ in_packets' \in Seq(SoundPacket)
           /\ out_packets' \in Seq(Reply)
           /\ routed' \in [1..MaxMsgs -> 0..2]
<1> DEFINE m      == [id |-> p.id, mid |-> p.mid]
           place  == Place(d, p.kind, slow)
           puback == [type |-> "PUBACK", mid |-> p.mid, ok |-> TRUE]
           quota  == Refund(Spend(d.inflight_quota, 1))
<1>1. /\ p.id \in 1..MaxMsgs /\ (p.kind.qos > 0 => p.mid \in 1..MaxMid)
      /\ p.kind.qos \in 0..2 /\ p.kind \in InKinds
  BY PacketFields
<1>2. routed \in [1..MaxMsgs -> 0..2]
  BY DEF TypeInv, TypeOK
<1>3. Route(<<p>>, {1}) => routed' \in [1..MaxMsgs -> 0..2]
  <2>1. {1} \in SUBSET (1..1) /\ 1 \in Nat
    OBVIOUS
  <2> QED BY <1>2, <2>1, RouteType, Zenon
<1>4. CASE p.kind.qos = 0 /\ Route(<<p>>, {1}) /\ WriteQueuedIn(d, <<>>)
  <2>1. <<>> \in Seq(Reply)
    OBVIOUS
  <2> QED BY <1>3, <1>4, <2>1, WriteQueuedInType, Zenon
<1>5. CASE /\ p.kind.qos = 1 /\ Route(<<p>>, {1})
           /\ WriteQueuedIn([d EXCEPT !.inflight_quota = quota], <<puback>>)
  <2> DEFINE e == [d EXCEPT !.inflight_quota = quota]
  <2>1. puback \in Reply
    <3>1. p.mid \in 1..MaxMid
      BY <1>1, <1>5
    <3> QED BY <3>1, Zenon DEF Reply
  <2>2. <<puback>> \in Seq(Reply)
    <3> HIDE DEF puback
    <3> QED BY <2>1
  <2>3. quota \in 0..InMax
    BY DataFields, QuotaType, ConstantsAssumption, Zenon
  <2>4. e \in MsgData /\ (Counted(d) => Counted(e)) /\ e.storage = d.storage
    BY <2>3, QuotaChange, Zenon
  <2>5. WriteQueuedIn(e, <<puback>>)
    BY <1>5
  <2> HIDE DEF e, puback
  <2> QED BY <1>3, <1>5, <2>2, <2>4, <2>5, WriteQueuedInType, Zenon
<1>6. CASE /\ p.kind.qos = 2 /\ UNCHANGED routed
           /\ WriteQueuedIn(db__message_insert(d, m, place),
                            IF place \in {"inflight", "storage"} THEN <<Pubrec(m)>> ELSE <<>>)
  <2> DEFINE e == db__message_insert(d, m, place)
             r == IF place \in {"inflight", "storage"} THEN <<Pubrec(m)>> ELSE <<>>
  <2>1. p.mid \in 1..MaxMid
    BY <1>1, <1>6
  <2>2. m \in Msg /\ Pubrec(m) \in Reply
    BY <1>1, <2>1, Zenon DEF Msg, Pubrec, Reply
  <2>3. r \in Seq(Reply)
    <3> HIDE DEF m, place
    <3> QED BY <2>2
  <2>4. place \in {"inflight", "queued", "storage", "dropped"}
    BY DEF Place
  <2>5. PolicyInactive => place # "storage"
    BY <1>1, Zenon DEF Place, PolicyInactive, Modes
  <2> HIDE DEF m, place
  <2>6. e \in MsgData /\ (Counted(d) => Counted(e)) /\ (PolicyInactive => e.storage = d.storage)
    BY <2>2, <2>4, <2>5, InsertType, Zenon
  <2>7. WriteQueuedIn(e, r)
    BY <1>6
  <2> HIDE DEF e, r
  <2> QED BY <1>2, <1>6, <2>3, <2>6, <2>7, WriteQueuedInType, Zenon
<1>7. CASE p.kind.qos = 2 /\ WriteQueuedIn(d, <<Pubrec(m)>>) /\ UNCHANGED routed
  <2>1. p.mid \in 1..MaxMid
    BY <1>1, <1>7
  <2>2. Pubrec(m) \in Reply
    BY <1>1, <2>1, Zenon DEF Pubrec, Reply
  <2>3. <<Pubrec(m)>> \in Seq(Reply)
    <3> HIDE DEF m
    <3> QED BY <2>2
  <2> QED BY <1>2, <1>7, <2>3, WriteQueuedInType, Zenon
<1> QED BY <1>4, <1>5, <1>6, <1>7, Zenon DEF Accept

\* With the policy inactive nothing is put on the storage list, which the
\* reconnect reset does not count.
CountInv == PolicyInactive => msgs_in.storage = <<>> /\ Counted(msgs_in)

\* TypeInv, one conjunct per variable.
LEMMA TypeParts ==
    /\ TypeInv <=> /\ msgs_in \in MsgData
                   /\ sock \in {"up", "broken", "closed"}
                   /\ in_packets \in Seq(SoundPacket)
                   /\ out_packets \in Seq(Reply)
                   /\ routed \in [1..MaxMsgs -> 0..2]
                   /\ rejected \subseteq 1..MaxMsgs
                   /\ unfinished \in Seq(Unfinished)
                   /\ finished \subseteq 1..MaxMsgs
                   /\ published \in Seq(InKinds)
                   /\ breaks \in 0..MaxBreaks
    /\ TypeInv' <=> /\ msgs_in' \in MsgData
                    /\ sock' \in {"up", "broken", "closed"}
                    /\ in_packets' \in Seq(SoundPacket)
                    /\ out_packets' \in Seq(Reply)
                    /\ routed' \in [1..MaxMsgs -> 0..2]
                    /\ rejected' \subseteq 1..MaxMsgs
                    /\ unfinished' \in Seq(Unfinished)
                    /\ finished' \subseteq 1..MaxMsgs
                    /\ published' \in Seq(InKinds)
                    /\ breaks' \in 0..MaxBreaks
<1>1. ASSUME NEW s \in Seq(SoundPacket) PROVE s \in Seq(Packet)
  <2>1. SoundPacket \subseteq Packet
    BY DEF SoundPacket
  <2> QED BY <2>1
<1> QED BY <1>1, Zenon DEF TypeInv, TypeOK, Unfinished

\* The packet the client sends for an unfinished message.
LEMMA AgainType ==
    ASSUME NEW u \in Unfinished
    PROVE  Again(u) \in SoundPacket
<1>1. u.id \in 1..MaxMsgs /\ u.mid \in 1..MaxMid /\ u.mid \in 0..MaxMid /\ u.mid > 0
        /\ u.kind \in InKinds
  BY ConstantsAssumption DEF Unfinished
<1>2. CASE u.phase = "pubrel"
  <2> DEFINE p == [type |-> "PUBREL", mid |-> u.mid]
  <2>1. p \in Packet /\ p.type # "PUBLISH"
    BY <1>1, Zenon DEF Packet
  <2> QED BY <1>2, <2>1, Zenon DEF Again, SoundPacket
<1>3. CASE u.phase # "pubrel"
  <2> DEFINE p == [type |-> "PUBLISH", id |-> u.id, mid |-> u.mid, kind |-> u.kind]
  <2>1. p \in Packet /\ p.mid > 0
    BY <1>1, Zenon DEF Packet
  <2> QED BY <1>3, <2>1, Zenon DEF Again, SoundPacket
<1> QED BY <1>2, <1>3

\* The entry of a new message.
LEMMA NewEntryType ==
    ASSUME Counting, TypeInv, NEW kind \in InKinds, Len(published) < MaxMsgs, FreeMids # {}
    PROVE  /\ FirstOf(FreeMids) \in FreeMids
           /\ [id |-> Len(published) + 1, mid |-> FirstOf(FreeMids), kind |-> kind,
               phase |-> "publish"] \in Unfinished
<1>1. FreeMids \in SUBSET (1..MaxMid) /\ MaxMid \in Nat
  BY ConstantsAssumption DEF FreeMids
<1>2. FirstOf(FreeMids) \in FreeMids
  BY <1>1, FirstOfType, Zenon
<1>3. FirstOf(FreeMids) \in 1..MaxMid
  BY <1>1, <1>2, Zenon
<1>4. Len(published) + 1 \in 1..MaxMsgs
  BY ConstantsAssumption, TypeParts
<1> QED BY <1>2, <1>3, <1>4, Zenon DEF Unfinished

\* A new message of the client has a packet and an entry of the right types.
LEMMA ClientPublishType ==
    ASSUME Counting, TypeInv, NEW kind \in InKinds, ClientPublish(kind)
    PROVE  TypeInv' /\ UNCHANGED msgs_in
<1> DEFINE id == Len(published) + 1
           q0 == [type |-> "PUBLISH", id |-> id, mid |-> 0, kind |-> kind]
           u  == [id |-> id, mid |-> FirstOf(FreeMids), kind |-> kind, phase |-> "publish"]
<1>1. /\ Len(published) < MaxMsgs
      /\ published' = Append(published, kind)
      /\ UNCHANGED <<msgs_in, sock, out_packets, routed, rejected, finished, breaks>>
      /\ \/ kind.qos = 0 /\ in_packets' = Append(in_packets, q0) /\ UNCHANGED unfinished
         \/ /\ kind.qos > 0 /\ FreeMids # {}
            /\ unfinished' = Append(unfinished, u)
            /\ in_packets' = Append(in_packets, Again(u))
  BY DEF ClientPublish
<1>2. published' \in Seq(InKinds)
  BY <1>1, TypeParts
<1>3. in_packets' \in Seq(SoundPacket) /\ unfinished' \in Seq(Unfinished)
  <2>1. in_packets \in Seq(SoundPacket) /\ unfinished \in Seq(Unfinished)
    BY TypeParts
  <2>2. CASE kind.qos = 0 /\ in_packets' = Append(in_packets, q0) /\ UNCHANGED unfinished
    <3>1. id \in 1..MaxMsgs /\ 0 \in 0..MaxMid /\ ~(kind.qos > 0)
      BY <1>1, <2>2, ConstantsAssumption, TypeParts
    <3>2. q0 \in Packet /\ q0.kind = kind
      BY <3>1, Zenon DEF Packet
    <3>3. q0 \in SoundPacket
      BY <3>1, <3>2, Zenon DEF SoundPacket
    <3> HIDE DEF q0
    <3> QED BY <2>1, <2>2, <3>3
  <2>3. CASE /\ FreeMids # {} /\ unfinished' = Append(unfinished, u)
             /\ in_packets' = Append(in_packets, Again(u))
    <3>1. u \in Unfinished
      BY <1>1, <2>3, NewEntryType, Zenon
    <3> HIDE DEF u
    <3>2. Again(u) \in SoundPacket
      BY <3>1, AgainType
    <3> QED BY <2>1, <2>3, <3>1, <3>2
  <2> QED BY <1>1, <2>2, <2>3, Zenon
<1> QED BY <1>1, <1>2, <1>3, TypeParts, Zenon

\* A reply the client takes leaves entries and packets of the right types.
LEMMA ClientReceiveType ==
    ASSUME Counting, TypeInv, ClientReceive
    PROVE  TypeInv' /\ UNCHANGED msgs_in
<1> DEFINE r == Head(out_packets)
           moved == [i \in DOMAIN unfinished |->
                       IF i \in Mine(r) THEN [unfinished[i] EXCEPT !.phase = "pubrel"]
                       ELSE unfinished[i]]
           pubrel == [type |-> "PUBREL", mid |-> r.mid]
<1>1. /\ out_packets # <<>> /\ out_packets' = Tail(out_packets)
      /\ UNCHANGED <<msgs_in, sock, routed, rejected, published, breaks>>
      /\ \/ /\ unfinished' = moved /\ in_packets' = Append(in_packets, pubrel)
            /\ UNCHANGED finished
         \/ /\ unfinished' = Pick(unfinished, DOMAIN unfinished \ Mine(r))
            /\ finished' = IF r.ok THEN finished \cup {unfinished[i].id : i \in Mine(r)}
                           ELSE finished
            /\ UNCHANGED in_packets
  BY Zenon DEF ClientReceive
<1>2. /\ in_packets \in Seq(SoundPacket) /\ out_packets \in Seq(Reply)
      /\ unfinished \in Seq(Unfinished) /\ finished \subseteq 1..MaxMsgs
  BY TypeParts
<1>3. r \in Reply /\ out_packets' \in Seq(Reply)
  BY <1>1, <1>2
<1>4. DOMAIN unfinished = 1..Len(unfinished) /\ Len(unfinished) \in Nat
        /\ \A i \in DOMAIN unfinished : unfinished[i] \in Unfinished
  BY <1>2
<1>5. CASE unfinished' = moved /\ in_packets' = Append(in_packets, pubrel) /\ UNCHANGED finished
  <2>1. r.mid \in 1..MaxMid
    BY <1>3 DEF Reply
  <2>2. pubrel \in Packet /\ pubrel.type # "PUBLISH"
    BY <2>1, Zenon DEF Packet
  <2>3. pubrel \in SoundPacket
    BY <2>2, Zenon DEF SoundPacket
  <2> HIDE DEF pubrel
  <2>4. in_packets' \in Seq(SoundPacket)
    BY <1>2, <1>5, <2>3
  <2>5. \A v \in Unfinished : [v EXCEPT !.phase = "pubrel"] \in Unfinished
    BY Zenon DEF Unfinished
  <2>6. moved \in [1..Len(unfinished) -> Unfinished]
    BY <1>4, <2>5, Zenon
  <2>7. moved \in Seq(Unfinished)
    BY <1>4, <2>6, TupleType, Zenon
  <2> HIDE DEF moved, r
  <2> QED BY <1>1, <1>2, <1>3, <1>5, <2>4, <2>7, TypeParts, Zenon
<1>6. CASE /\ unfinished' = Pick(unfinished, DOMAIN unfinished \ Mine(r))
           /\ finished' = IF r.ok THEN finished \cup {unfinished[i].id : i \in Mine(r)}
                          ELSE finished
           /\ UNCHANGED in_packets
  <2>1. Mine(r) \in SUBSET DOMAIN unfinished
    BY DEF Mine
  <2> HIDE DEF r
  <2>2. unfinished' \in Seq(Unfinished)
    BY <1>2, <1>6, <2>1, WithoutLength, Zenon
  <2>3. finished' \subseteq 1..MaxMsgs
    <3>1. \A i \in Mine(r) : unfinished[i].id \in 1..MaxMsgs
      BY <1>4, <2>1 DEF Unfinished
    <3> QED BY <1>2, <1>6, <3>1, Zenon
  <2> QED BY <1>1, <1>2, <1>3, <1>6, <2>2, <2>3, TypeParts, Zenon
<1> QED BY <1>1, <1>5, <1>6, Zenon

\* The two outcomes of handle__publish.
LEMMA HandlePublishCases ==
    ASSUME NEW slow, HandlePublish(slow)
    PROVE  LET p == Head(in_packets)
           IN  /\ sock # "closed" /\ in_packets # <<>> /\ p.type = "PUBLISH"
               /\ UNCHANGED <<unfinished, finished, published, breaks>>
               /\ \/ /\ Acceptable(p) /\ Accept(Cleared(p), p, IsDup(p), slow)
                     /\ UNCHANGED rejected
                  \/ ~Acceptable(p) /\ process_bad_message(Cleared(p), p)
  BY Zenon DEF HandlePublish, Receives, clientVars

\* handle__publish clears a different message found under the packet identifier.
LEMMA ClearedType ==
    ASSUME Counting, TypeInv, NEW p
    PROVE  /\ Cleared(p) \in MsgData
           /\ Counted(msgs_in) => Counted(Cleared(p))
           /\ Cleared(p).storage = msgs_in.storage
  BY TypeParts, RemoveType, Zenon DEF Cleared

\* handle__publish keeps the types and, with the policy inactive, the count.
LEMMA HandlePublishType ==
    ASSUME Counting, TypeInv, NEW slow \in Modes, HandlePublish(slow)
    PROVE  TypeInv' /\ (CountInv => CountInv')
<1> DEFINE p == Head(in_packets)
           d == Cleared(p)
<1>1. /\ in_packets # <<>> /\ p.type = "PUBLISH"
      /\ UNCHANGED <<unfinished, finished, published, breaks>>
      /\ \/ Accept(d, p, IsDup(p), slow) /\ UNCHANGED rejected
         \/ process_bad_message(d, p)
  BY HandlePublishCases, Zenon
<1>2. p \in SoundPacket
  BY <1>1, TypeParts
<1>3. /\ d \in MsgData /\ (Counted(msgs_in) => Counted(d)) /\ d.storage = msgs_in.storage
  BY ClearedType, Zenon
<1>4. CASE Accept(d, p, IsDup(p), slow) /\ UNCHANGED rejected
  <2> HIDE DEF d, p
  <2>1. /\ msgs_in' \in MsgData
        /\ Counted(d) => Counted(msgs_in')
        /\ PolicyInactive => msgs_in'.storage = d.storage
        /\ sock' \in {"up", "broken", "closed"}
        /\ in_packets' \in Seq(SoundPacket)
        /\ out_packets' \in Seq(Reply)
        /\ routed' \in [1..MaxMsgs -> 0..2]
    BY <1>1, <1>2, <1>3, <1>4, AcceptType, Zenon
  <2>2. TypeInv'
    BY <1>1, <1>4, <2>1, TypeParts, Zenon
  <2>3. CountInv => CountInv'
    BY <1>3, <2>1, Zenon DEF CountInv, Counted
  <2> QED BY <2>2, <2>3
<1>5. CASE process_bad_message(d, p)
  <2> HIDE DEF d, p
  <2>1. /\ msgs_in' \in MsgData
        /\ Counted(d) => Counted(msgs_in')
        /\ msgs_in'.storage = d.storage
        /\ sock' \in {"up", "broken", "closed"}
        /\ in_packets' \in Seq(SoundPacket)
        /\ out_packets' \in Seq(Reply)
        /\ rejected' \subseteq 1..MaxMsgs
    BY <1>1, <1>2, <1>3, <1>5, BadMessageType, Zenon
  <2>2. UNCHANGED routed
    BY <1>5 DEF process_bad_message
  <2>3. TypeInv'
    BY <1>1, <2>1, <2>2, TypeParts, Zenon
  <2>4. CountInv => CountInv'
    BY <1>3, <2>1, Zenon DEF CountInv, Counted
  <2> QED BY <2>3, <2>4
<1> QED BY <1>1, <1>4, <1>5

\* handle__pubrel keeps the types and the count: each message it releases is uncounted.
LEMMA HandlePubrelType ==
    ASSUME Counting, TypeInv, HandlePubrel
    PROVE  TypeInv' /\ (CountInv => CountInv')
<1> DEFINE mid  == Head(in_packets).mid
           n    == Released(msgs_in, Len(msgs_in.inflight))
           left == Unreleased(msgs_in, mid)
           k    == Released(left, Len(msgs_in.inflight))
           new  == Dequeue(left, k)
           comp == [type |-> "PUBCOMP", mid |-> mid, ok |-> TRUE]
           Same == SameMid(msgs_in.inflight, mid)
<1>1. /\ in_packets # <<>> /\ Head(in_packets).type = "PUBREL"
      /\ Route(msgs_in.inflight, Same)
      /\ msgs_in' = [new EXCEPT !.inflight_quota = Refund(new.inflight_quota)]
      /\ Finish(Append(Pubrecs(msgs_in, n), comp), TRUE)
      /\ UNCHANGED <<unfinished, finished, published, rejected, breaks>>
  BY Zenon DEF HandlePubrel, Receives, clientVars, db__message_release_incoming
<1>2. mid \in 1..MaxMid
  <2>1. Head(in_packets) \in SoundPacket
    BY <1>1, TypeParts
  <2> QED BY <1>1, <2>1, PacketFields
<1>3. msgs_in \in MsgData /\ Len(msgs_in.inflight) \in Nat
  BY TypeParts, DataFields, Zenon DEF Inflight
<1>4. n \in 0..Queued(msgs_in)
  BY <1>3, CountsInRange, Zenon
<1>5. Append(Pubrecs(msgs_in, n), comp) \in Seq(Reply)
  <2>1. comp \in Reply
    BY <1>2, Zenon DEF Reply
  <2>2. Pubrecs(msgs_in, n) \in Seq(Reply)
    BY <1>3, <1>4, PubrecsType, Zenon
  <2> HIDE DEF comp, n
  <2> QED BY <2>1, <2>2
<1>6. /\ sock' \in {"up", "broken", "closed"} /\ in_packets' \in Seq(SoundPacket)
      /\ out_packets' \in Seq(Reply)
  <2> HIDE DEF comp, n
  <2>1. TRUE \in BOOLEAN
    OBVIOUS
  <2> QED BY <1>1, <1>5, <2>1, FinishType, Zenon
<1>7. /\ left \in MsgData /\ (Counted(msgs_in) => Counted(left))
      /\ left.storage = msgs_in.storage
  BY <1>3, UnreleasedType, Zenon
<1>8. /\ new \in MsgData /\ (Counted(left) => Counted(new)) /\ new.storage = left.storage
  <2>1. k \in 0..Queued(left)
    BY <1>3, <1>7, CountsInRange, Zenon
  <2> HIDE DEF left, k
  <2> QED BY <1>7, <2>1, DequeueType, Zenon
<1>9. /\ msgs_in' \in MsgData /\ (Counted(new) => Counted(msgs_in'))
      /\ msgs_in'.storage = new.storage
  <2> HIDE DEF new
  <2>1. Refund(new.inflight_quota) \in 0..InMax
    BY <1>8, DataFields, QuotaType
  <2> QED BY <1>1, <1>8, <2>1, QuotaChange, Zenon
<1>10. routed' \in [1..MaxMsgs -> 0..2]
  <2>1. Same \in SUBSET (1..Len(msgs_in.inflight))
    <3>1. msgs_in.inflight \in Seq(Msg)
      BY <1>3, DataFields
    <3>2. DOMAIN msgs_in.inflight = 1..Len(msgs_in.inflight)
      BY <3>1
    <3> QED BY <3>2, Zenon DEF SameMid
  <2>2. routed \in [1..MaxMsgs -> 0..2]
    BY TypeParts, Zenon
  <2> HIDE DEF Same
  <2> QED BY <1>1, <1>3, <2>1, <2>2, RouteType, Zenon
<1> HIDE DEF new, left
<1>11. TypeInv'
  BY <1>1, <1>6, <1>9, <1>10, TypeParts, Zenon
<1>12. CountInv => CountInv'
  BY <1>7, <1>8, <1>9, Zenon DEF CountInv, Counted
<1> QED BY <1>11, <1>12

\* context__init
LEMMA FreshType ==
    FreshMsgData \in MsgData /\ Counted(FreshMsgData) /\ FreshMsgData.storage = <<>>
<1>1. FreshMsgData \in MsgData
  BY ConstantsAssumption DEF FreshMsgData, MsgData
<1>2. Counted(FreshMsgData)
  BY DEF Counted, Inflight, Queued, Stored, FreshMsgData
<1> QED BY <1>1, <1>2 DEF FreshMsgData

\* connect__on_authorised keeps the types and counts the lists anew.
LEMMA ReconnectType ==
    ASSUME TypeInv, NEW outbound, Reconnect(outbound)
    PROVE  TypeInv' /\ (CountInv => CountInv')
<1> DEFINE sent == [i \in DOMAIN unfinished |-> Again(unfinished[i])]
           reset == db__message_reconnect_reset_incoming(msgs_in)
<1>1. /\ sock' = "up" /\ in_packets' = sent /\ out_packets' = <<>>
      /\ msgs_in' = IF HasMessages(msgs_in, outbound) THEN reset ELSE FreshMsgData
      /\ UNCHANGED <<routed, rejected, breaks, unfinished, finished, published>>
  BY DEF Reconnect, clientVars
<1>2. sent \in Seq(SoundPacket)
  <2>1. unfinished \in Seq(Unfinished)
    BY TypeParts
  <2>2. /\ DOMAIN unfinished = 1..Len(unfinished) /\ Len(unfinished) \in Nat
        /\ \A i \in DOMAIN unfinished : unfinished[i] \in Unfinished
    BY <2>1
  <2>3. sent \in [1..Len(unfinished) -> SoundPacket]
    BY <2>2, AgainType, Zenon
  <2> QED BY <2>2, <2>3, TupleType, Zenon
<1>3. out_packets' \in Seq(Reply) /\ sock' \in {"up", "broken", "closed"}
  BY <1>1
<1>4. /\ reset \in MsgData
      /\ msgs_in.storage = <<>> => Counted(reset)
      /\ reset.storage = msgs_in.storage
  BY TypeParts, ResetType, Zenon
<1> HIDE DEF sent, reset
<1>5. TypeInv'
  BY <1>1, <1>2, <1>3, <1>4, FreshType, TypeParts, Zenon
<1>6. CountInv => CountInv'
  BY <1>1, <1>4, FreshType, Zenon DEF CountInv, Counted
<1> QED BY <1>5, <1>6

\* Every step keeps the types and, with the policy inactive, the count.
LEMMA TypeStep ==
    ASSUME Counting, TypeInv, [Next]_vars
    PROVE  TypeInv' /\ (CountInv => CountInv')
<1>1. ASSUME UNCHANGED msgs_in PROVE CountInv => CountInv'
  BY <1>1, Zenon DEF CountInv, Counted
<1>2. CASE \E kind \in InKinds : ClientPublish(kind)
  BY <1>1, <1>2, ClientPublishType, Zenon
<1>3. CASE ClientReceive
  BY <1>1, <1>3, ClientReceiveType, Zenon
<1>4. CASE \E slow \in Modes : HandlePublish(slow)
  BY <1>4, HandlePublishType, Zenon
<1>5. CASE HandlePubrel
  BY <1>5, HandlePubrelType, Zenon
<1>6. CASE Break
  <2>1. /\ sock' = "broken" /\ breaks < MaxBreaks /\ breaks' = breaks + 1
        /\ UNCHANGED <<msgs_in, in_packets, out_packets, routed, rejected,
                       unfinished, finished, published>>
    BY <1>6 DEF Break, clientVars
  <2>2. breaks' \in 0..MaxBreaks
    BY <2>1, ConstantsAssumption, TypeParts
  <2>3. TypeInv'
    BY <2>1, <2>2, TypeParts, Zenon
  <2> QED BY <1>1, <2>1, <2>3
<1>7. CASE Disconnect
  <2>1. /\ sock' = "closed" /\ in_packets' = <<>> /\ out_packets' = <<>>
        /\ UNCHANGED <<msgs_in, routed, rejected, breaks, unfinished, finished, published>>
    BY <1>7 DEF Disconnect, Close, clientVars
  <2>2. in_packets' \in Seq(SoundPacket) /\ out_packets' \in Seq(Reply)
    BY <2>1
  <2>3. TypeInv'
    BY <2>1, <2>2, TypeParts, Zenon
  <2> QED BY <1>1, <2>1, <2>3
<1>8. CASE \E outbound \in BOOLEAN : Reconnect(outbound)
  BY <1>8, ReconnectType, Zenon
<1>9. CASE UNCHANGED vars
  <2>1. UNCHANGED <<msgs_in, sock, in_packets, out_packets, unfinished, finished,
                    published, routed, rejected, breaks>>
    BY <1>9 DEF vars, linkVars, clientVars
  <2> QED BY <1>1, <2>1, TypeParts, Zenon
<1> QED BY <1>2, <1>3, <1>4, <1>5, <1>6, <1>7, <1>8, <1>9, Zenon DEF Next

\* context__init starts with empty lists and a count of 0.
LEMMA TypeInit == Init => TypeInv /\ CountInv
<1> SUFFICES ASSUME Init PROVE TypeInv /\ CountInv
  OBVIOUS
<1>1. msgs_in = FreshMsgData
  BY DEF Init
<1>2. CountInv
  BY <1>1, FreshType, Zenon DEF CountInv
<1>3. /\ in_packets \in Seq(SoundPacket) /\ out_packets \in Seq(Reply)
      /\ unfinished \in Seq(Unfinished) /\ published \in Seq(InKinds)
      /\ rejected \subseteq 1..MaxMsgs /\ finished \subseteq 1..MaxMsgs
      /\ sock \in {"up", "broken", "closed"}
      /\ routed \in [1..MaxMsgs -> 0..2]
      /\ breaks \in 0..MaxBreaks
  BY ConstantsAssumption DEF Init
<1>4. TypeInv
  BY <1>1, <1>3, FreshType, TypeParts, Zenon
<1> QED BY <1>2, <1>4

-----------------------------------------------------------------------------
(* The handshakes of the client's messages                                 *)

\* The client has no more unfinished messages than the receive maximum, so that
\* nothing is ever queued.  An MQTT 5 client is bound to this by the protocol; for
\* an MQTT 3.1.1 client it is an assumption.
KeepsReceiveMaximum == InMax = 0 \/ Window <= InMax

Infl == msgs_in.inflight
Listed == {Infl[i].id : i \in DOMAIN Infl}
Settled == {i \in 1..MaxMsgs : routed[i] > 0 \/ i \in rejected}

\* The client's entries are about messages it has published; no two share the
\* message or the packet identifier.
ClientOK ==
    /\ Len(unfinished) <= Window /\ Len(published) <= MaxMsgs
    /\ \A k \in DOMAIN unfinished :
         /\ unfinished[k].id \in DOMAIN published
         /\ unfinished[k].kind = published[unfinished[k].id]
         /\ unfinished[k].kind.qos > 0
         /\ unfinished[k].phase = "pubrel" => unfinished[k].kind.qos = 2
    /\ \A k, l \in DOMAIN unfinished :
         k # l => /\ unfinished[k].id # unfinished[l].id
                  /\ unfinished[k].mid # unfinished[l].mid

\* A QoS 2 message is not handed on before its PUBREL, and then once.
RoutedOK ==
    /\ \A i \in 1..MaxMsgs : i \notin DOMAIN published => routed[i] = 0
    /\ \A k \in DOMAIN unfinished :
         unfinished[k].kind.qos = 2 /\ unfinished[k].phase = "publish"
           => routed[unfinished[k].id] = 0
    /\ RoutedOnce

\* The entry u of the client is the one the listed message m belongs to.
Belongs(m, u) == u.id = m.id /\ u.mid = m.mid /\ u.kind.qos = 2 /\ ~u.kind.denied

\* Nothing is queued, and the quota that is missing is held by inflight messages,
\* each of which the client still works on and which have not been handed on.
ListsOK ==
    /\ msgs_in.queued = <<>>
    /\ InMax <= msgs_in.inflight_quota + Inflight(msgs_in)
    /\ \A i, j \in DOMAIN Infl : i # j => Infl[i].id # Infl[j].id
    /\ \A i \in DOMAIN Infl :
         /\ routed[Infl[i].id] = 0
         /\ \E k \in DOMAIN unfinished : Belongs(Infl[i], unfinished[k])

\* The packet p is the last one the client has sent for its entry u.
Sends(p, u) ==
    /\ u.mid = p.mid
    /\ p.type = "PUBLISH" => u.id = p.id /\ u.kind = p.kind /\ u.phase = "publish"
    /\ p.type = "PUBREL" => u.phase = "pubrel"

\* A PUBLISH of QoS 0.
Simple(p, kinds) ==
    p.type = "PUBLISH" /\ p.kind.qos = 0 /\ p.id \in DOMAIN kinds /\ kinds[p.id] = p.kind

PacketsOK ==
    /\ \A i \in DOMAIN in_packets :
         \/ in_packets[i].mid = 0 /\ Simple(in_packets[i], published)
         \/ in_packets[i].mid # 0 /\ \E k \in DOMAIN unfinished : Sends(in_packets[i], unfinished[k])
    /\ \A i, j \in DOMAIN in_packets :
         i # j => in_packets[i].mid # in_packets[j].mid \/ in_packets[i].mid = 0
    /\ sock = "closed" => in_packets = <<>> /\ out_packets = <<>>

\* The reply r answers the last packet sent for the entry u; L are the listed
\* messages.
Answers(r, u, L) ==
    /\ u.mid = r.mid
    /\ r.type = "PUBACK" => u.kind.qos = 1
    /\ r.type = "PUBREC" => u.kind.qos = 2 /\ u.phase = "publish"
    /\ r.type = "PUBREC" /\ ~r.ok => u.id \notin L
    /\ r.type = "PUBCOMP" => u.phase = "pubrel" /\ u.id \notin L /\ r.ok

\* At most one packet is under way for each packet identifier, in one direction.
RepliesOK ==
    /\ \A i \in DOMAIN out_packets :
         \E k \in DOMAIN unfinished : Answers(out_packets[i], unfinished[k], Listed)
    /\ \A i, j \in DOMAIN out_packets : i # j => out_packets[i].mid # out_packets[j].mid
    /\ \A i \in DOMAIN in_packets, j \in DOMAIN out_packets :
         in_packets[i].mid # out_packets[j].mid

\* On a working connection there is such a packet for every entry.
AnsweredOK ==
    sock = "up" => \A k \in DOMAIN unfinished :
        \/ \E i \in DOMAIN in_packets : in_packets[i].mid = unfinished[k].mid
        \/ \E i \in DOMAIN out_packets : out_packets[i].mid = unfinished[k].mid

\* With the policy inactive, what the client is told is taken was taken.
LossOK ==
    PolicyInactive =>
    /\ \A k \in DOMAIN unfinished :
         unfinished[k].phase = "pubrel" => unfinished[k].id \in Settled \/ unfinished[k].id \in Listed
    /\ \A i \in DOMAIN out_packets, k \in DOMAIN unfinished :
         out_packets[i].mid = unfinished[k].mid
           => unfinished[k].id \in Settled \/ unfinished[k].id \in Listed
    /\ finished \subseteq Settled

HandshakeInv ==
    /\ TypeInv /\ ClientOK /\ RoutedOK /\ ListsOK /\ PacketsOK /\ RepliesOK
    /\ AnsweredOK /\ LossOK

-----------------------------------------------------------------------------
(* What a handled packet does to the packets under way                     *)

\* A list without its head, and with one more element.
LEMMA TailProperties ==
    ASSUME NEW S, NEW s \in Seq(S), s # <<>>
    PROVE  /\ Tail(s) \in Seq(S) /\ Len(s) \in Nat \ {0}
           /\ 1 \in DOMAIN s /\ Head(s) = s[1]
           /\ \A i \in DOMAIN Tail(s) : i + 1 \in DOMAIN s /\ i + 1 # 1 /\ Tail(s)[i] = s[i + 1]
           /\ \A i \in DOMAIN s : i # 1 =>
                \E j \in DOMAIN Tail(s) : j + 1 = i /\ Tail(s)[j] = s[i]
<1>1. /\ Tail(s) \in Seq(S) /\ Len(s) \in Nat \ {0}
      /\ 1 \in DOMAIN s /\ Head(s) = s[1] /\ DOMAIN s = 1..Len(s)
      /\ DOMAIN Tail(s) = 1..(Len(s) - 1)
      /\ \A i \in 1..(Len(s) - 1) : Tail(s)[i] = s[i + 1]
  OBVIOUS
<1>2. \A i \in DOMAIN Tail(s) : i + 1 \in DOMAIN s /\ i + 1 # 1 /\ Tail(s)[i] = s[i + 1]
  BY <1>1
<1>3. ASSUME NEW i \in DOMAIN s, i # 1
      PROVE  \E j \in DOMAIN Tail(s) : j + 1 = i /\ Tail(s)[j] = s[i]
  <2>1. i - 1 \in DOMAIN Tail(s) /\ (i - 1) + 1 = i
    BY <1>1, <1>3
  <2>2. Tail(s)[i - 1] = s[i]
    BY <1>1, <2>1
  <2> QED BY <2>1, <2>2
<1> QED BY <1>1, <1>2, <1>3

\* A list with one more element.
LEMMA AppendProperties ==
    ASSUME NEW S, NEW s \in Seq(S), NEW x \in S
    PROVE  /\ Append(s, x) \in Seq(S)
           /\ Len(Append(s, x)) = Len(s) + 1
           /\ \A i \in DOMAIN s : i \in DOMAIN Append(s, x) /\ Append(s, x)[i] = s[i]
           /\ \A i \in DOMAIN Append(s, x) :
                \/ i \in DOMAIN s /\ Append(s, x)[i] = s[i]
                \/ i = Len(s) + 1 /\ i \notin DOMAIN s /\ Append(s, x)[i] = x
           /\ Len(s) + 1 \in DOMAIN Append(s, x) /\ Append(s, x)[Len(s) + 1] = x
  OBVIOUS

\* The broker has handled the packet with this mid, replying with r if it can.
Handled(r, mid) ==
    \/ Close
    \/ /\ sock' = sock /\ in_packets' = Tail(in_packets)
       /\ \/ out_packets' = out_packets /\ (sock = "broken" \/ mid = 0)
          \/ out_packets' = Append(out_packets, r) /\ mid # 0

\* The entries other than the one with this mid have no new listed message.
OthersUnlisted(mid) ==
    \A k \in DOMAIN unfinished :
        unfinished[k].mid # mid /\ unfinished[k].id \in Listed' => unfinished[k].id \in Listed

\* The packet identifiers of the client's entries are positive.
LEMMA EntryTypes ==
    ASSUME TypeInv
    PROVE  /\ unfinished \in Seq(Unfinished)
           /\ DOMAIN unfinished = 1..Len(unfinished) /\ Len(unfinished) \in Nat
           /\ \A k \in DOMAIN unfinished :
                /\ unfinished[k] \in Unfinished
                /\ unfinished[k].mid \in 1..MaxMid /\ unfinished[k].mid # 0
                /\ unfinished[k].id \in 1..MaxMsgs
                /\ unfinished[k].kind \in InKinds /\ unfinished[k].kind.qos \in 0..2
                /\ unfinished[k].phase \in {"publish", "pubrel"}
<1>1. unfinished \in Seq(Unfinished)
  BY TypeParts
<1>2. \A k \in DOMAIN unfinished : unfinished[k] \in Unfinished
  BY <1>1
<1>3. ASSUME NEW u \in Unfinished
      PROVE  /\ u.mid \in 1..MaxMid /\ u.mid # 0 /\ u.id \in 1..MaxMsgs /\ u.kind \in InKinds
             /\ u.kind.qos \in 0..2 /\ u.phase \in {"publish", "pubrel"}
  BY KindFields DEF Unfinished
<1> QED BY <1>1, <1>2, <1>3

\* A handler that answers the packet it takes, and lists no other message, leaves
\* every entry of the client with one packet under way.
LEMMA LinkStep ==
    ASSUME TypeInv, PacketsOK, RepliesOK, AnsweredOK, in_packets # <<>>,
           UNCHANGED <<unfinished, published>>,
           NEW r \in Reply, NEW mid, mid = Head(in_packets).mid,
           Handled(r, mid), OthersUnlisted(mid),
           mid # 0 => r.mid = mid /\ \E k \in DOMAIN unfinished : Answers(r, unfinished[k], Listed')
    PROVE  PacketsOK' /\ RepliesOK' /\ AnsweredOK'
<1>1. /\ in_packets \in Seq(SoundPacket) /\ out_packets \in Seq(Reply)
      /\ \A k \in DOMAIN unfinished : unfinished[k].mid # 0
  BY EntryTypes, TypeParts, Zenon
<1>u. unfinished' = unfinished /\ published' = published
  OBVIOUS
<1>2. CASE Close
  <2>1. sock' = "closed" /\ in_packets' = <<>> /\ out_packets' = <<>>
    BY <1>2 DEF Close
  <2>2. DOMAIN in_packets' = {} /\ DOMAIN out_packets' = {}
    BY <2>1
  <2> QED BY <2>1, <2>2, Zenon DEF PacketsOK, RepliesOK, AnsweredOK
<1>3. CASE /\ sock' = sock /\ in_packets' = Tail(in_packets)
           /\ \/ out_packets' = out_packets /\ (sock = "broken" \/ mid = 0)
              \/ out_packets' = Append(out_packets, r) /\ mid # 0
  <2> DEFINE t == Tail(in_packets)
             o == out_packets'
  <2>1. /\ mid = in_packets[1].mid /\ 1 \in DOMAIN in_packets
        /\ \A i \in DOMAIN t : i + 1 \in DOMAIN in_packets /\ i + 1 # 1 /\ t[i] = in_packets[i + 1]
        /\ \A i \in DOMAIN in_packets : i # 1 => \E j \in DOMAIN t : t[j] = in_packets[i]
        /\ \A i \in DOMAIN t : i \in Int
    <3>1. t \in Seq(SoundPacket)
      BY <1>1, TailProperties, Zenon
    <3>2. \A i \in DOMAIN t : i \in Int
      BY <3>1
    <3> QED BY <1>1, <3>2, TailProperties
  <2> HIDE DEF t
  <2>2. \A i \in DOMAIN t : t[i].mid # mid \/ mid = 0
    BY <2>1, Zenon DEF PacketsOK
  <2>3. PacketsOK'
    <3>1. ASSUME NEW i \in DOMAIN t
          PROVE  \/ t[i].mid = 0 /\ Simple(t[i], published')
                 \/ t[i].mid # 0 /\ \E k \in DOMAIN unfinished' : Sends(t[i], unfinished'[k])
      <4>1. i + 1 \in DOMAIN in_packets /\ t[i] = in_packets[i + 1]
        BY <2>1, Zenon
      <4>2. \/ t[i].mid = 0 /\ Simple(t[i], published)
            \/ t[i].mid # 0 /\ \E k \in DOMAIN unfinished : Sends(t[i], unfinished[k])
        BY <4>1, Zenon DEF PacketsOK
      <4> QED BY <1>u, <4>2, Zenon
    <3>2. ASSUME NEW i \in DOMAIN t, NEW j \in DOMAIN t, i # j
          PROVE  t[i].mid # t[j].mid \/ t[i].mid = 0
      <4>1. i + 1 # j + 1
        BY <2>1, <3>2
      <4>2. /\ i + 1 \in DOMAIN in_packets /\ t[i] = in_packets[i + 1]
            /\ j + 1 \in DOMAIN in_packets /\ t[j] = in_packets[j + 1]
        BY <2>1, Zenon
      <4> QED BY <4>1, <4>2, Zenon DEF PacketsOK
    <3>3. sock' = "closed" => in_packets' = <<>> /\ out_packets' = <<>>
      BY <1>3, Zenon DEF PacketsOK
    <3>4. in_packets' = t
      BY <1>3 DEF t
    <3> QED BY <3>1, <3>2, <3>3, <3>4, Zenon DEF PacketsOK
  <2>4. ASSUME NEW i \in DOMAIN out_packets
        PROVE  /\ out_packets[i].mid # mid
               /\ \E k \in DOMAIN unfinished : Answers(out_packets[i], unfinished[k], Listed')
    <3>1. out_packets[i].mid # mid
      <4>1. in_packets[1].mid # out_packets[i].mid
        BY <2>1, Zenon DEF RepliesOK
      <4> QED BY <2>1, <4>1, Zenon
    <3>2. PICK k \in DOMAIN unfinished : Answers(out_packets[i], unfinished[k], Listed)
      BY Zenon DEF RepliesOK
    <3>3. unfinished[k].id \in Listed' => unfinished[k].id \in Listed
      BY <3>1, <3>2, Zenon DEF OthersUnlisted, Answers
    <3>4. Answers(out_packets[i], unfinished[k], Listed')
      BY <3>2, <3>3, Zenon DEF Answers
    <3> QED BY <3>1, <3>4
  <2>5. ASSUME NEW i \in DOMAIN o
        PROVE  \/ i \in DOMAIN out_packets /\ o[i] = out_packets[i]
               \/ mid # 0 /\ i \notin DOMAIN out_packets /\ i = Len(out_packets) + 1 /\ o[i] = r
    <3>1. CASE out_packets' = out_packets
      BY <3>1, Zenon
    <3>2. CASE out_packets' = Append(out_packets, r) /\ mid # 0
      BY <1>1, <3>2, AppendProperties
    <3> QED BY <1>3, <3>1, <3>2
  <2>6. ASSUME NEW i \in DOMAIN out_packets
        PROVE  i \in DOMAIN o /\ o[i] = out_packets[i]
    <3>1. CASE out_packets' = out_packets
      BY <3>1, Zenon
    <3>2. CASE out_packets' = Append(out_packets, r)
      BY <1>1, <3>2, AppendProperties
    <3> QED BY <1>3, <3>1, <3>2
  <2>7. RepliesOK'
    <3>1. \A i \in DOMAIN o : \E k \in DOMAIN unfinished' : Answers(o[i], unfinished'[k], Listed')
      BY <1>u, <2>4, <2>5, Zenon
    <3>2. ASSUME NEW i \in DOMAIN o, NEW j \in DOMAIN o, i # j
          PROVE  o[i].mid # o[j].mid
      <4>1. CASE i \in DOMAIN out_packets /\ j \in DOMAIN out_packets
        BY <2>6, <3>2, <4>1, Zenon DEF RepliesOK
      <4>2. CASE i \notin DOMAIN out_packets \/ j \notin DOMAIN out_packets
        BY <2>4, <2>5, <3>2, <4>2, Zenon
      <4> QED BY <4>1, <4>2
    <3>3. ASSUME NEW i \in DOMAIN t, NEW j \in DOMAIN o
          PROVE  t[i].mid # o[j].mid
      <4>1. CASE j \in DOMAIN out_packets
        <5>1. i + 1 \in DOMAIN in_packets /\ t[i] = in_packets[i + 1]
          BY <2>1, Zenon
        <5>2. in_packets[i + 1].mid # out_packets[j].mid
          BY <4>1, <5>1, Zenon DEF RepliesOK
        <5> QED BY <2>6, <4>1, <5>1, <5>2, Zenon
      <4>2. CASE j \notin DOMAIN out_packets
        BY <2>2, <2>5, <4>2, Zenon
      <4> QED BY <4>1, <4>2
    <3>4. in_packets' = t
      BY <1>3 DEF t
    <3> QED BY <3>1, <3>2, <3>3, <3>4, Zenon DEF RepliesOK
  <2>8. AnsweredOK'
    <3>1. SUFFICES ASSUME sock' = "up", NEW k \in DOMAIN unfinished
                   PROVE  \/ \E i \in DOMAIN t : t[i].mid = unfinished[k].mid
                          \/ \E i \in DOMAIN o : o[i].mid = unfinished[k].mid
      <4>1. in_packets' = t
        BY <1>3 DEF t
      <4> QED BY <1>u, <4>1, ZenonT(40) DEF AnsweredOK
    <3>2. sock = "up" /\ sock # "broken"
      BY <1>3, <3>1
    <3>3. \/ \E i \in DOMAIN in_packets : in_packets[i].mid = unfinished[k].mid
          \/ \E i \in DOMAIN out_packets : out_packets[i].mid = unfinished[k].mid
      BY <3>2, Zenon DEF AnsweredOK
    <3>4. CASE unfinished[k].mid = mid
      <4>1. mid # 0 /\ out_packets' = Append(out_packets, r)
        BY <1>1, <1>3, <3>2, <3>4, Zenon
      <4>2. Len(out_packets) + 1 \in DOMAIN o /\ o[Len(out_packets) + 1] = r
        BY <1>1, <4>1, AppendProperties, Zenon
      <4> QED BY <3>4, <4>1, <4>2, Zenon
    <3>5. CASE unfinished[k].mid # mid
      <4>1. CASE \E i \in DOMAIN in_packets : in_packets[i].mid = unfinished[k].mid
        <5>1. PICK i \in DOMAIN in_packets : in_packets[i].mid = unfinished[k].mid
          BY <4>1
        <5>2. i # 1
          BY <2>1, <3>5, <5>1, Zenon
        <5>3. PICK j \in DOMAIN t : t[j] = in_packets[i]
          BY <2>1, <5>2, Zenon
        <5> QED BY <5>1, <5>3, Zenon
      <4>2. CASE \E i \in DOMAIN out_packets : out_packets[i].mid = unfinished[k].mid
        BY <2>6, <4>2, Zenon
      <4> QED BY <3>3, <4>1, <4>2
    <3> QED BY <3>4, <3>5
  <2> QED BY <2>3, <2>7, <2>8
<1> QED BY <1>2, <1>3 DEF Handled

\* How a handler ends that sends one reply, or none for a packet without a mid.
LEMMA FinishHandles ==
    ASSUME TypeInv, NEW r \in Reply, NEW mid
    PROVE  /\ mid # 0 /\ Finish(<<r>>, TRUE) => Handled(r, mid)
           /\ mid = 0 /\ Finish(<<>>, FALSE) => Handled(r, mid)
<1>1. out_packets \in Seq(Reply)
  BY TypeParts, Zenon
<1>2. out_packets \o <<r>> = Append(out_packets, r) /\ out_packets \o <<>> = out_packets
  BY <1>1
<1>3. ASSUME mid # 0, Finish(<<r>>, TRUE) PROVE Handled(r, mid)
  BY <1>2, <1>3, Zenon DEF Finish, Handled
<1>4. ASSUME mid = 0, Finish(<<>>, FALSE) PROVE Handled(r, mid)
  BY <1>2, <1>4, Zenon DEF Finish, Handled
<1> QED BY <1>3, <1>4, Zenon

\* Nothing moves when there is no queue.
LEMMA DequeueNone ==
    ASSUME NEW d \in MsgData, d.queued = <<>>
    PROVE  /\ Dequeue(d, 0) \in MsgData
           /\ Dequeue(d, 0).inflight = d.inflight
           /\ Dequeue(d, 0).queued = <<>>
           /\ Dequeue(d, 0).inflight_quota = d.inflight_quota
           /\ Queued(d) = 0
<1> DEFINE infl == d.inflight \o TakeFirst(d.queued, 0)
           qd   == DropFirst(d.queued, 0)
           qu   == Spend(d.inflight_quota, 0)
           new  == Dequeue(d, 0)
<1>1. d.inflight \in Seq(Msg) /\ d.inflight_quota \in 0..InMax
  BY DataFields
<1>2. TakeFirst(<<>>, 0) = <<>> /\ DropFirst(<<>>, 0) = <<>>
  BY DEF TakeFirst, DropFirst
<1>3. infl = d.inflight
  <2>1. d.inflight \o <<>> = d.inflight
    BY <1>1
  <2> QED BY <1>2, <2>1, Zenon
<1>4. qd = <<>>
  BY <1>2, Zenon
<1>5. qu = d.inflight_quota
  BY <1>1, ConstantsAssumption DEF Spend, Greater
<1>6. new = [d EXCEPT !.inflight = infl, !.queued = qd, !.inflight_quota = qu]
  BY DEF Dequeue
<1> HIDE DEF infl, qd, qu, new
<1>7. new.inflight = infl /\ new.queued = qd /\ new.inflight_quota = qu
  BY <1>6 DEF MsgData
<1>8. Queued(d) = 0
  BY DEF Queued
<1>9. new \in MsgData
  <2>1. 0 \in 0..Queued(d)
    BY <1>8
  <2> QED BY <2>1, DequeueType, Zenon DEF new
<1> QED BY <1>3, <1>4, <1>5, <1>7, <1>8, <1>9, Zenon DEF new

\* With nothing queued db__message_write_queued_in sends no PUBREC of its own.
LEMMA NothingWritten ==
    ASSUME NEW d \in MsgData, d.queued = <<>>, NEW reply \in Seq(Reply),
           WriteQueuedIn(d, reply)
    PROVE  msgs_in' = Dequeue(d, 0) /\ Finish(reply, reply # <<>>)
<1>1. PICK n \in {WrittenIn(d)} :
        msgs_in' = Dequeue(d, n) /\ Finish(reply \o Pubrecs(d, n), reply # <<>>)
  BY DEF WriteQueuedIn
<1>2. n = 0
  <2>1. n \in 0..Queued(d) /\ Queued(d) = 0
    BY CountsInRange, DequeueNone, ZenonT(40)
  <2> QED BY <2>1
<1>3. Pubrecs(d, 0) = <<>>
  BY DEF Pubrecs
<1>4. reply \o <<>> = reply
  OBVIOUS
<1> QED BY <1>1, <1>2, <1>3, <1>4, Zenon

\* The listed messages as a list of the client's messages.
LEMMA InflTypes ==
    ASSUME TypeInv
    PROVE  /\ msgs_in \in MsgData /\ Infl \in Seq(Msg)
           /\ DOMAIN Infl = 1..Len(Infl) /\ Len(Infl) \in Nat /\ Len(Infl) = Inflight(msgs_in)
           /\ msgs_in.inflight_quota \in 0..InMax
           /\ \A i \in DOMAIN Infl : Infl[i] \in Msg /\ Infl[i].id \in 1..MaxMsgs
<1>1. msgs_in \in MsgData
  BY TypeParts
<1>2. Infl \in Seq(Msg) /\ msgs_in.inflight_quota \in 0..InMax /\ Len(Infl) = Inflight(msgs_in)
  BY <1>1, DataFields, Zenon DEF Infl, Inflight
<1>3. /\ DOMAIN Infl = 1..Len(Infl) /\ Len(Infl) \in Nat
      /\ \A i \in DOMAIN Infl : Infl[i] \in Msg
  BY <1>2
<1>4. \A m \in Msg : m.id \in 1..MaxMsgs
  BY ZenonT(40) DEF Msg
<1> QED BY <1>1, <1>2, <1>3, <1>4, Zenon

\* A listed message with the mid of the client's next PUBLISH is the same message:
\* handle__publish never clears a message of this client.
LEMMA FoundIsDup ==
    ASSUME Counting, TypeInv, ClientOK, ListsOK, NEW p \in SoundPacket, p.type = "PUBLISH",
           NEW k \in DOMAIN unfinished, Sends(p, unfinished[k])
    PROVE  /\ Cleared(p) = msgs_in
           /\ ~p.kind.denied => (IsDup(p) <=> p.id \in Listed)
           /\ p.kind.denied => p.id \notin Listed
           /\ p.id \in Listed => \E i \in DOMAIN Infl : Infl[i].id = p.id /\ Infl[i].mid = p.mid
<1> DEFINE Same == SameMid(Infl, p.mid)
<1>1. unfinished[k].mid = p.mid /\ unfinished[k].id = p.id /\ unfinished[k].kind = p.kind
  BY DEF Sends
<1>2. ASSUME NEW i \in DOMAIN Infl, Infl[i].mid = p.mid
      PROVE  Infl[i].id = p.id /\ ~p.kind.denied
  <2>1. PICK l \in DOMAIN unfinished : Belongs(Infl[i], unfinished[l])
    BY Zenon DEF ListsOK
  <2>2. unfinished[l].mid = unfinished[k].mid
    BY <1>1, <1>2, <2>1, Zenon DEF Belongs
  <2>3. l = k
    BY <2>2, Zenon DEF ClientOK
  <2> QED BY <1>1, <2>1, <2>3, Zenon DEF Belongs
<1>3. ASSUME NEW i \in DOMAIN Infl, Infl[i].id = p.id
      PROVE  Infl[i].mid = p.mid /\ ~p.kind.denied /\ p.kind.qos = 2
  <2>1. PICK l \in DOMAIN unfinished : Belongs(Infl[i], unfinished[l])
    BY Zenon DEF ListsOK
  <2>2. unfinished[l].id = unfinished[k].id
    BY <1>1, <1>3, <2>1, Zenon DEF Belongs
  <2>3. l = k
    BY <2>2, Zenon DEF ClientOK
  <2> QED BY <1>1, <2>1, <2>3, Zenon DEF Belongs
<1>4. SameMid(msgs_in.queued, p.mid) = {}
  <2>1. DOMAIN msgs_in.queued = {}
    BY DEF ListsOK
  <2> QED BY <2>1, Zenon DEF SameMid
<1>5. /\ DOMAIN Infl = 1..Len(Infl) /\ Len(Infl) \in Nat /\ Infl = msgs_in.inflight
  BY InflTypes, Zenon DEF Infl
<1>6. CASE p.kind.denied
  <2>1. Found(p) = {}
    BY <1>6 DEF Found
  <2> QED BY <1>3, <1>6, <2>1, Zenon DEF Cleared, Listed
<1>7. CASE ~p.kind.denied /\ Same = {}
  <2>1. Found(p) = {}
    BY <1>4, <1>5, <1>7, Zenon DEF Found, db__message_store_find
  <2>2. p.id \notin Listed
    BY <1>3, <1>7, Zenon DEF Listed, SameMid
  <2> QED BY <1>7, <2>1, <2>2, Zenon DEF Cleared, IsDup
<1>8. CASE ~p.kind.denied /\ Same # {}
  <2>1. FirstOf(Same) \in Same
    BY <1>5, <1>8, FirstOfType, Zenon DEF SameMid
  <2>2. /\ FirstOf(Same) \in DOMAIN Infl
        /\ Infl[FirstOf(Same)].id = p.id /\ Infl[FirstOf(Same)].mid = p.mid
    BY <1>2, <2>1, Zenon DEF SameMid
  <2>3. p.kind.qos # 0
    BY <1>3, <2>2
  <2>4. Found(p) = {Infl[FirstOf(Same)]}
    BY <1>5, <1>8, <2>3, Zenon DEF Found, db__message_store_find
  <2>5. IsDup(p)
    BY <2>2, <2>4, Zenon DEF IsDup
  <2>6. p.id \in Listed
    BY <2>2, Zenon DEF Listed
  <2> QED BY <1>8, <2>2, <2>5, <2>6, Zenon DEF Cleared
<1> QED BY <1>6, <1>7, <1>8

\* A new QoS 2 message of a client that keeps to the receive maximum finds quota:
\* the listed messages belong to other entries of the client.
LEMMA RoomForNew ==
    ASSUME Counting, KeepsReceiveMaximum, TypeInv, ClientOK, ListsOK,
           NEW k \in DOMAIN unfinished, unfinished[k].id \notin Listed
    PROVE  db__ready_for_flight(msgs_in)
<1> DEFINE N == Len(Infl)
           U == Len(unfinished)
           Rest == (1..U) \ {k}
           f == [i \in 1..N |-> CHOOSE l \in DOMAIN unfinished : Belongs(Infl[i], unfinished[l])]
<1>1. /\ DOMAIN Infl = 1..N /\ N \in Nat /\ N = Inflight(msgs_in)
      /\ msgs_in.inflight_quota \in 0..InMax
  BY InflTypes, Zenon
<1>2. DOMAIN unfinished = 1..U /\ U \in Nat /\ U <= Window
  BY EntryTypes, Zenon DEF ClientOK
<1>3. ASSUME NEW i \in 1..N
      PROVE  f[i] \in DOMAIN unfinished /\ Belongs(Infl[i], unfinished[f[i]])
  <2>1. \E l \in DOMAIN unfinished : Belongs(Infl[i], unfinished[l])
    BY <1>1, Zenon DEF ListsOK
  <2> QED BY <2>1, Zenon
<1>4. f \in [1..N -> Rest]
  <2>1. ASSUME NEW i \in 1..N PROVE f[i] \in Rest
    <3>1. Infl[i].id \in Listed
      <4>1. i \in DOMAIN Infl
        BY <1>1, Zenon
      <4> QED BY <4>1, Zenon DEF Listed
    <3> HIDE DEF f
    <3>2. f[i] # k
      BY <1>3, <3>1, Zenon DEF Belongs
    <3> QED BY <1>2, <1>3, <3>2, Zenon
  <2> QED BY <2>1, Zenon
<1>5. ASSUME NEW i \in 1..N, NEW j \in 1..N, f[i] = f[j] PROVE i = j
  <2> HIDE DEF f
  <2>1. Infl[i].id = Infl[j].id
    BY <1>3, <1>5, Zenon DEF Belongs
  <2> QED BY <1>1, <2>1, Zenon DEF ListsOK
<1> HIDE DEF f
<1>6. OneToOne(f, 1..N)
  BY <1>5, Zenon DEF OneToOne
<1>7. IsFiniteSet(1..N) /\ Cardinality(1..N) = N /\ IsFiniteSet(1..U) /\ Cardinality(1..U) = U
  <2> HIDE DEF N, U, f
  <2>1. IsFiniteSet(1..N) /\ Cardinality(1..N) = N
    BY <1>1, FiniteInterval
  <2>2. IsFiniteSet(1..U) /\ Cardinality(1..U) = U
    BY <1>2, FiniteInterval
  <2> QED BY <2>1, <2>2
<1>8. k \in 1..U
  BY <1>2, Zenon
<1>9. IsFiniteSet(Rest) /\ Cardinality(Rest) = U - 1
  BY <1>7, <1>8, FiniteRemove, Zenon
<1>10. N <= U - 1
  <2> HIDE DEF N, U, Rest
  <2>1. Cardinality(1..N) <= Cardinality(Rest)
    BY <1>4, <1>6, <1>9, FiniteInjection, Zenon
  <2> QED BY <1>7, <1>9, <2>1, Zenon
<1>11. InMax <= msgs_in.inflight_quota + N
  BY <1>1, Zenon DEF ListsOK
<1> HIDE DEF N, U
<1>12. InMax = 0 \/ msgs_in.inflight_quota > 0
  BY <1>1, <1>2, <1>10, <1>11, ConstantsAssumption, SMTT(30) DEF KeepsReceiveMaximum
<1> QED BY <1>12 DEF db__ready_for_flight

\* What handle__publish does to the lists with the packet p and the reply r.
ListsAfterPublish(p) ==
    \/ /\ Infl' = Infl
       /\ msgs_in'.inflight_quota >= msgs_in.inflight_quota
    \/ /\ Infl' = Append(Infl, [id |-> p.id, mid |-> p.mid])
       /\ msgs_in'.inflight_quota >= msgs_in.inflight_quota
       /\ p.id \notin Listed /\ p.kind.qos = 2 /\ ~p.kind.denied
RoutedAfterPublish(p) ==
    \/ UNCHANGED routed
    \/ p.kind.qos # 2 /\ routed' = [routed EXCEPT ![p.id] = Lesser(routed[p.id] + 1, 2)]
ReplyToPublish(r, p) ==
    p.kind.qos > 0 =>
      /\ r.mid = p.mid
      /\ r.type = IF p.kind.qos = 1 THEN "PUBACK" ELSE "PUBREC"
      /\ ~r.ok => p.id \notin Listed /\ Infl' = Infl
      /\ PolicyInactive => p.id \in Settled' \/ p.id \in Listed'

\* handle__publish puts the packet's message inflight, hands it on, recognises it or
\* refuses it, and answers it.
LEMMA PublishEffect ==
    ASSUME Counting, KeepsReceiveMaximum, TypeInv, ClientOK, ListsOK, PacketsOK,
           NEW slow \in Modes, HandlePublish(slow),
           NEW p, p = Head(in_packets)
    PROVE  /\ in_packets # <<>> /\ p \in SoundPacket /\ p.type = "PUBLISH"
           /\ p.kind.qos > 0 <=> p.mid # 0
           /\ UNCHANGED <<unfinished, finished, published>>
           /\ msgs_in'.queued = <<>>
           /\ ListsAfterPublish(p)
           /\ RoutedAfterPublish(p)
           /\ rejected \subseteq rejected'
           /\ \E r \in Reply : Handled(r, p.mid) /\ ReplyToPublish(r, p)
<1> DEFINE d == Cleared(p)
<1>1. /\ in_packets # <<>> /\ p.type = "PUBLISH"
      /\ UNCHANGED <<unfinished, finished, published>>
      /\ \/ Acceptable(p) /\ Accept(d, p, IsDup(p), slow) /\ UNCHANGED rejected
         \/ ~Acceptable(p) /\ process_bad_message(d, p)
  BY HandlePublishCases, Zenon
<1>2. p \in SoundPacket /\ 1 \in DOMAIN in_packets /\ p = in_packets[1]
  BY <1>1, TypeParts, TailProperties
<1>3. /\ p.id \in 1..MaxMsgs /\ p.kind \in InKinds /\ p.kind.qos \in 0..2
      /\ p.kind.denied \in BOOLEAN /\ (p.kind.qos > 0 => p.mid \in 1..MaxMid)
  BY <1>1, <1>2, PacketFields
<1>4. \/ p.mid = 0 /\ Simple(p, published)
      \/ p.mid # 0 /\ \E k \in DOMAIN unfinished : Sends(p, unfinished[k])
  BY <1>2, Zenon DEF PacketsOK
<1>5. p.kind.qos > 0 <=> p.mid # 0
  <2>1. CASE p.mid = 0 /\ Simple(p, published)
    BY <1>3, <2>1 DEF Simple
  <2>2. CASE p.mid # 0 /\ \E k \in DOMAIN unfinished : Sends(p, unfinished[k])
    BY <1>1, <2>2, Zenon DEF Sends, ClientOK
  <2> QED BY <1>4, <2>1, <2>2
<1>6. msgs_in \in MsgData /\ msgs_in.queued = <<>> /\ msgs_in.inflight = Infl
  BY InflTypes, Zenon DEF ListsOK, Infl
<1>7. d = msgs_in
  <2>1. CASE p.kind.qos = 0
    BY <2>1 DEF Found, Cleared
  <2>2. CASE p.kind.qos # 0
    <3>1. p.kind.qos > 0
      BY <1>3, <2>2
    <3>2. PICK k \in DOMAIN unfinished : Sends(p, unfinished[k])
      BY <1>4, <1>5, <3>1, Zenon
    <3> QED BY <1>1, <1>2, <3>2, FoundIsDup, Zenon
  <2> QED BY <2>1, <2>2
<1>8. ASSUME NEW e \in MsgData, e.queued = <<>>, NEW reply \in Seq(Reply), WriteQueuedIn(e, reply)
      PROVE  /\ Infl' = e.inflight /\ msgs_in'.queued = <<>>
             /\ msgs_in'.inflight_quota = e.inflight_quota
             /\ Finish(reply, reply # <<>>)
  BY <1>8, NothingWritten, DequeueNone, Zenon DEF Infl
<1>d. d \in MsgData /\ d.queued = <<>> /\ d.inflight = Infl
        /\ d.inflight_quota = msgs_in.inflight_quota
  BY <1>6, <1>7, Zenon
<1>q. d.inflight_quota >= d.inflight_quota /\ msgs_in.inflight_quota >= msgs_in.inflight_quota
  <2>1. d.inflight_quota \in 0..InMax /\ msgs_in.inflight_quota \in 0..InMax
    BY <1>6, <1>d, DataFields
  <2> QED BY <2>1, ConstantsAssumption
<1>9. ASSUME NEW r \in Reply PROVE <<r>> \in Seq(Reply) /\ (<<r>> # <<>>) = TRUE
  OBVIOUS
<1>r. Route(<<p>>, {1}) => routed' = [routed EXCEPT ![p.id] = Lesser(routed[p.id] + 1, 2)]
  <2> SUFFICES ASSUME Route(<<p>>, {1})
               PROVE  routed' = [routed EXCEPT ![p.id] = Lesser(routed[p.id] + 1, 2)]
    OBVIOUS
  <2> DEFINE times(i) == Cardinality({j \in {1} : <<p>>[j].id = i})
  <2>1. routed \in [1..MaxMsgs -> 0..2]
    BY TypeParts, Zenon
  <2>2. routed' = [i \in 1..MaxMsgs |-> Lesser(routed[i] + times(i), 2)]
    BY <2>1 DEF Route
  <2>3. times(p.id) = 1
    <3>1. {j \in {1} : <<p>>[j].id = p.id} = {1}
      OBVIOUS
    <3> QED BY <3>1, FiniteSingleton, Zenon
  <2>4. ASSUME NEW i, i # p.id PROVE times(i) = 0
    <3>1. {j \in {1} : <<p>>[j].id = i} = {}
      BY <2>4
    <3> QED BY <3>1, FiniteEmpty, Zenon
  <2> HIDE DEF times
  <2>5. ASSUME NEW i \in 1..MaxMsgs, i # p.id PROVE Lesser(routed[i] + times(i), 2) = routed[i]
    BY <2>1, <2>4, <2>5 DEF Lesser
  <2> QED BY <1>3, <2>1, <2>2, <2>3, <2>5, Zenon
<1> HIDE DEF d
<1>10. CASE Acceptable(p) /\ Accept(d, p, IsDup(p), slow) /\ UNCHANGED rejected
  <2> DEFINE m      == [id |-> p.id, mid |-> p.mid]
             place  == Place(d, p.kind, slow)
             puback == [type |-> "PUBACK", mid |-> p.mid, ok |-> TRUE]
             quota  == Refund(Spend(d.inflight_quota, 1))
             routes == [routed EXCEPT ![p.id] = Lesser(routed[p.id] + 1, 2)]
  <2>a. ~p.kind.denied /\ rejected' = rejected
    BY <1>10 DEF Acceptable
  <2>b. ASSUME p.kind.qos = 2
        PROVE  /\ p.mid # 0 /\ p.mid \in 1..MaxMid /\ m \in Msg /\ Pubrec(m) \in Reply
               /\ Pubrec(m).mid = p.mid /\ Pubrec(m).type = "PUBREC" /\ Pubrec(m).ok
               /\ \E k \in DOMAIN unfinished : Sends(p, unfinished[k])
    <3>1. p.mid # 0 /\ p.mid \in 1..MaxMid
      BY <1>3, <1>5, <2>b
    <3>2. m \in Msg
      BY <1>3, <3>1, Zenon DEF Msg
    <3>3. Pubrec(m).mid = p.mid /\ Pubrec(m).type = "PUBREC" /\ Pubrec(m).ok
      BY DEF Pubrec
    <3>4. Pubrec(m) \in Reply
      BY <3>1, Zenon DEF Reply, Pubrec
    <3> QED BY <1>4, <3>1, <3>2, <3>3, <3>4, Zenon
  <2>1. CASE p.kind.qos = 0 /\ Route(<<p>>, {1}) /\ WriteQueuedIn(d, <<>>)
    <3> DEFINE r == [type |-> "PUBACK", mid |-> 1, ok |-> TRUE]
    <3>1. r \in Reply
      BY ConstantsAssumption DEF Reply
    <3> HIDE DEF r
    <3>2. <<>> \in Seq(Reply) /\ (<<>> # <<>>) = FALSE
      OBVIOUS
    <3>3. /\ Infl' = Infl /\ msgs_in'.queued = <<>>
          /\ msgs_in'.inflight_quota = msgs_in.inflight_quota
          /\ Finish(<<>>, FALSE)
      BY <1>6, <1>7, <1>8, <2>1, <3>2, Zenon
    <3>4. p.mid = 0 /\ ~(p.kind.qos > 0) /\ p.kind.qos # 2
      BY <1>5, <2>1
    <3>5. Handled(r, p.mid) /\ ReplyToPublish(r, p)
      BY <3>1, <3>3, <3>4, FinishHandles, Zenon DEF ReplyToPublish
    <3>6. ListsAfterPublish(p)
      BY <1>q, <3>3, Zenon DEF ListsAfterPublish
    <3>7. RoutedAfterPublish(p)
      BY <1>r, <2>1, <3>4, Zenon DEF RoutedAfterPublish
    <3> QED BY <1>1, <1>2, <1>5, <2>a, <3>1, <3>3, <3>5, <3>6, <3>7
  <2>2. CASE /\ p.kind.qos = 1 /\ Route(<<p>>, {1})
             /\ WriteQueuedIn([d EXCEPT !.inflight_quota = quota], <<puback>>)
    <3> DEFINE e == [d EXCEPT !.inflight_quota = quota]
    <3>1. p.kind.qos > 0 /\ p.mid # 0 /\ p.mid \in 1..MaxMid /\ p.kind.qos # 2
      BY <1>3, <1>5, <2>2
    <3>2. puback \in Reply /\ puback.mid = p.mid /\ puback.type = "PUBACK" /\ puback.ok
      BY <3>1, Zenon DEF Reply
    <3>3. quota \in 0..InMax /\ quota >= msgs_in.inflight_quota
      BY <1>6, <1>7, DataFields, QuotaType, ConstantsAssumption, Zenon
    <3>4. e \in MsgData /\ e.queued = <<>> /\ e.inflight = Infl /\ e.inflight_quota = quota
      <4> HIDE DEF quota
      <4> QED BY <1>d, <3>3, QuotaChange, Zenon
    <3>5. WriteQueuedIn(e, <<puback>>)
      BY <2>2
    <3> HIDE DEF e, puback, quota
    <3>6. /\ Infl' = Infl /\ msgs_in'.queued = <<>> /\ msgs_in'.inflight_quota = quota
          /\ Finish(<<puback>>, TRUE)
      BY <1>8, <1>9, <3>2, <3>4, <3>5, Zenon
    <3>7. routed' = routes /\ routes[p.id] > 0
      <4>1. routed \in [1..MaxMsgs -> 0..2]
        BY TypeParts, Zenon
      <4>2. routed[p.id] \in 0..2
        BY <1>3, <4>1
      <4>3. Lesser(routed[p.id] + 1, 2) > 0
        BY <4>2 DEF Lesser
      <4>4. routes[p.id] = Lesser(routed[p.id] + 1, 2)
        BY <1>3, <4>1, Zenon
      <4> QED BY <1>r, <2>2, <4>3, <4>4
    <3>8. Handled(puback, p.mid)
      BY <3>1, <3>2, <3>6, FinishHandles, Zenon
    <3>9. ReplyToPublish(puback, p)
      BY <1>3, <2>2, <3>2, <3>7 DEF ReplyToPublish, Settled
    <3>10. ListsAfterPublish(p)
      BY <3>3, <3>6 DEF ListsAfterPublish
    <3>11. RoutedAfterPublish(p)
      BY <3>1, <3>7, Zenon DEF RoutedAfterPublish
    <3> QED BY <1>1, <1>2, <1>5, <2>a, <3>2, <3>6, <3>8, <3>9, <3>10, <3>11
  <2>3. CASE /\ p.kind.qos = 2 /\ ~IsDup(p) /\ UNCHANGED routed
             /\ WriteQueuedIn(db__message_insert(d, m, place),
                              IF place \in {"inflight", "storage"} THEN <<Pubrec(m)>> ELSE <<>>)
    <3> DEFINE e == db__message_insert(d, m, place)
               r == Pubrec(m)
    <3>1. PICK k \in DOMAIN unfinished : Sends(p, unfinished[k])
      BY <2>3, <2>b, Zenon
    <3>2. p.id \notin Listed
      BY <1>1, <1>2, <2>a, <2>3, <3>1, FoundIsDup, Zenon
    <3>3. unfinished[k].id \notin Listed
      BY <1>1, <3>1, <3>2, Zenon DEF Sends
    <3>4. db__ready_for_flight(d)
      BY <1>7, <3>3, RoomForNew, Zenon
    <3>5. place \in {"inflight", "storage"} /\ (PolicyInactive => place = "inflight")
      BY <1>3, <3>4, Zenon DEF Place, PolicyInactive, Modes
    <3>6. WriteQueuedIn(e, <<r>>)
      BY <2>3, <3>5, Zenon
    <3>7. /\ m \in Msg /\ r \in Reply /\ r.mid = p.mid /\ r.type = "PUBREC" /\ r.ok /\ p.mid # 0
      BY <2>3, <2>b, Zenon
    <3>m. m.id = p.id
      OBVIOUS
    <3> HIDE DEF m, r, place
    <3>8. /\ e \in MsgData /\ e.queued = <<>> /\ e.inflight_quota = msgs_in.inflight_quota
          /\ e.inflight = IF place = "inflight" THEN Append(Infl, m) ELSE Infl
      <4>1. place \in {"inflight", "queued", "storage", "dropped"} /\ place # "queued"
        BY <3>5
      <4> QED BY <1>d, <3>7, <4>1, InsertType, Zenon
    <3> HIDE DEF e
    <3>9. /\ Infl' = e.inflight /\ msgs_in'.queued = <<>>
          /\ msgs_in'.inflight_quota = msgs_in.inflight_quota
          /\ Finish(<<r>>, TRUE)
      BY <1>8, <1>9, <3>6, <3>7, <3>8, Zenon
    <3>10. Handled(r, p.mid)
      BY <3>7, <3>9, FinishHandles, Zenon
    <3>11. msgs_in'.inflight_quota >= msgs_in.inflight_quota
      BY <3>9, InflTypes, ConstantsAssumption, SMTT(30)
    <3>12. ListsAfterPublish(p)
      BY <2>a, <2>3, <3>2, <3>8, <3>9, <3>11, ZenonT(40) DEF ListsAfterPublish, m
    <3>13. place = "inflight" => p.id \in Listed'
      <4> SUFFICES ASSUME place = "inflight" PROVE p.id \in Listed'
        OBVIOUS
      <4>1. Infl' = Append(Infl, m)
        BY <3>8, <3>9, Zenon
      <4>2. Infl \in Seq(Msg)
        BY InflTypes, Zenon
      <4>3. Len(Infl) + 1 \in DOMAIN Infl' /\ Infl'[Len(Infl) + 1] = m
        BY <3>7, <4>1, <4>2, AppendProperties, ZenonT(40)
      <4> QED BY <3>m, <4>3, Zenon DEF Listed
    <3>14. ReplyToPublish(r, p)
      BY <2>3, <3>5, <3>7, <3>13, SMTT(30) DEF ReplyToPublish
    <3>15. RoutedAfterPublish(p)
      BY <2>3, ZenonT(40) DEF RoutedAfterPublish
    <3> QED BY <1>1, <1>2, <1>5, <2>a, <3>7, <3>9, <3>10, <3>12, <3>14, <3>15, ZenonT(40)
  <2>4. CASE /\ p.kind.qos = 2 /\ IsDup(p) /\ UNCHANGED routed
             /\ WriteQueuedIn(d, <<Pubrec(m)>>)
    <3> DEFINE r == Pubrec(m)
    <3>1. PICK k \in DOMAIN unfinished : Sends(p, unfinished[k])
      BY <2>4, <2>b, Zenon
    <3>2. p.id \in Listed
      BY <1>1, <1>2, <2>a, <2>4, <3>1, FoundIsDup, Zenon
    <3>3. r \in Reply /\ r.mid = p.mid /\ r.type = "PUBREC" /\ r.ok /\ p.mid # 0
      BY <2>4, <2>b, ZenonT(40)
    <3>4. WriteQueuedIn(d, <<r>>)
      BY <2>4
    <3> HIDE DEF r, m
    <3>5. /\ Infl' = Infl /\ msgs_in'.queued = <<>>
          /\ msgs_in'.inflight_quota = msgs_in.inflight_quota
          /\ Finish(<<r>>, TRUE)
      BY <1>6, <1>7, <1>8, <1>9, <3>3, <3>4, Zenon
    <3>6. Handled(r, p.mid)
      BY <3>3, <3>5, FinishHandles, Zenon
    <3>7. ListsAfterPublish(p)
      BY <1>q, <3>5, Zenon DEF ListsAfterPublish
    <3>8. p.id \in Listed'
      BY <3>2, <3>5, Zenon DEF Listed
    <3>9. ReplyToPublish(r, p)
      BY <2>4, <3>3, <3>8, SMTT(30) DEF ReplyToPublish
    <3>10. RoutedAfterPublish(p)
      BY <2>4, ZenonT(40) DEF RoutedAfterPublish
    <3> QED BY <1>1, <1>2, <1>5, <2>a, <3>3, <3>5, <3>6, <3>7, <3>9, <3>10, Zenon
  <2> QED BY <1>10, <2>1, <2>2, <2>3, <2>4, Zenon DEF Accept
<1>11. CASE ~Acceptable(p) /\ process_bad_message(d, p)
  <2> DEFINE gives == p.kind.qos = 1 \/ (p.kind.qos = 2 /\ Mqtt5)
             reply == [type |-> IF p.kind.qos = 1 THEN "PUBACK" ELSE "PUBREC",
                       mid |-> p.mid, ok |-> ~Mqtt5]
             replies == IF p.kind.qos = 0 THEN <<>> ELSE <<reply>>
  <2>1. /\ msgs_in' = IF gives THEN [d EXCEPT !.inflight_quota = Refund(d.inflight_quota)]
                      ELSE d
        /\ rejected' = rejected \cup {p.id}
        /\ Finish(replies, p.kind.qos > 0)
        /\ UNCHANGED routed
    BY <1>11 DEF process_bad_message
  <2>2. /\ Infl' = Infl /\ msgs_in'.queued = <<>>
        /\ msgs_in'.inflight_quota >= msgs_in.inflight_quota
    <3>1. Refund(d.inflight_quota) \in 0..InMax /\ Refund(d.inflight_quota) >= d.inflight_quota
      BY <1>6, <1>7, DataFields, QuotaType, ConstantsAssumption, Zenon
    <3>2. d.inflight_quota >= d.inflight_quota
      BY <1>6, <1>7, DataFields, ConstantsAssumption
    <3>3. CASE gives
      <4> DEFINE q == Refund(d.inflight_quota)
      <4>1. msgs_in' = [d EXCEPT !.inflight_quota = q]
        BY <2>1, <3>3
      <4> HIDE DEF q
      <4>2. msgs_in'.inflight = d.inflight /\ msgs_in'.queued = d.queued
              /\ msgs_in'.inflight_quota = q
        BY <1>d, <3>1, <4>1, QuotaChange, Zenon DEF q
      <4> QED BY <1>d, <3>1, <4>2, Zenon DEF Infl, q
    <3>4. CASE ~gives
      BY <1>d, <2>1, <3>2, <3>4, Zenon DEF Infl
    <3> QED BY <3>3, <3>4
  <2>3. ListsAfterPublish(p) /\ RoutedAfterPublish(p)
    BY <2>1, <2>2 DEF ListsAfterPublish, RoutedAfterPublish
  <2>4. CASE p.kind.qos = 0
    <3> DEFINE r == [type |-> "PUBACK", mid |-> 1, ok |-> TRUE]
    <3>1. r \in Reply
      BY ConstantsAssumption DEF Reply
    <3> HIDE DEF r
    <3>2. p.mid = 0 /\ ~(p.kind.qos > 0) /\ (p.kind.qos > 0) = FALSE
      BY <1>5, <2>4
    <3>3. Finish(<<>>, FALSE)
      BY <2>1, <2>4, <3>2, Zenon
    <3>4. Handled(r, p.mid) /\ ReplyToPublish(r, p)
      BY <3>1, <3>2, <3>3, FinishHandles, Zenon DEF ReplyToPublish
    <3> QED BY <1>1, <1>2, <1>5, <2>1, <2>2, <2>3, <3>1, <3>4, ZenonT(40)
  <2>5. CASE p.kind.qos # 0
    <3>1. p.kind.qos > 0 /\ (p.kind.qos > 0) = TRUE /\ p.mid # 0 /\ p.mid \in 1..MaxMid
      BY <1>3, <1>5, <2>5
    <3>2. /\ reply \in Reply /\ reply.mid = p.mid
          /\ reply.type = IF p.kind.qos = 1 THEN "PUBACK" ELSE "PUBREC"
      BY <3>1, ConstantsAssumption, Zenon DEF Reply
    <3>3. Finish(<<reply>>, TRUE)
      BY <2>1, <2>5, <3>1, Zenon
    <3> HIDE DEF reply
    <3>4. Handled(reply, p.mid)
      BY <3>1, <3>2, <3>3, FinishHandles, Zenon
    <3>5. PICK k \in DOMAIN unfinished : Sends(p, unfinished[k])
      BY <1>4, <3>1, Zenon
    <3>6. p.id \notin Listed
      BY <1>1, <1>2, <1>3, <1>11, <3>5, FoundIsDup, Zenon DEF Acceptable
    <3>7. p.id \in rejected'
      BY <2>1
    <3>8. ReplyToPublish(reply, p)
      BY <1>3, <2>2, <3>2, <3>6, <3>7, Zenon DEF ReplyToPublish, Settled
    <3> QED BY <1>1, <1>2, <1>5, <2>1, <2>2, <2>3, <3>2, <3>4, <3>8, ZenonT(40)
  <2> QED BY <2>4, <2>5
<1> QED BY <1>1, <1>10, <1>11

\* What a handler must keep so that no acknowledged message is lost.
LEMMA LossStep ==
    ASSUME TypeInv, LossOK, UNCHANGED <<unfinished, finished>>,
           NEW r \in Reply, NEW mid, Handled(r, mid),
           Settled \subseteq Settled',
           PolicyInactive =>
             /\ \A k \in DOMAIN unfinished :
                  unfinished[k].id \in Listed =>
                    unfinished[k].id \in Settled' \/ unfinished[k].id \in Listed'
             /\ mid # 0 => r.mid = mid /\
                  \A k \in DOMAIN unfinished : unfinished[k].mid = mid =>
                    unfinished[k].id \in Settled' \/ unfinished[k].id \in Listed'
    PROVE  LossOK'
<1> SUFFICES ASSUME PolicyInactive PROVE LossOK'
  BY DEF LossOK, PolicyInactive
<1>u. unfinished' = unfinished /\ finished' = finished
  OBVIOUS
<1>1. /\ \A k \in DOMAIN unfinished :
           unfinished[k].phase = "pubrel" => unfinished[k].id \in Settled \/ unfinished[k].id \in Listed
      /\ \A i \in DOMAIN out_packets, k \in DOMAIN unfinished :
           out_packets[i].mid = unfinished[k].mid
             => unfinished[k].id \in Settled \/ unfinished[k].id \in Listed
      /\ finished \subseteq Settled
  BY Zenon DEF LossOK
<1>2. ASSUME NEW k \in DOMAIN unfinished, unfinished[k].id \in Settled \/ unfinished[k].id \in Listed
      PROVE  unfinished[k].id \in Settled' \/ unfinished[k].id \in Listed'
  BY <1>2, Zenon
<1>3. ASSUME NEW i \in DOMAIN out_packets', NEW k \in DOMAIN unfinished,
             out_packets'[i].mid = unfinished[k].mid
      PROVE  unfinished[k].id \in Settled' \/ unfinished[k].id \in Listed'
  <2>1. CASE Close
    <3>1. DOMAIN out_packets' = {}
      BY <2>1 DEF Close
    <3> QED BY <3>1
  <2>2. CASE out_packets' = out_packets
    BY <1>1, <1>2, <1>3, <2>2, Zenon
  <2>3. CASE out_packets' = Append(out_packets, r) /\ mid # 0
    <3>1. out_packets \in Seq(Reply)
      BY TypeParts, Zenon
    <3>2. \/ i \in DOMAIN out_packets /\ out_packets'[i] = out_packets[i]
          \/ out_packets'[i] = r
      BY <2>3, <3>1, AppendProperties
    <3>3. CASE i \in DOMAIN out_packets /\ out_packets'[i] = out_packets[i]
      BY <1>1, <1>2, <1>3, <3>3, Zenon
    <3>4. CASE out_packets'[i] = r
      BY <1>3, <2>3, <3>4, Zenon
    <3> QED BY <3>2, <3>3, <3>4
  <2> QED BY <2>1, <2>2, <2>3, Zenon DEF Handled
<1>4. finished \subseteq Settled'
  BY <1>1, Zenon
<1> QED BY <1>u, <1>1, <1>2, <1>3, <1>4, ZenonT(40) DEF LossOK

\* The messages published are among the ones the run has identifiers for.
LEMMA PublishedIds ==
    ASSUME TypeInv, ClientOK
    PROVE  /\ published \in Seq(InKinds) /\ DOMAIN published = 1..Len(published)
           /\ \A i \in DOMAIN published : i \in 1..MaxMsgs
<1>1. published \in Seq(InKinds)
  BY TypeParts
<1>2. Len(published) <= MaxMsgs
  BY ZenonT(40) DEF ClientOK
<1> QED BY <1>1, <1>2, ConstantsAssumption

\* The entry of the packet at the head, and what its kind is.
LEMMA HeadEntry ==
    ASSUME TypeInv, ClientOK, PacketsOK, in_packets # <<>>, NEW p, p = Head(in_packets),
           p.type = "PUBLISH"
    PROVE  /\ p.id \in DOMAIN published /\ published[p.id] = p.kind
           /\ p.mid # 0 => \E k \in DOMAIN unfinished : Sends(p, unfinished[k])
<1>1. 1 \in DOMAIN in_packets /\ p = in_packets[1]
  BY TypeParts, TailProperties
<1>2. \/ p.mid = 0 /\ Simple(p, published)
      \/ p.mid # 0 /\ \E k \in DOMAIN unfinished : Sends(p, unfinished[k])
  BY <1>1, Zenon DEF PacketsOK
<1>3. CASE p.mid = 0 /\ Simple(p, published)
  BY <1>3 DEF Simple
<1>4. CASE p.mid # 0 /\ \E k \in DOMAIN unfinished : Sends(p, unfinished[k])
  BY <1>4, Zenon DEF Sends, ClientOK
<1> QED BY <1>2, <1>3, <1>4, ZenonT(40)

\* handle__publish keeps the handshakes going.
LEMMA PublishStep ==
    ASSUME Counting, KeepsReceiveMaximum, HandshakeInv, NEW slow \in Modes, HandlePublish(slow)
    PROVE  HandshakeInv'
<1>1. PICK p : p = Head(in_packets)
  BY ZenonT(40)
<1>2. /\ in_packets # <<>> /\ p \in SoundPacket /\ p.type = "PUBLISH"
      /\ p.kind.qos > 0 <=> p.mid # 0
      /\ unfinished' = unfinished /\ finished' = finished /\ published' = published
      /\ msgs_in'.queued = <<>>
      /\ ListsAfterPublish(p)
      /\ RoutedAfterPublish(p)
      /\ rejected \subseteq rejected'
      /\ \E r \in Reply : Handled(r, p.mid) /\ ReplyToPublish(r, p)
  BY <1>1, PublishEffect DEF HandshakeInv
<1>3. PICK r \in Reply : Handled(r, p.mid) /\ ReplyToPublish(r, p)
  BY <1>2
<1>4. /\ TypeInv /\ ClientOK /\ RoutedOK /\ ListsOK /\ PacketsOK /\ RepliesOK /\ AnsweredOK
      /\ LossOK
  BY DEF HandshakeInv
<1>5. TypeInv'
  BY <1>4, HandlePublishType, Zenon
<1>6. /\ p.id \in DOMAIN published /\ published[p.id] = p.kind
      /\ p.mid # 0 => \E k \in DOMAIN unfinished : Sends(p, unfinished[k])
      /\ p.id \in 1..MaxMsgs /\ p.kind.qos \in 0..2
  BY <1>1, <1>2, <1>4, HeadEntry, PacketFields, Zenon
<1>7. ClientOK'
  BY <1>2, <1>4, ZenonT(40) DEF ClientOK
<1>8. /\ Infl \in Seq(Msg) /\ routed \in [1..MaxMsgs -> 0..2]
      /\ \A i \in DOMAIN Infl : Infl[i].id \in 1..MaxMsgs
  BY <1>4, InflTypes, TypeParts, Zenon
<1>9. /\ \A i \in 1..MaxMsgs : i # p.id \/ p.kind.qos = 2 => routed'[i] = routed[i]
      /\ \A i \in 1..MaxMsgs : routed[i] > 0 => routed'[i] > 0
  <2>1. CASE UNCHANGED routed
    BY <2>1, Zenon
  <2>2. CASE p.kind.qos # 2 /\ routed' = [routed EXCEPT ![p.id] = Lesser(routed[p.id] + 1, 2)]
    <3>1. \A i \in 1..MaxMsgs : i # p.id => routed'[i] = routed[i]
      BY <1>8, <2>2, Zenon
    <3>2. routed'[p.id] = Lesser(routed[p.id] + 1, 2) /\ routed[p.id] \in 0..2
      BY <1>6, <1>8, <2>2
    <3>3. routed'[p.id] > 0
      BY <3>2 DEF Lesser
    <3> QED BY <2>2, <3>1, <3>3, Zenon
  <2> QED BY <1>2, <2>1, <2>2, Zenon DEF RoutedAfterPublish
<1>10. Settled \subseteq Settled'
  BY <1>2, <1>9, Zenon DEF Settled
<1>11. /\ Listed \subseteq Listed'
       /\ \A x \in Listed' : x \in Listed \/ (x = p.id /\ p.kind.qos = 2 /\ ~p.kind.denied)
       /\ Infl' = Infl => Listed' = Listed
  <2>1. CASE Infl' = Infl
    BY <2>1, Zenon DEF Listed
  <2>2. CASE Infl' = Append(Infl, [id |-> p.id, mid |-> p.mid])
             /\ p.kind.qos = 2 /\ ~p.kind.denied /\ p.id \notin Listed
    <3> DEFINE m == [id |-> p.id, mid |-> p.mid]
    <3>1. m.id = p.id /\ m \in Msg
      <4>1. p.mid \in 1..MaxMid
        BY <1>2, <2>2, AnsweredQos, Zenon
      <4> QED BY <1>6, <4>1, Zenon DEF Msg
    <3>2. Infl' = Append(Infl, m)
      BY <2>2
    <3> HIDE DEF m
    <3>3. /\ \A i \in DOMAIN Infl : i \in DOMAIN Infl' /\ Infl'[i] = Infl[i]
          /\ \A i \in DOMAIN Infl' :
               (i \in DOMAIN Infl /\ Infl'[i] = Infl[i]) \/ Infl'[i] = m
          /\ Len(Infl) + 1 \in DOMAIN Infl' /\ Infl'[Len(Infl) + 1] = m
      BY <1>8, <3>1, <3>2, AppendProperties
    <3>4. Listed \subseteq Listed'
      BY <3>3, Zenon DEF Listed
    <3>5. \A x \in Listed' : x \in Listed \/ x = p.id
      BY <3>1, <3>3, Zenon DEF Listed
    <3>6. p.id \in Listed'
      BY <3>1, <3>3, Zenon DEF Listed
    <3>7. Infl' # Infl
      BY <2>2, <3>6, Zenon DEF Listed
    <3> QED BY <2>2, <3>4, <3>5, <3>7, Zenon
  <2> QED BY <1>2, <2>1, <2>2, Zenon DEF ListsAfterPublish
<1>12. RoutedOK'
  <2>1. \A i \in 1..MaxMsgs : i \notin DOMAIN published => routed'[i] = 0
    BY <1>4, <1>6, <1>9, Zenon DEF RoutedOK
  <2>2. \A k \in DOMAIN unfinished :
          unfinished[k].kind.qos = 2 /\ unfinished[k].phase = "publish"
            => routed'[unfinished[k].id] = 0
    <3> SUFFICES ASSUME NEW k \in DOMAIN unfinished, unfinished[k].kind.qos = 2,
                        unfinished[k].phase = "publish"
                 PROVE  routed'[unfinished[k].id] = 0
      OBVIOUS
    <3>1. unfinished[k].id \in 1..MaxMsgs /\ routed[unfinished[k].id] = 0
      BY <1>4, EntryTypes, Zenon DEF RoutedOK
    <3>2. unfinished[k].id # p.id \/ p.kind.qos = 2
      BY <1>4, <1>6, Zenon DEF ClientOK
    <3> QED BY <1>9, <3>1, <3>2, Zenon
  <2>3. \A i \in DOMAIN published : published[i].qos = 2 => routed'[i] <= 1
    <3> SUFFICES ASSUME NEW i \in DOMAIN published, published[i].qos = 2
                 PROVE  routed'[i] <= 1
      OBVIOUS
    <3>1. i \in 1..MaxMsgs
      BY <1>4, PublishedIds, Zenon
    <3>2. i = p.id => p.kind.qos = 2
      BY <1>6, Zenon
    <3>3. routed[i] <= 1
      BY <1>4, Zenon DEF RoutedOK, RoutedOnce
    <3> QED BY <1>9, <3>1, <3>2, <3>3, Zenon
  <2> QED BY <1>2, <2>1, <2>2, <2>3, Zenon DEF RoutedOK, RoutedOnce
<1>13. ListsOK'
  <2> DEFINE m == [id |-> p.id, mid |-> p.mid]
  <2>1. msgs_in'.queued = <<>> /\ msgs_in'.inflight_quota >= msgs_in.inflight_quota
    BY <1>2, Zenon DEF ListsAfterPublish
  <2>2. /\ Len(Infl') \in Nat /\ Len(Infl') = Inflight(msgs_in')
        /\ Len(Infl) \in Nat /\ Len(Infl) = Inflight(msgs_in)
        /\ msgs_in'.inflight_quota \in 0..InMax /\ msgs_in.inflight_quota \in 0..InMax
    <3>1. msgs_in' \in MsgData
      BY <1>5, TypeParts, Zenon
    <3>2. /\ msgs_in'.inflight \in Seq(Msg) /\ Inflight(msgs_in') \in Nat
          /\ msgs_in'.inflight_quota \in 0..InMax
      BY <3>1, DataFields, Zenon
    <3>3. Len(Infl') = Inflight(msgs_in')
      BY Zenon DEF Infl, Inflight
    <3> QED BY <1>4, <3>2, <3>3, InflTypes, Zenon
  <2>3. CASE Infl' = Infl
    <3>1. InMax <= msgs_in'.inflight_quota + Inflight(msgs_in')
      <4>1. InMax <= msgs_in.inflight_quota + Inflight(msgs_in)
        BY <1>4, Zenon DEF ListsOK
      <4> QED BY <2>1, <2>2, <2>3, <4>1, ConstantsAssumption, SMTT(30)
    <3>2. ASSUME NEW i \in DOMAIN Infl
          PROVE  /\ routed'[Infl[i].id] = 0
                 /\ \E k \in DOMAIN unfinished : Belongs(Infl[i], unfinished[k])
      <4>1. PICK k \in DOMAIN unfinished : Belongs(Infl[i], unfinished[k])
        BY <1>4, Zenon DEF ListsOK
      <4>2. Infl[i].id # p.id \/ p.kind.qos = 2
        <5>1. unfinished[k].id = Infl[i].id /\ unfinished[k].kind.qos = 2
          BY <4>1 DEF Belongs
        <5>2. unfinished[k].kind = published[unfinished[k].id]
          BY <1>4, Zenon DEF ClientOK
        <5> QED BY <1>6, <5>1, <5>2, Zenon
      <4>3. routed[Infl[i].id] = 0 /\ Infl[i].id \in 1..MaxMsgs
        BY <1>4, <1>8, Zenon DEF ListsOK
      <4>4. routed'[Infl[i].id] = 0
        BY <1>9, <4>2, <4>3, Zenon
      <4> QED BY <4>1, <4>4
    <3>3. \A i, j \in DOMAIN Infl : i # j => Infl[i].id # Infl[j].id
      BY <1>4, Zenon DEF ListsOK
    <3> QED BY <1>2, <2>1, <2>3, <3>1, <3>2, <3>3, ZenonT(40) DEF ListsOK
  <2>4. CASE Infl' = Append(Infl, m) /\ p.kind.qos = 2 /\ ~p.kind.denied /\ p.id \notin Listed
    <3>1. m.id = p.id /\ m.mid = p.mid /\ m \in Msg
      <4>1. p.mid \in 1..MaxMid
        BY <1>2, <2>4, AnsweredQos, Zenon
      <4> QED BY <1>6, <4>1, ZenonT(40) DEF Msg
    <3>2. Infl' = Append(Infl, m)
      BY <2>4, ZenonT(40)
    <3> HIDE DEF m
    <3>3. /\ Len(Infl') = Len(Infl) + 1
          /\ \A i \in DOMAIN Infl' : \/ i \in DOMAIN Infl /\ Infl'[i] = Infl[i]
                                     \/ i \notin DOMAIN Infl /\ i = Len(Infl) + 1 /\ Infl'[i] = m
      BY <1>8, <3>1, <3>2, AppendProperties, ZenonT(40)
    <3>4. InMax <= msgs_in'.inflight_quota + Inflight(msgs_in')
      <4>1. InMax <= msgs_in.inflight_quota + Inflight(msgs_in)
        BY <1>4, Zenon DEF ListsOK
      <4> QED BY <2>1, <2>2, <3>3, <4>1, ConstantsAssumption, SMTT(30)
    <3>5. ASSUME NEW i \in DOMAIN Infl', NEW j \in DOMAIN Infl', i # j
          PROVE  Infl'[i].id # Infl'[j].id
      <4>1. CASE i \in DOMAIN Infl /\ j \in DOMAIN Infl
        <5>1. Infl'[i] = Infl[i] /\ Infl'[j] = Infl[j]
          BY <3>3, <4>1, Zenon
        <5>2. Infl[i].id # Infl[j].id
          BY <1>4, <3>5, <4>1, Zenon DEF ListsOK
        <5> QED BY <5>1, <5>2, Zenon
      <4>2. CASE i \in DOMAIN Infl /\ j \notin DOMAIN Infl
        <5>1. Infl'[i] = Infl[i] /\ Infl'[j] = m
          BY <3>3, <4>2, Zenon
        <5>2. Infl[i].id # m.id
          BY <2>4, <3>1, <4>2, Zenon DEF Listed
        <5> QED BY <5>1, <5>2, Zenon
      <4>3. CASE i \notin DOMAIN Infl /\ j \in DOMAIN Infl
        <5>1. Infl'[j] = Infl[j] /\ Infl'[i] = m
          BY <3>3, <4>3, Zenon
        <5>2. Infl[j].id # m.id
          BY <2>4, <3>1, <4>3, Zenon DEF Listed
        <5> QED BY <5>1, <5>2, Zenon
      <4>4. CASE i \notin DOMAIN Infl /\ j \notin DOMAIN Infl
        BY <3>3, <3>5, <4>4, Zenon
      <4> QED BY <4>1, <4>2, <4>3, <4>4, ZenonT(40)
    <3>6. PICK k \in DOMAIN unfinished : Sends(p, unfinished[k])
      <4>1. p.mid # 0
        BY <1>2, <2>4, AnsweredQos, Zenon
      <4> QED BY <1>6, <4>1, Zenon
    <3>7. /\ unfinished[k].id = p.id /\ unfinished[k].mid = p.mid /\ unfinished[k].kind = p.kind
          /\ unfinished[k].phase = "publish"
      BY <1>2, <3>6, Zenon DEF Sends
    <3>8. Belongs(m, unfinished[k]) /\ routed'[p.id] = 0
      <4>1. Belongs(m, unfinished[k])
        BY <2>4, <3>1, <3>7, Zenon DEF Belongs
      <4>2. routed[p.id] = 0
        BY <1>4, <2>4, <3>7, ZenonT(40) DEF RoutedOK
      <4> QED BY <1>6, <1>9, <2>4, <4>1, <4>2, Zenon
    <3>9. ASSUME NEW i \in DOMAIN Infl'
          PROVE  /\ routed'[Infl'[i].id] = 0
                 /\ \E l \in DOMAIN unfinished : Belongs(Infl'[i], unfinished[l])
      <4>1. CASE i \in DOMAIN Infl /\ Infl'[i] = Infl[i]
        <5>1. \E l \in DOMAIN unfinished : Belongs(Infl[i], unfinished[l])
          BY <1>4, <4>1, Zenon DEF ListsOK
        <5>2. routed[Infl[i].id] = 0 /\ Infl[i].id \in 1..MaxMsgs
          BY <1>4, <1>8, <4>1, Zenon DEF ListsOK
        <5>3. routed'[Infl[i].id] = 0
          BY <1>9, <2>4, <5>2, Zenon
        <5> QED BY <4>1, <5>1, <5>3, Zenon
      <4>2. CASE Infl'[i] = m
        BY <3>1, <3>8, <4>2, Zenon
      <4> QED BY <3>3, <4>1, <4>2
    <3> QED BY <1>2, <2>1, <3>4, <3>5, <3>9, Zenon DEF ListsOK
  <2> QED BY <1>2, <2>3, <2>4, Zenon DEF ListsAfterPublish
<1>14. OthersUnlisted(p.mid)
  <2> SUFFICES ASSUME NEW k \in DOMAIN unfinished, unfinished[k].mid # p.mid,
                      unfinished[k].id \in Listed'
               PROVE  unfinished[k].id \in Listed
    BY Zenon DEF OthersUnlisted
  <2>1. CASE unfinished[k].id \in Listed
    BY <2>1
  <2>2. CASE unfinished[k].id = p.id /\ p.kind.qos = 2
    <3>1. PICK l \in DOMAIN unfinished : Sends(p, unfinished[l])
      <4>1. p.mid # 0
        BY <1>2, <2>2, AnsweredQos, Zenon
      <4> QED BY <1>6, <4>1, Zenon
    <3>2. unfinished[l].id = p.id /\ unfinished[l].mid = p.mid
      BY <1>2, <3>1 DEF Sends
    <3>3. l = k
      BY <1>4, <2>2, <3>2, Zenon DEF ClientOK
    <3> QED BY <3>2, <3>3
  <2> QED BY <1>11, <2>1, <2>2, Zenon
<1>15. ASSUME p.mid # 0
       PROVE  /\ r.mid = p.mid
              /\ \E k \in DOMAIN unfinished : Answers(r, unfinished[k], Listed')
              /\ PolicyInactive => p.id \in Settled' \/ p.id \in Listed'
  <2>1. p.kind.qos > 0 /\ p.kind.qos \in {1, 2}
    BY <1>2, <1>15, AnsweredQos, Zenon
  <2>2. /\ r.mid = p.mid
        /\ r.type = IF p.kind.qos = 1 THEN "PUBACK" ELSE "PUBREC"
        /\ ~r.ok => p.id \notin Listed /\ Infl' = Infl
        /\ PolicyInactive => p.id \in Settled' \/ p.id \in Listed'
    BY <1>3, <2>1, Zenon DEF ReplyToPublish
  <2>3. PICK k \in DOMAIN unfinished : Sends(p, unfinished[k])
    BY <1>6, <1>15, Zenon
  <2>4. /\ unfinished[k].id = p.id /\ unfinished[k].mid = p.mid /\ unfinished[k].kind = p.kind
        /\ unfinished[k].phase = "publish"
    BY <1>2, <2>3 DEF Sends
  <2>5. ~r.ok => p.id \notin Listed'
    BY <1>11, <2>2, ZenonT(40)
  <2>6. Answers(r, unfinished[k], Listed')
    BY <2>1, <2>2, <2>4, <2>5, ZenonT(40) DEF Answers
  <2> QED BY <2>2, <2>6, ZenonT(40)
<1>16. p.mid = Head(in_packets).mid
  BY <1>1
<1>17. PacketsOK' /\ RepliesOK' /\ AnsweredOK'
  BY <1>2, <1>3, <1>4, <1>14, <1>15, <1>16, LinkStep, Zenon
<1>18. LossOK'
  <2>1. ASSUME PolicyInactive
        PROVE  /\ \A k \in DOMAIN unfinished :
                    unfinished[k].id \in Listed =>
                      unfinished[k].id \in Settled' \/ unfinished[k].id \in Listed'
               /\ p.mid # 0 => r.mid = p.mid /\
                    \A k \in DOMAIN unfinished : unfinished[k].mid = p.mid =>
                      unfinished[k].id \in Settled' \/ unfinished[k].id \in Listed'
    <3>1. \A k \in DOMAIN unfinished : unfinished[k].id \in Listed => unfinished[k].id \in Listed'
      BY <1>11, Zenon
    <3>2. ASSUME p.mid # 0, NEW k \in DOMAIN unfinished, unfinished[k].mid = p.mid
          PROVE  unfinished[k].id \in Settled' \/ unfinished[k].id \in Listed'
      <4>1. PICK l \in DOMAIN unfinished : Sends(p, unfinished[l])
        BY <1>6, <3>2, Zenon
      <4>2. unfinished[l].id = p.id /\ unfinished[l].mid = p.mid
        BY <1>2, <4>1, Zenon DEF Sends
      <4>3. l = k
        BY <1>4, <3>2, <4>2, Zenon DEF ClientOK
      <4> QED BY <1>15, <2>1, <3>2, <4>2, <4>3, Zenon
    <3> QED BY <1>15, <3>1, <3>2, Zenon
  <2> QED BY <1>2, <1>3, <1>4, <1>10, <2>1, LossStep, Zenon
<1> QED BY <1>5, <1>7, <1>12, <1>13, <1>17, <1>18, Zenon DEF HandshakeInv

-----------------------------------------------------------------------------
(* handle__pubrel                                                          *)

Pubcomp(mid) == [type |-> "PUBCOMP", mid |-> mid, ok |-> TRUE]

\* The list without the messages with this mid, and what has been handed on.
Releases(mid) ==
    /\ Infl' = Pick(Infl, DOMAIN Infl \ SameMid(Infl, mid))
    /\ \A i \in 1..MaxMsgs :
         (\A j \in SameMid(Infl, mid) : Infl[j].id # i) => routed'[i] = routed[i]
    /\ \A j \in SameMid(Infl, mid) : routed'[Infl[j].id] = 1

\* handle__pubrel hands on the listed message with the packet identifier, if there
\* is one, and gives its quota back; it answers in any case.
LEMMA PubrelEffect ==
    ASSUME Counting, TypeInv, ClientOK, ListsOK, PacketsOK, HandlePubrel,
           NEW mid, mid = Head(in_packets).mid
    PROVE  /\ in_packets # <<>> /\ mid \in 1..MaxMid
           /\ \E k \in DOMAIN unfinished : unfinished[k].mid = mid /\ unfinished[k].phase = "pubrel"
           /\ UNCHANGED <<unfinished, finished, published, rejected>>
           /\ msgs_in'.queued = <<>>
           /\ InMax <= msgs_in'.inflight_quota + Inflight(msgs_in')
           /\ Releases(mid)
           /\ Handled(Pubcomp(mid), mid)
<1> DEFINE n    == Released(msgs_in, Len(msgs_in.inflight))
           left == Unreleased(msgs_in, mid)
           k    == Released(left, Len(msgs_in.inflight))
           new  == Dequeue(left, k)
           Same == SameMid(Infl, mid)
<1>1. /\ in_packets # <<>> /\ Head(in_packets).type = "PUBREL"
      /\ Route(msgs_in.inflight, SameMid(msgs_in.inflight, mid))
      /\ msgs_in' = [new EXCEPT !.inflight_quota = Refund(new.inflight_quota)]
      /\ Finish(Append(Pubrecs(msgs_in, n), Pubcomp(mid)), TRUE)
      /\ UNCHANGED <<unfinished, finished, published, rejected>>
  BY Zenon DEF HandlePubrel, Receives, clientVars, db__message_release_incoming, Pubcomp
<1>2. /\ mid \in 1..MaxMid /\ mid # 0 /\ 1 \in DOMAIN in_packets
      /\ mid = in_packets[1].mid /\ in_packets[1].type = "PUBREL"
  <2>1. Head(in_packets) \in SoundPacket /\ Head(in_packets) = in_packets[1] /\ 1 \in DOMAIN in_packets
    BY <1>1, TypeParts, TailProperties
  <2> QED BY <1>1, <2>1, PacketFields
<1>3. PICK u \in DOMAIN unfinished : unfinished[u].mid = mid /\ unfinished[u].phase = "pubrel"
  <2>1. \E u \in DOMAIN unfinished : Sends(in_packets[1], unfinished[u])
    BY <1>2, Zenon DEF PacketsOK
  <2> QED BY <1>2, <2>1, Zenon DEF Sends
<1>4. /\ msgs_in \in MsgData /\ Len(msgs_in.inflight) \in Nat /\ msgs_in.queued = <<>>
      /\ Infl \in Seq(Msg) /\ DOMAIN Infl = 1..Len(Infl) /\ Len(Infl) \in Nat
      /\ Len(Infl) = Inflight(msgs_in) /\ Infl = msgs_in.inflight
      /\ msgs_in.inflight_quota \in 0..InMax
      /\ \A i \in DOMAIN Infl : Infl[i] \in Msg /\ Infl[i].id \in 1..MaxMsgs
  BY InflTypes, Zenon DEF ListsOK, Infl
<1>5. ASSUME NEW i \in Same, NEW j \in Same PROVE i = j
  <2>1. i \in DOMAIN Infl /\ j \in DOMAIN Infl /\ Infl[i].mid = mid /\ Infl[j].mid = mid
    BY Zenon DEF SameMid
  <2>2. PICK a \in DOMAIN unfinished : Belongs(Infl[i], unfinished[a])
    BY <2>1, Zenon DEF ListsOK
  <2>3. PICK b \in DOMAIN unfinished : Belongs(Infl[j], unfinished[b])
    BY <2>1, Zenon DEF ListsOK
  <2>4. a = b
    BY <2>1, <2>2, <2>3, Zenon DEF Belongs, ClientOK
  <2>5. Infl[i].id = Infl[j].id
    BY <2>2, <2>3, <2>4, Zenon DEF Belongs
  <2> QED BY <2>1, <2>5, Zenon DEF ListsOK
<1>6. \/ Same = {} /\ Cardinality(Same) = 0
      \/ \E j \in Same : Same = {j} /\ Cardinality(Same) = 1
  <2> HIDE DEF Same
  <2>1. CASE Same = {}
    BY <2>1, FiniteEmpty, Zenon
  <2>2. CASE Same # {}
    <3>1. PICK j \in Same : TRUE
      BY <2>2
    <3>2. Same = {j}
      BY <1>5, Zenon
    <3> QED BY <3>1, <3>2, FiniteSingleton, Zenon
  <2> QED BY <2>1, <2>2
<1>7. /\ left \in MsgData /\ left.queued = <<>> /\ left.inflight_quota = msgs_in.inflight_quota
      /\ left.inflight = Pick(Infl, DOMAIN Infl \ Same)
      /\ Inflight(left) = Inflight(msgs_in) - Cardinality(Same)
  BY <1>4, UnreleasedType, Zenon
<1>8. n = 0 /\ k = 0
  <2>1. n \in 0..Queued(msgs_in) /\ k \in 0..Queued(left)
    BY <1>4, <1>7, CountsInRange, Zenon
  <2>2. Queued(msgs_in) = 0 /\ Queued(left) = 0
    BY <1>4, <1>7, DequeueNone, Zenon
  <2> HIDE DEF n, k
  <2> QED BY <2>1, <2>2
<1>9. /\ new \in MsgData /\ new.inflight = left.inflight /\ new.queued = <<>>
      /\ new.inflight_quota = msgs_in.inflight_quota
  <2> HIDE DEF left, k
  <2> QED BY <1>7, <1>8, DequeueNone, ZenonT(40)
<1> DEFINE q == Refund(new.inflight_quota)
<1>10. q \in 0..InMax /\ q = Refund(msgs_in.inflight_quota)
  <2> HIDE DEF new
  <2> QED BY <1>4, <1>9, QuotaType
<1>11. /\ msgs_in'.inflight = Pick(Infl, DOMAIN Infl \ Same) /\ msgs_in'.queued = <<>>
       /\ msgs_in'.inflight_quota = q
       /\ Inflight(msgs_in') = Inflight(msgs_in) - Cardinality(Same)
  <2>1. Inflight(msgs_in') = Len(msgs_in'.inflight) /\ Inflight(left) = Len(left.inflight)
    BY DEF Inflight
  <2> HIDE DEF new, left, q
  <2>2. /\ [new EXCEPT !.inflight_quota = q].queued = new.queued
        /\ [new EXCEPT !.inflight_quota = q].inflight = new.inflight
        /\ [new EXCEPT !.inflight_quota = q].inflight_quota = q
    BY <1>9, <1>10, QuotaChange, Zenon
  <2>3. msgs_in' = [new EXCEPT !.inflight_quota = q]
    BY <1>1, Zenon DEF q
  <2> QED BY <1>7, <1>9, <2>1, <2>2, <2>3, Zenon
<1>12. InMax <= msgs_in'.inflight_quota + Inflight(msgs_in')
  <2> DEFINE c == Cardinality(Same)
             a == Inflight(msgs_in)
             f == msgs_in.inflight_quota
  <2>1. c \in {0, 1} /\ a \in Nat /\ f \in 0..InMax /\ InMax <= f + a /\ a - c \in Nat
    <3>1. c \in {0, 1}
      BY <1>6
    <3>2. a - c \in Nat
      <4>1. Inflight(left) \in Nat
        BY <1>7, DataFields, Zenon
      <4> QED BY <1>7, <4>1, Zenon
    <3> QED BY <1>4, <3>1, <3>2, Zenon DEF ListsOK
  <2>2. msgs_in'.inflight_quota = Refund(f) /\ Inflight(msgs_in') = a - c
    BY <1>10, <1>11, Zenon
  <2> HIDE DEF c, a, f
  <2>3. InMax <= Refund(f) + (a - c)
    BY <2>1, ConstantsAssumption DEF Refund, Greater, Lesser
  <2> QED BY <2>2, <2>3, Zenon
<1> HIDE DEF new, left, q, k, n
<1>13. Finish(<<Pubcomp(mid)>>, TRUE)
  <2>1. Pubrecs(msgs_in, 0) = <<>>
    BY DEF Pubrecs
  <2>2. Append(<<>>, Pubcomp(mid)) = <<Pubcomp(mid)>>
    OBVIOUS
  <2> QED BY <1>1, <1>8, <2>1, <2>2, Zenon
<1>14. Handled(Pubcomp(mid), mid)
  <2>1. Pubcomp(mid) \in Reply
    BY <1>2, Zenon DEF Pubcomp, Reply
  <2> QED BY <1>2, <1>13, <2>1, FinishHandles, Zenon
<1>15. Releases(mid)
  <2> DEFINE times(i) == Cardinality({j \in Same : Infl[j].id = i})
  <2>1. routed' = [i \in 1..MaxMsgs |-> Lesser(routed[i] + times(i), 2)]
    <3>1. DOMAIN routed = 1..MaxMsgs
      BY TypeParts
    <3> QED BY <1>1, <1>4, <3>1, Zenon DEF Route
  <2>2. routed \in [1..MaxMsgs -> 0..2]
    BY TypeParts, Zenon
  <2>3. ASSUME NEW i \in 1..MaxMsgs, \A j \in Same : Infl[j].id # i
        PROVE  routed'[i] = routed[i]
    <3>1. {j \in Same : Infl[j].id = i} = {}
      BY <2>3, Zenon
    <3>2. times(i) = 0
      BY <3>1, FiniteEmpty, Zenon
    <3>3. routed'[i] = Lesser(routed[i] + times(i), 2)
      BY <2>1, Zenon
    <3> HIDE DEF times
    <3> QED BY <2>2, <3>2, <3>3 DEF Lesser
  <2>4. ASSUME NEW j \in Same PROVE routed'[Infl[j].id] = 1
    <3> DEFINE i == Infl[j].id
    <3>1. j \in DOMAIN Infl /\ i \in 1..MaxMsgs /\ routed[i] = 0
      BY <1>4, Zenon DEF SameMid, ListsOK
    <3>2. {l \in Same : Infl[l].id = i} = {j}
      BY <1>5, Zenon
    <3>3. times(i) = 1
      BY <3>2, FiniteSingleton, Zenon
    <3>4. routed'[i] = Lesser(routed[i] + times(i), 2)
      BY <2>1, <3>1, Zenon
    <3> HIDE DEF times
    <3> QED BY <3>1, <3>3, <3>4 DEF Lesser
  <2>5. Infl' = Pick(Infl, DOMAIN Infl \ Same)
    BY <1>11, Zenon DEF Infl
  <2> QED BY <2>3, <2>4, <2>5, Zenon DEF Releases
<1> QED BY <1>1, <1>2, <1>3, <1>11, <1>12, <1>14, <1>15, Zenon

\* What is left of a list comes from its kept positions, each from one.
LEMMA PickDistinct ==
    ASSUME Counting, NEW S, NEW s \in Seq(S), NEW K \in SUBSET DOMAIN s, NEW p, p = Pick(s, K)
    PROVE  /\ p \in Seq(S)
           /\ \A j \in DOMAIN p : \E i \in K : p[j] = s[i]
           /\ \A i \in K : \E j \in DOMAIN p : p[j] = s[i]
           /\ \A j, l \in DOMAIN p : j # l =>
                \E i, k \in K : i # k /\ p[j] = s[i] /\ p[l] = s[k]
<1>1. /\ p \in Seq(S)
      /\ \A j \in DOMAIN p : \E i \in K : p[j] = s[i]
      /\ \A i \in K : \E j \in DOMAIN p : p[j] = s[i]
      /\ \A j, l \in DOMAIN p : j < l => \E i, k \in K : i < k /\ p[j] = s[i] /\ p[l] = s[k]
  BY PickProperties
<1>2. DOMAIN p \subseteq Int /\ K \subseteq Int
  BY <1>1, SMTT(30)
<1>3. ASSUME NEW j \in DOMAIN p, NEW l \in DOMAIN p, j # l
      PROVE  \E i, k \in K : i # k /\ p[j] = s[i] /\ p[l] = s[k]
  <2>1. j < l \/ l < j
    BY <1>2, <1>3
  <2>2. \A i, k \in K : i < k => i # k
    BY <1>2
  <2>3. CASE j < l
    <3>1. PICK i \in K, k \in K : i < k /\ p[j] = s[i] /\ p[l] = s[k]
      BY <1>1, <2>3, Zenon
    <3>2. i # k
      BY <2>2, <3>1, Zenon
    <3> QED BY <3>1, <3>2, Zenon
  <2>4. CASE l < j
    <3>1. PICK i \in K, k \in K : i < k /\ p[l] = s[i] /\ p[j] = s[k]
      BY <1>1, <2>4, Zenon
    <3>2. k # i
      BY <2>2, <3>1, Zenon
    <3> QED BY <3>1, <3>2, Zenon
  <2> QED BY <2>1, <2>3, <2>4
<1> QED BY <1>1, <1>3, ZenonT(40)

\* handle__pubrel keeps the handshakes going.
LEMMA PubrelStep ==
    ASSUME Counting, HandshakeInv, HandlePubrel
    PROVE  HandshakeInv'
<1>1. PICK mid : mid = Head(in_packets).mid
  OBVIOUS
<1>2. /\ TypeInv /\ ClientOK /\ RoutedOK /\ ListsOK /\ PacketsOK /\ RepliesOK /\ AnsweredOK
      /\ LossOK
  BY ZenonT(40) DEF HandshakeInv
<1>3. /\ in_packets # <<>> /\ mid \in 1..MaxMid
      /\ \E k \in DOMAIN unfinished : unfinished[k].mid = mid /\ unfinished[k].phase = "pubrel"
      /\ UNCHANGED <<unfinished, finished, published, rejected>>
      /\ msgs_in'.queued = <<>>
      /\ InMax <= msgs_in'.inflight_quota + Inflight(msgs_in')
      /\ Releases(mid)
      /\ Handled(Pubcomp(mid), mid)
  BY <1>1, <1>2, PubrelEffect, ZenonT(40)
<1>4. PICK k \in DOMAIN unfinished : unfinished[k].mid = mid /\ unfinished[k].phase = "pubrel"
  BY <1>3, ZenonT(40)
<1>u. unfinished' = unfinished /\ finished' = finished /\ published' = published /\ rejected' = rejected
  BY <1>3
<1>5. TypeInv'
  BY <1>2, HandlePubrelType, ZenonT(40)
<1>6. ClientOK'
  BY <1>2, <1>u DEF ClientOK
<1>7. /\ Infl \in Seq(Msg) /\ routed \in [1..MaxMsgs -> 0..2]
      /\ \A i \in DOMAIN Infl : Infl[i].id \in 1..MaxMsgs
  BY <1>2, InflTypes, TypeParts, Zenon
<1> DEFINE Same == SameMid(Infl, mid)
           Kept == DOMAIN Infl \ Same
<1>8. /\ \A i \in 1..MaxMsgs : (\A j \in Same : Infl[j].id # i) => routed'[i] = routed[i]
      /\ \A j \in Same : routed'[Infl[j].id] = 1
      /\ Infl' = Pick(Infl, Kept)
  BY <1>3, Zenon DEF Releases
<1>9. /\ \A j \in DOMAIN Infl' : \E i \in Kept : Infl'[j] = Infl[i]
      /\ \A i \in Kept : \E j \in DOMAIN Infl' : Infl'[j] = Infl[i]
      /\ \A j, l \in DOMAIN Infl' : j # l =>
           \E a, b \in Kept : a # b /\ Infl'[j] = Infl[a] /\ Infl'[l] = Infl[b]
  <2>1. Kept \in SUBSET DOMAIN Infl
    OBVIOUS
  <2>2. Infl' = Pick(Infl, Kept)
    BY <1>8, Zenon
  <2> HIDE DEF Kept
  <2> QED BY <1>7, <2>1, <2>2, PickDistinct, SMTT(30)
<1>10. ASSUME NEW j \in Same
       PROVE  Infl[j].id = unfinished[k].id /\ j \in DOMAIN Infl
  <2>1. j \in DOMAIN Infl /\ Infl[j].mid = mid
    BY Zenon DEF SameMid
  <2>2. PICK l \in DOMAIN unfinished : Belongs(Infl[j], unfinished[l])
    BY <1>2, <2>1, Zenon DEF ListsOK
  <2>3. l = k
    BY <1>2, <1>4, <2>1, <2>2, Zenon DEF Belongs, ClientOK
  <2> QED BY <2>1, <2>2, <2>3, Zenon DEF Belongs
<1>11. \A j \in DOMAIN Infl : Infl[j].id = unfinished[k].id => j \in Same
  <2> SUFFICES ASSUME NEW j \in DOMAIN Infl, Infl[j].id = unfinished[k].id PROVE j \in Same
    OBVIOUS
  <2>1. PICK l \in DOMAIN unfinished : Belongs(Infl[j], unfinished[l])
    BY <1>2, Zenon DEF ListsOK
  <2>2. l = k
    BY <1>2, <2>1, Zenon DEF Belongs, ClientOK
  <2> QED BY <1>4, <2>1, <2>2, Zenon DEF Belongs, SameMid
<1>12. /\ Listed' \subseteq Listed /\ unfinished[k].id \notin Listed'
       /\ \A x \in Listed : x \in Listed' \/ x = unfinished[k].id
  <2>1. Listed' \subseteq Listed
    <3>1. ASSUME NEW j \in DOMAIN Infl' PROVE Infl'[j].id \in Listed
      <4>1. PICK i \in Kept : Infl'[j] = Infl[i]
        BY <1>9, Zenon
      <4> QED BY <4>1, Zenon DEF Listed
    <3> QED BY <3>1, Zenon DEF Listed
  <2>2. unfinished[k].id \notin Listed'
    <3>1. ASSUME NEW j \in DOMAIN Infl' PROVE Infl'[j].id # unfinished[k].id
      <4>1. PICK i \in Kept : Infl'[j] = Infl[i]
        BY <1>9, Zenon
      <4> QED BY <1>11, <4>1, Zenon
    <3> QED BY <3>1, Zenon DEF Listed
  <2>3. ASSUME NEW x \in Listed PROVE x \in Listed' \/ x = unfinished[k].id
    <3>1. PICK i \in DOMAIN Infl : Infl[i].id = x
      BY Zenon DEF Listed
    <3>2. CASE i \in Same
      BY <1>10, <3>1, <3>2, Zenon
    <3>3. CASE i \in Kept
      BY <1>9, <3>1, <3>3, Zenon DEF Listed
    <3> QED BY <3>2, <3>3
  <2> QED BY <2>1, <2>2, <2>3
<1>13. /\ \A i \in 1..MaxMsgs : i # unfinished[k].id => routed'[i] = routed[i]
       /\ unfinished[k].id \in 1..MaxMsgs /\ unfinished[k].id \in DOMAIN published
       /\ unfinished[k].id \in Listed => routed'[unfinished[k].id] = 1
       /\ routed'[unfinished[k].id] \in {1, routed[unfinished[k].id]}
  <2>1. \A i \in 1..MaxMsgs : i # unfinished[k].id => routed'[i] = routed[i]
    BY <1>8, <1>10, Zenon
  <2>2. unfinished[k].id \in 1..MaxMsgs /\ unfinished[k].id \in DOMAIN published
    BY <1>2, EntryTypes, Zenon DEF ClientOK
  <2>3. ASSUME unfinished[k].id \in Listed PROVE routed'[unfinished[k].id] = 1
    <3>1. PICK i \in DOMAIN Infl : Infl[i].id = unfinished[k].id
      BY <2>3, Zenon DEF Listed
    <3>2. i \in Same
      BY <1>11, <3>1, Zenon
    <3> QED BY <1>8, <3>1, <3>2, Zenon
  <2>4. unfinished[k].id \notin Listed => routed'[unfinished[k].id] = routed[unfinished[k].id]
    BY <1>8, <1>10, <2>2, Zenon DEF Listed
  <2> QED BY <2>1, <2>2, <2>3, <2>4, Zenon
<1>14. Settled \subseteq Settled' /\ (unfinished[k].id \in Listed => unfinished[k].id \in Settled')
  <2>1. unfinished[k].id \in Listed => unfinished[k].id \in Settled'
    BY <1>13 DEF Settled
  <2>2. ASSUME NEW i \in Settled PROVE i \in Settled'
    <3>1. i \in 1..MaxMsgs /\ (routed[i] > 0 \/ i \in rejected)
      BY Zenon DEF Settled
    <3>2. routed[i] > 0 => routed'[i] > 0
      <4>1. CASE i # unfinished[k].id
        BY <1>13, <3>1, <4>1, Zenon
      <4>2. CASE i = unfinished[k].id
        <5>1. routed'[i] = 1 \/ routed'[i] = routed[i]
          BY <1>13, <4>2, Zenon
        <5> QED BY <5>1
      <4> QED BY <4>1, <4>2
    <3> QED BY <1>u, <3>1, <3>2, Zenon DEF Settled
  <2> QED BY <2>1, <2>2
<1>15. RoutedOK'
  <2>1. \A i \in 1..MaxMsgs : i \notin DOMAIN published => routed'[i] = 0
    BY <1>2, <1>13, Zenon DEF RoutedOK
  <2>2. ASSUME NEW l \in DOMAIN unfinished, unfinished[l].kind.qos = 2,
               unfinished[l].phase = "publish"
        PROVE  routed'[unfinished[l].id] = 0
    <3>1. unfinished[l].id \in 1..MaxMsgs /\ routed[unfinished[l].id] = 0
      BY <1>2, <2>2, EntryTypes, Zenon DEF RoutedOK
    <3>2. l # k
      BY <1>4, <2>2
    <3>3. unfinished[l].id # unfinished[k].id
      BY <1>2, <3>2, Zenon DEF ClientOK
    <3> QED BY <1>13, <3>1, <3>3, Zenon
  <2>3. ASSUME NEW i \in DOMAIN published, published[i].qos = 2
        PROVE  routed'[i] <= 1
    <3>1. i \in 1..MaxMsgs
      BY <1>2, PublishedIds, Zenon
    <3>2. routed[i] <= 1
      BY <1>2, <2>3, Zenon DEF RoutedOK, RoutedOnce
    <3>3. routed'[i] = routed[i] \/ routed'[i] = 1
      BY <1>13, <3>1, Zenon
    <3> QED BY <3>2, <3>3
  <2> QED BY <1>u, <2>1, <2>2, <2>3, Zenon DEF RoutedOK, RoutedOnce
<1>16. ListsOK'
  <2>1. ASSUME NEW i \in DOMAIN Infl', NEW j \in DOMAIN Infl', i # j
        PROVE  Infl'[i].id # Infl'[j].id
    <3>1. PICK a \in Kept, b \in Kept : a # b /\ Infl'[i] = Infl[a] /\ Infl'[j] = Infl[b]
      BY <1>9, <2>1, Zenon
    <3>2. Infl[a].id # Infl[b].id
      BY <1>2, <3>1, Zenon DEF ListsOK
    <3> QED BY <3>1, <3>2, Zenon
  <2>2. ASSUME NEW i \in DOMAIN Infl'
        PROVE  /\ routed'[Infl'[i].id] = 0
               /\ \E l \in DOMAIN unfinished : Belongs(Infl'[i], unfinished[l])
    <3>1. PICK a \in Kept : Infl'[i] = Infl[a]
      BY <1>9, Zenon
    <3>2. /\ routed[Infl[a].id] = 0 /\ Infl[a].id \in 1..MaxMsgs
          /\ \E l \in DOMAIN unfinished : Belongs(Infl[a], unfinished[l])
      BY <1>2, <1>7, <3>1, Zenon DEF ListsOK
    <3>3. Infl[a].id # unfinished[k].id
      BY <1>11, <3>1, Zenon
    <3> QED BY <1>13, <3>1, <3>2, <3>3, Zenon
  <2> QED BY <1>u, <1>3, <2>1, <2>2, Zenon DEF ListsOK
<1>17. Pubcomp(mid) \in Reply /\ Answers(Pubcomp(mid), unfinished[k], Listed')
       /\ Pubcomp(mid).mid = mid
  <2>1. Pubcomp(mid) \in Reply /\ Pubcomp(mid).mid = mid
    BY <1>3, Zenon DEF Pubcomp, Reply
  <2>2. Answers(Pubcomp(mid), unfinished[k], Listed')
    BY <1>4, <1>12 DEF Answers, Pubcomp
  <2> QED BY <2>1, <2>2
<1>18. PacketsOK' /\ RepliesOK' /\ AnsweredOK'
  <2>1. OthersUnlisted(mid)
    BY <1>12, Zenon DEF OthersUnlisted
  <2> QED BY <1>1, <1>2, <1>3, <1>17, <2>1, LinkStep, Zenon
<1>19. LossOK'
  <2>1. ASSUME PolicyInactive
        PROVE  /\ \A l \in DOMAIN unfinished :
                    unfinished[l].id \in Listed =>
                      unfinished[l].id \in Settled' \/ unfinished[l].id \in Listed'
               /\ mid # 0 => Pubcomp(mid).mid = mid /\
                    \A l \in DOMAIN unfinished : unfinished[l].mid = mid =>
                      unfinished[l].id \in Settled' \/ unfinished[l].id \in Listed'
    <3>1. \A l \in DOMAIN unfinished :
            unfinished[l].id \in Listed => unfinished[l].id \in Settled' \/ unfinished[l].id \in Listed'
      BY <1>12, <1>14, Zenon
    <3>2. unfinished[k].id \in Settled \/ unfinished[k].id \in Listed
      BY <1>2, <1>4, <2>1, Zenon DEF LossOK
    <3>3. unfinished[k].id \in Settled'
      BY <1>14, <3>2, Zenon
    <3>4. \A l \in DOMAIN unfinished : unfinished[l].mid = mid => l = k
      BY <1>2, <1>4, Zenon DEF ClientOK
    <3> QED BY <1>17, <3>1, <3>3, <3>4, Zenon
  <2> QED BY <1>2, <1>3, <1>14, <1>17, <2>1, LossStep, Zenon
<1> QED BY <1>5, <1>6, <1>15, <1>16, <1>18, <1>19, Zenon DEF HandshakeInv
=============================================================================
