------------------------ MODULE OutgoingListsProofs -------------------------
(***************************************************************************)
(* What the db__ functions of OutgoingLists do, for every limit and every  *)
(* list: each maps a well-formed msgs_out to a well-formed one, and keeps  *)
(* the counter msg_count12 and the send quota in balance with the lists.   *)
(***************************************************************************)
EXTENDS OutgoingLists, SubsequencesProofs

\* A message that the write functions send or that awaits an answer.
LiveMsg == {m \in Msg : m.state \notin {"queued", "storage"}}

OldestFirst(s) == \A i, j \in DOMAIN s : i < j => s[i].age >= s[j].age

\* Well-formed message data whose inflight messages are in E.
Data(E) == {d \in MsgData : d.inflight \in Seq(E) /\ OldestFirst(d.storage)}

\* The queue holds no QoS 0 message, or there is no inflight limit.
Qos0NeverQueued == InflightMax = 0 \/ \A k \in Kinds : k.qos > 0

\* The sets of inflight messages that the lemmas are about.
Inflights == {Msg, LiveMsg}

\* The QoS of a message kind.
LEMMA KindFields == \A k \in Kinds : k.qos \in 0..2
  BY ConstantsAssumption, Zenon DEF Kinds, Kind

\* The fields of a message, and what moving it to a publish state gives.
LEMMA MsgFields ==
    ASSUME NEW m \in Msg
    PROVE  /\ m.id \in 1..MaxMsgs /\ m.mid \in 0..MaxMid /\ m.kind \in Kinds
           /\ m.kind.qos \in 0..2 /\ m.state \in States /\ m.dup \in BOOLEAN
           /\ m.age \in 0..(StoreTimeout + 1)
  BY KindFields, Zenon DEF Msg

\* Putting a message in a publish state makes it live.
LEMMA ToPublishType ==
    ASSUME NEW m \in Msg
    PROVE  ToPublish(m) \in LiveMsg /\ ToPublish(m).age = m.age
<1>1. PublishState(m.kind.qos) \in PublishStates
  BY MsgFields, Zenon DEF PublishState, PublishStates
<1>2. ToPublish(m) \in Msg /\ ToPublish(m).state = PublishState(m.kind.qos)
        /\ ToPublish(m).age = m.age
  BY <1>1, Zenon DEF ToPublish, Msg, States
<1> QED BY <1>1, <1>2, Zenon DEF LiveMsg, PublishStates

\* A message stays well-formed when it leaves the storage list.
LEMMA UnstoredType ==
    ASSUME NEW m \in Msg
    PROVE  /\ Unstored(m) \in Msg
           /\ m \in LiveMsg => Unstored(m) \in LiveMsg
  BY ConstantsAssumption DEF Unstored, Msg, LiveMsg

\* A message stays well-formed when its state is changed.
LEMMA StateChange ==
    ASSUME NEW E \in Inflights, NEW m \in E,
           NEW st \in States \ {"queued", "storage"}, NEW b \in BOOLEAN
    PROVE  /\ [m EXCEPT !.state = st] \in E
           /\ [m EXCEPT !.state = st, !.dup = b] \in E
<1>1. /\ [m EXCEPT !.state = st] \in Msg
      /\ [m EXCEPT !.state = st, !.dup = b] \in Msg
      /\ [m EXCEPT !.state = st].state = st
      /\ [m EXCEPT !.state = st, !.dup = b].state = st
  <2>1. m \in Msg
    BY Zenon DEF Inflights, LiveMsg
  <2> QED BY <2>1, Zenon DEF Msg
<1>2. /\ [m EXCEPT !.state = st] \in LiveMsg
      /\ [m EXCEPT !.state = st, !.dup = b] \in LiveMsg
  BY <1>1, Zenon DEF LiveMsg
<1> QED BY <1>1, <1>2, Zenon DEF Inflights

\* What db__message_write_inflight_out_single leaves of a message it has sent.
LEMMA AfterSendType ==
    ASSUME NEW E \in Inflights, NEW m \in E
    PROVE  AfterSend(m) \in E
  BY StateChange, Zenon DEF AfterSend, States

\* What the reconnect reset leaves of an inflight message.
LEMMA ResetStateType ==
    ASSUME NEW m \in Msg
    PROVE  ResetState(m) \in LiveMsg
<1>1. CASE m.kind.qos = 2 /\ m.state = "wait_for_pubcomp"
  <2>1. m \in LiveMsg
    BY <1>1, Zenon DEF LiveMsg
  <2> QED BY <1>1, <2>1, StateChange, ZenonT(40) DEF ResetState, Inflights, States
<1>2. CASE ~(m.kind.qos = 2 /\ m.state = "wait_for_pubcomp")
  BY <1>2, ToPublishType, Zenon DEF ResetState
<1> QED BY <1>1, <1>2, SMTT(30)

\* send__publish and send__pubrel produce well-formed packets.
LEMMA PacketOfType ==
    ASSUME NEW m \in Msg
    PROVE  PacketOf(m) \in Packet
  BY MsgFields, Zenon DEF PacketOf, Packet

\* Both element sets considered for the inflight list hold well-formed messages.
LEMMA InflightsSubset ==
    ASSUME NEW E \in Inflights
    PROVE  LiveMsg \subseteq E /\ E \subseteq Msg
  BY Zenon DEF Inflights, LiveMsg

\* A list of live messages, or of any messages, as a list of the larger set.
LEMMA SeqSubset ==
    ASSUME NEW S, NEW T, S \subseteq T, NEW s \in Seq(S)
    PROVE  s \in Seq(T)
  OBVIOUS

\* The clamps keep the send quota between 0 and the inflight maximum.
LEMMA QuotaType ==
    ASSUME NEW q \in 0..InflightMax, NEW n \in Nat
    PROVE  /\ Spend(q, n) \in 0..InflightMax
           /\ Refund(q, n) \in 0..InflightMax
  BY ConstantsAssumption DEF Spend, Refund, Greater, Lesser

\* The fields of the msgs_out record.
LEMMA DataFields ==
    ASSUME NEW E \in Inflights, NEW d \in Data(E)
    PROVE  /\ d \in MsgData
           /\ d.inflight \in Seq(E)
           /\ d.inflight \in Seq(Msg)
           /\ d.queued \in Seq(Msg)
           /\ d.storage \in Seq(Msg)
           /\ OldestFirst(d.storage)
           /\ d.inflight_quota \in 0..InflightMax
           /\ d.msg_count12 \in Int
           /\ d.out \in Seq(Packet)
           /\ d.probing \in BOOLEAN
  BY Zenon DEF Data, MsgData

-----------------------------------------------------------------------------
(* The write functions                                                     *)

LEMMA DequeueType ==
    ASSUME NEW E \in Inflights, NEW d \in Data(E), NEW n \in 0..Len(d.queued)
    PROVE  Dequeue(d, n) \in Data(E)
<1> DEFINE moved == [i \in 1..n |-> ToPublish(d.queued[i])]
<1>1. moved \in Seq(E)
  <2>1. ASSUME NEW i \in 1..n PROVE ToPublish(d.queued[i]) \in E
    <3>1. d.queued[i] \in Msg
      BY DataFields
    <3> QED BY <3>1, ToPublishType, InflightsSubset, Zenon
  <2> QED BY <2>1, DataFields
<1>2. d.inflight \o moved \in Seq(E)
  BY <1>1, DataFields
<1>3. d.inflight \o moved \in Seq(Msg)
  BY <1>2, InflightsSubset, SeqSubset, Zenon
<1>4. DropFirst(d.queued, n) \in Seq(Msg)
  BY DataFields, TakeDropProperties, Zenon
<1>5. Spend(d.inflight_quota, n) \in 0..InflightMax
  BY DataFields, QuotaType
<1> HIDE DEF moved
<1>6. Dequeue(d, n) = [d EXCEPT !.inflight = d.inflight \o moved,
                                !.queued = DropFirst(d.queued, n),
                                !.inflight_quota = Spend(d.inflight_quota, n)]
  BY Zenon DEF Dequeue, moved
<1> QED BY <1>2, <1>3, <1>4, <1>5, <1>6, ZenonT(40) DEF Data, MsgData

\* db__message_write_queued_out keeps msgs_out well-formed.
LEMMA WriteQueuedType ==
    ASSUME NEW E \in Inflights, NEW d \in Data(E)
    PROVE  db__message_write_queued_out(d) \in Data(E)
<1>1. Len(d.queued) \in Nat /\ d.inflight_quota \in Nat
  BY DataFields, ConstantsAssumption
<1> QED BY <1>1, DequeueType DEF db__message_write_queued_out, Lesser

\* Because the storage list is oldest first, the messages that are due are its
\* first ones: the messages the loop prepares are the messages it moves.
LEMMA DueIsPrefix ==
    ASSUME Counting, NEW s \in Seq(Msg), OldestFirst(s), NEW md,
           NEW i \in 1..Cardinality({h \in DOMAIN s : s[h].age > StoreTimeout \/ md = "normal"})
    PROVE  LET Due == {h \in DOMAIN s : s[h].age > StoreTimeout \/ md = "normal"}
           IN  i \in Due /\ Rank(Due, i) <= i
<1> DEFINE Due == {h \in DOMAIN s : s[h].age > StoreTimeout \/ md = "normal"}
           n == Len(s)
<1>1. n \in Nat /\ DOMAIN s = 1..n
  OBVIOUS
<1>2. Due \in SUBSET (1..n)
  BY <1>1, Zenon
<1>3. \A h \in DOMAIN s : s[h].age \in Int
  BY MsgFields
<1>4. ASSUME NEW h \in Due, NEW g \in 1..n, g <= h PROVE g \in Due
  <2>1. h \in DOMAIN s /\ g \in DOMAIN s
    BY <1>1, Zenon
  <2>2. g = h \/ s[g].age >= s[h].age
    BY <1>1, <1>4, <2>1 DEF OldestFirst
  <2> QED BY <1>3, <1>4, <2>1, <2>2, ConstantsAssumption, SMTT(30)
<1> HIDE DEF Due, n
<1>5. \A h \in 1..Cardinality(Due) : h \in Due /\ Rank(Due, h) <= h
  BY <1>1, <1>2, <1>4, PrefixProperties, Zenon
<1> QED BY <1>5, Zenon DEF Due

\* db__message_write_storage_out keeps msgs_out well-formed and the storage list ordered.
LEMMA WriteStorageType ==
    ASSUME Counting, NEW E \in Inflights, NEW d \in Data(E), NEW md
    PROVE  db__message_write_storage_out(d, md) \in Data(E)
<1> DEFINE s       == d.storage
           Due     == {h \in DOMAIN s : s[h].age > StoreTimeout \/ md = "normal"}
           moved   == Cardinality(Due)
           flying  == IF InflightMax = 0 THEN moved
                      ELSE Lesser(moved, d.inflight_quota)
           marked  == [i \in DOMAIN s |->
                         IF i \in Due /\ Rank(Due, i) <= flying
                         THEN ToPublish(s[i]) ELSE s[i]]
           leaving == [i \in 1..moved |-> Unstored(marked[i])]
           written == db__message_write_storage_out(d, md)
           rest    == DropFirst(marked, moved)
           sent    == TakeFirst(leaving, flying)
           waiting == DropFirst(leaving, flying)
           quota   == Spend(d.inflight_quota, flying)
<1>1. s \in Seq(Msg) /\ OldestFirst(s) /\ Len(s) \in Nat /\ DOMAIN s = 1..Len(s)
  BY DataFields
<1>2. moved \in Nat /\ moved <= Len(s)
  BY <1>1, RankProperties, Zenon
<1>3. d.inflight_quota \in Nat
  BY DataFields, ConstantsAssumption
<1>4. flying \in 0..moved
  BY <1>2, <1>3 DEF Lesser
<1>5. \A i \in DOMAIN s : s[i] \in Msg /\ ToPublish(s[i]) \in LiveMsg
                            /\ ToPublish(s[i]).age = s[i].age
  BY <1>1, ToPublishType
<1>6. \A i \in 1..moved : i \in Due /\ Rank(Due, i) <= i
  BY <1>1, DueIsPrefix, ZenonT(40)
<1>7. /\ written = [d EXCEPT !.inflight = d.inflight \o sent,
                             !.queued = d.queued \o waiting,
                             !.storage = rest,
                             !.inflight_quota = quota]
  BY Zenon DEF db__message_write_storage_out
<1>8. /\ DOMAIN marked = DOMAIN s
      /\ \A i \in DOMAIN s : marked[i] = IF i \in Due /\ Rank(Due, i) <= flying
                                         THEN ToPublish(s[i]) ELSE s[i]
  BY Zenon
<1>9. DOMAIN leaving = 1..moved /\ \A i \in 1..moved : leaving[i] = Unstored(marked[i])
  BY Zenon
<1>10. quota \in 0..InflightMax
  BY <1>2, <1>4, DataFields, QuotaType
<1>11. marked = [i \in DOMAIN s |-> marked[i]] /\ leaving = [i \in 1..moved |-> leaving[i]]
  OBVIOUS
<1>12. Due \subseteq DOMAIN s
  BY Zenon
<1> HIDE DEF s, Due, moved, flying, marked, leaving, written, quota
<1>13. ASSUME NEW i \in DOMAIN s
       PROVE  marked[i] \in Msg /\ marked[i].age = s[i].age
  BY <1>5, <1>8, Zenon DEF LiveMsg
<1>14. marked \in Seq(Msg) /\ Len(marked) = Len(s)
  BY <1>1, <1>11, <1>13, SMTT(30)
<1>15. ASSUME NEW i \in 1..moved PROVE leaving[i] \in Msg
  <2>1. marked[i] \in Msg
    BY <1>6, <1>12, <1>13, SMTT(30)
  <2> QED BY <1>9, <2>1, UnstoredType, SMTT(30)
<1>16. leaving \in Seq(Msg) /\ Len(leaving) = moved
  BY <1>2, <1>11, <1>15, SMTT(30)
<1>17. ASSUME NEW i \in 1..flying PROVE leaving[i] \in LiveMsg
  <2>1. i \in 1..moved /\ flying \in Int
    BY <1>2, <1>4
  <2>2. i \in Due /\ Rank(Due, i) <= i
    BY <1>6, <2>1, Zenon
  <2>3. Rank(Due, i) <= flying
    <3>1. Rank(Due, i) \in Int
      BY <1>1, <1>12, <2>2, RankProperties, <1>2, SMTT(30) DEF moved
    <3> QED BY <2>1, <2>2, <3>1, SMTT(30)
  <2>4. marked[i] = ToPublish(s[i]) /\ marked[i] \in LiveMsg
    BY <1>5, <1>8, <1>12, <2>2, <2>3, SMTT(30)
  <2>5. marked[i] \in Msg
    BY <2>4, SMTT(30) DEF LiveMsg
  <2> QED BY <1>9, <2>1, <2>4, <2>5, UnstoredType, SMTT(30)
<1>18. /\ sent \in Seq(Msg) /\ Len(sent) = flying
       /\ \A i \in 1..flying : sent[i] = leaving[i]
       /\ waiting \in Seq(Msg)
  BY <1>4, <1>16, TakeDropProperties, SMTT(30)
<1>19. /\ rest \in Seq(Msg) /\ Len(rest) = Len(s) - moved
       /\ \A i \in 1..(Len(s) - moved) : rest[i] = marked[moved + i]
  <2>1. moved \in 0..Len(marked)
    BY <1>1, <1>2, <1>14, SMTT(30)
  <2> QED BY <1>14, <2>1, TakeDropProperties, SMTT(30)
<1> HIDE DEF sent, waiting, rest
<1>20. sent \in Seq(E)
  <2>1. \A i \in 1..flying : sent[i] \in E
    BY <1>17, <1>18, InflightsSubset, Zenon
  <2>2. sent = [i \in 1..flying |-> sent[i]]
    BY <1>18, SMTT(30)
  <2> QED BY <1>2, <1>4, <2>1, <2>2, SMTT(30)
<1>21. OldestFirst(rest)
  <2> SUFFICES ASSUME NEW i \in DOMAIN rest, NEW j \in DOMAIN rest, i < j
               PROVE  rest[i].age >= rest[j].age
    BY Zenon DEF OldestFirst
  <2>1. /\ i \in 1..(Len(s) - moved) /\ j \in 1..(Len(s) - moved)
    BY <1>19
  <2>2. /\ moved + i \in DOMAIN s /\ moved + j \in DOMAIN s
        /\ moved + i < moved + j
    BY <1>1, <1>2, <2>1, SMTT(30)
  <2>3. s[moved + i].age >= s[moved + j].age
    BY <1>1, <2>2, SMTT(30) DEF OldestFirst
  <2> QED BY <1>13, <1>19, <2>1, <2>2, <2>3, SMTT(30)
<1>22. d.inflight \o sent \in Seq(E) /\ d.queued \o waiting \in Seq(Msg)
  BY <1>18, <1>20, DataFields, SMTT(30)
<1>23. d.inflight \o sent \in Seq(Msg)
  BY <1>22, InflightsSubset, SeqSubset, Zenon
<1>24. written \in Data(E)
  BY <1>7, <1>10, <1>19, <1>21, <1>22, <1>23, Zenon DEF Data, MsgData
<1> QED BY <1>24, Zenon DEF written

\* Where a traversal of the inflight list ends.
LEMMA LastSentType ==
    ASSUME Counting, NEW l, Len(l) \in Nat, NEW from \in 1..(Len(l) + 1), NEW s
    PROVE  LastSent(l, from, s) \in 0..Len(l)
<1>1. CASE ~SendFails(l, from, s)
  BY <1>1 DEF LastSent
<1>2. CASE SendFails(l, from, s)
  <2> DEFINE n == Len(l)
             K == {i \in 1..n : i >= from /\ Transmitted(l[i])}
             First(i) == /\ i \in from..n
                         /\ Transmitted(l[i])
                         /\ \A j \in from..(i - 1) : ~Transmitted(l[j])
  <2>1. PICK i \in from..n : Transmitted(l[i])
    BY <1>2, Zenon DEF SendFails
  <2>2. i \in K
    BY <2>1
  <2>3. PICK k \in K : \A j \in K : k <= j
    BY <2>2, FirstLastExist, Zenon
  <2>4. First(k)
    <3>1. ASSUME NEW j \in from..(k - 1) PROVE ~Transmitted(l[j])
      <4>1. j \in 1..n /\ j >= from /\ ~(k <= j)
        OBVIOUS
      <4>2. j \notin K
        BY <2>3, <4>1, Zenon
      <4> QED BY <4>1, <4>2, Zenon
    <3> QED BY <2>3, <3>1
  <2>5. LastSent(l, from, s) = (CHOOSE j \in from..n : First(j)) - 1
    BY <1>2, ZenonT(40) DEF LastSent
  <2>6. (CHOOSE j \in from..n : First(j)) \in from..n
    BY <2>4, Zenon
  <2> QED BY <2>5, <2>6
<1> QED BY <1>1, <1>2, Zenon

\* Where db__message_write_inflight_out_latest begins.
LEMMA LatestFromType ==
    ASSUME Counting, NEW l, Len(l) \in Nat
    PROVE  LatestFrom(l) \in 1..(Len(l) + 1)
<1> DEFINE n == Len(l)
           K == {i \in 1..n : i >= 2 /\ l[i].state \notin PublishStates}
           Last(i) == /\ l[i].state \notin PublishStates
                      /\ \A j \in (i + 1)..n : l[j].state \in PublishStates
<1>1. CASE \A i \in 2..n : l[i].state \in PublishStates
  BY <1>1 DEF LatestFrom
<1>2. CASE ~(\A i \in 2..n : l[i].state \in PublishStates)
  <2>1. K # {}
    BY <1>2
  <2>2. PICK k \in K : \A j \in K : j <= k
    BY <2>1, FirstLastExist, Zenon
  <2>3. k \in 2..n /\ Last(k)
    <3>1. ASSUME NEW j \in (k + 1)..n PROVE l[j].state \in PublishStates
      <4>1. j \in 1..n /\ j >= 2 /\ ~(j <= k)
        OBVIOUS
      <4>2. j \notin K
        BY <2>2, <4>1, Zenon
      <4> QED BY <4>1, <4>2, Zenon
    <3> QED BY <3>1
  <2>4. LatestFrom(l) = 1 + CHOOSE i \in 2..n : Last(i)
    BY <1>2, Zenon DEF LatestFrom
  <2>5. (CHOOSE i \in 2..n : Last(i)) \in 2..n
    BY <2>3, Zenon
  <2> QED BY <2>4, <2>5
<1> QED BY <1>1, <1>2, Zenon

\* Writing the inflight list from any position on keeps msgs_out well-formed.
LEMMA WriteFromType ==
    ASSUME Counting, NEW E \in Inflights, NEW d \in Data(E),
           NEW from \in 1..(Len(d.inflight) + 1), NEW s
    PROVE  WriteFrom(d, from, s) \in Data(E)
<1> DEFINE l       == d.inflight
           to      == LastSent(l, from, s)
           Handled == from..to
           Kept    == {i \in DOMAIN l : i \notin Handled \/ ~Dropped(l[i])}
           Sending == {i \in Handled : Transmitted(l[i])}
           Counted == CountedRemovals(l, Handled)
           Freed   == {i \in Handled : l[i].kind.qos > 0 /\ Expired(l[i])}
           after   == [i \in DOMAIN l |->
                         IF i \in Handled THEN AfterSend(l[i]) ELSE l[i]]
           packets == [i \in DOMAIN l |-> PacketOf(l[i])]
           probing == d.probing \/ \E i \in from..Lesser(to + 1, Len(l)) :
                                     /\ l[i].state \in PublishStates
                                     /\ l[i].kind.latency
                                     /\ ~Expired(l[i])
           inflight == Pick(after, Kept)
           out      == d.out \o Pick(packets, Sending)
           quota    == Refund(d.inflight_quota, Cardinality(Freed))
           count    == d.msg_count12 - Cardinality(Counted)
<1>1. l \in Seq(E) /\ l \in Seq(Msg) /\ Len(l) \in Nat /\ DOMAIN l = 1..Len(l)
  BY DataFields
<1>2. to \in 0..Len(l) /\ from \in 1..(Len(l) + 1)
  BY <1>1, LastSentType, Zenon
<1>3. WriteFrom(d, from, s) = [d EXCEPT !.inflight = inflight, !.out = out,
                                        !.inflight_quota = quota,
                                        !.msg_count12 = count,
                                        !.probing = probing]
  BY Zenon DEF WriteFrom
<1>4. inflight \in Seq(E)
  <2>1. \A i \in DOMAIN l : l[i] \in E /\ AfterSend(l[i]) \in E
    BY <1>1, AfterSendType
  <2> HIDE DEF Handled
  <2>2. after \in Seq(E) /\ DOMAIN after = DOMAIN l
    BY <1>1, <2>1
  <2>3. Kept \in SUBSET DOMAIN after
    BY <2>2, SMTT(30)
  <2> HIDE DEF after, Kept
  <2> QED BY <2>2, <2>3, PickProperties, Zenon
<1>5. inflight \in Seq(Msg)
  BY <1>4, InflightsSubset, SeqSubset, SMTT(30)
<1>6. out \in Seq(Packet)
  <2>1. \A i \in DOMAIN l : PacketOf(l[i]) \in Packet
    BY <1>1, PacketOfType, SMTT(30)
  <2>2. packets \in Seq(Packet) /\ DOMAIN packets = DOMAIN l
    BY <1>1, <2>1, SMTT(30)
  <2>3. Sending \in SUBSET DOMAIN packets
    BY <1>1, <1>2, <2>2, SMTT(30)
  <2> HIDE DEF packets, Sending
  <2>4. Pick(packets, Sending) \in Seq(Packet)
    BY <2>2, <2>3, PickProperties, SMTT(30)
  <2> QED BY <2>4, DataFields, SMTT(30)
<1>7. IsFiniteSet(Handled)
  BY <1>1, <1>2, FiniteInterval, SMTT(30)
<1>8. Cardinality(Freed) \in Nat /\ Cardinality(Counted) \in Nat
  <2>1. Freed \in SUBSET Handled /\ Counted \in SUBSET Handled
    BY Zenon DEF CountedRemovals
  <2> HIDE DEF Freed, Counted, Handled
  <2>2. IsFiniteSet(Freed) /\ IsFiniteSet(Counted)
    BY <1>7, <2>1, FiniteSubset, SMTT(30)
  <2> QED BY <2>2, FiniteCount, SMTT(30)
<1>9. quota \in 0..InflightMax /\ count \in Int
  <2> HIDE DEF Freed, Counted
  <2> QED BY <1>8, DataFields, QuotaType, SMTT(30)
<1>10. probing \in BOOLEAN
  BY DataFields, Zenon
<1> HIDE DEF inflight, out, quota, count, probing
<1> QED BY <1>3, <1>4, <1>5, <1>6, <1>9, <1>10, ZenonT(40) DEF Data, MsgData

\* The two functions that write the inflight list keep msgs_out well-formed.
LEMMA WriteInflightType ==
    ASSUME Counting, NEW E \in Inflights, NEW d \in Data(E), NEW s
    PROVE  /\ db__message_write_inflight_out_all(d, s) \in Data(E)
           /\ db__message_write_inflight_out_latest(d, s) \in Data(E)
<1>1. Len(d.inflight) \in Nat
  BY DataFields
<1>2. /\ 1 \in 1..(Len(d.inflight) + 1)
      /\ LatestFrom(d.inflight) \in 1..(Len(d.inflight) + 1)
  BY <1>1, LatestFromType, SMTT(30)
<1> QED BY <1>2, WriteFromType, Zenon DEF db__message_write_inflight_out_all,
                                   db__message_write_inflight_out_latest

-----------------------------------------------------------------------------
(* Insertion, acknowledgement, resumption                                  *)

\* db__message_insert keeps the shape of the lists.
LEMMA EnlistType ==
    ASSUME NEW E \in Inflights, NEW d \in Data(E), NEW m \in Msg, m.age = 0, NEW place
    PROVE  Enlist(d, m, place) \in Data(E)
<1> DEFINE counted == IF m.kind.qos > 0 THEN 1 ELSE 0
           count   == d.msg_count12 + counted
           quota   == Spend(d.inflight_quota, counted)
           stored  == [m EXCEPT !.state = "storage"]
<1>1. count \in Int /\ quota \in 0..InflightMax
  <2>1. d.msg_count12 \in Int /\ d.inflight_quota \in 0..InflightMax
    BY DataFields, Zenon
  <2>2. counted \in Nat
    OBVIOUS
  <2> HIDE DEF counted
  <2>3. count \in Int
    BY <2>1, <2>2, SMTT(20)
  <2>4. quota \in 0..InflightMax
    BY <2>1, <2>2, QuotaType, Zenon
  <2> QED BY <2>3, <2>4, Zenon
<1>2. CASE place = "inflight"
  <2>1. ToPublish(m) \in E
    BY ToPublishType, InflightsSubset, Zenon
  <2>2. Append(d.inflight, ToPublish(m)) \in Seq(E)
    BY <2>1, DataFields
  <2>3. Append(d.inflight, ToPublish(m)) \in Seq(Msg)
    BY <2>2, InflightsSubset, SeqSubset, Zenon
  <2>4. Enlist(d, m, place) =
          [d EXCEPT !.msg_count12 = count, !.inflight_quota = quota,
                    !.inflight = Append(d.inflight, ToPublish(m))]
    BY <1>2, DataFields, Zenon DEF Enlist, MsgData
  <2> HIDE DEF count, quota
  <2> QED BY <1>1, <2>2, <2>3, <2>4, Zenon DEF Data, MsgData
<1>3. CASE place = "queued"
  <2>1. Append(d.queued, m) \in Seq(Msg)
    BY DataFields
  <2>2. Enlist(d, m, place) =
          [d EXCEPT !.msg_count12 = count, !.inflight_quota = quota,
                    !.queued = Append(d.queued, m)]
    BY <1>3, DataFields, Zenon DEF Enlist, MsgData
  <2> HIDE DEF count, quota
  <2> QED BY <1>1, <2>1, <2>2, Zenon DEF Data, MsgData
<1>4. CASE place = "storage"
  <2>1. stored \in Msg /\ stored.age = 0
    BY Zenon DEF Msg, States
  <2> DEFINE st == Append(d.storage, stored)
  <2> HIDE DEF stored
  <2>2. st \in Seq(Msg)
    BY <2>1, DataFields
  <2>3. OldestFirst(st)
    <3>1. /\ d.storage \in Seq(Msg) /\ OldestFirst(d.storage)
          /\ DOMAIN st = 1..(Len(d.storage) + 1)
          /\ st[Len(d.storage) + 1] = stored
          /\ \A i \in DOMAIN d.storage : st[i] = d.storage[i]
      BY DataFields
    <3>2. \A i \in DOMAIN d.storage : d.storage[i].age \in Nat
      <4>1. \A i \in DOMAIN d.storage : d.storage[i] \in Msg
        BY <3>1
      <4> QED BY <4>1, MsgFields, SMTT(30)
    <3> HIDE DEF st
    <3> SUFFICES ASSUME NEW i \in DOMAIN st, NEW j \in DOMAIN st, i < j
                 PROVE  st[i].age >= st[j].age
      BY Zenon DEF OldestFirst
    <3>3. i \in DOMAIN d.storage
      BY <3>1
    <3>4. j = Len(d.storage) + 1 \/ j \in DOMAIN d.storage
      BY <3>1
    <3> QED BY <2>1, <3>1, <3>2, <3>3, <3>4 DEF OldestFirst
  <2>4. Enlist(d, m, place) =
          [d EXCEPT !.msg_count12 = count, !.inflight_quota = quota,
                    !.storage = st]
    BY <1>4, DataFields, Zenon DEF Enlist, Store, MsgData, stored
  <2> HIDE DEF count, quota, st
  <2> QED BY <1>1, <2>2, <2>3, <2>4, ZenonT(40) DEF Data, MsgData
<1>5. CASE place \notin {"inflight", "queued", "storage"}
  BY <1>5, Zenon DEF Enlist
<1> QED BY <1>2, <1>3, <1>4, <1>5, SMTT(30)

\* The writes that follow an insertion keep msgs_out well-formed.
LEMMA UpdateType ==
    ASSUME Counting, NEW E \in Inflights, NEW d \in Data(E), NEW md, NEW s
    PROVE  Update(d, md, s) \in Data(E)
<1>1. db__message_write_inflight_out_latest(d, s) \in Data(E)
  BY WriteInflightType, Zenon
<1>2. db__message_write_storage_out(db__message_write_queued_out(
        db__message_write_inflight_out_latest(d, s)), md) \in Data(E)
  BY <1>1, WriteQueuedType, WriteStorageType, Zenon
<1>3. CASE s = "closed"
  BY <1>3, Zenon DEF Update
<1>4. CASE s # "closed" /\ LatestFails(d, s)
  BY <1>1, <1>4, Zenon DEF Update
<1>5. CASE s # "closed" /\ ~LatestFails(d, s)
  BY <1>2, <1>5, SMTT(30) DEF Update
<1> QED BY <1>3, <1>4, <1>5, SMTT(30)

\* Find returns a position of the list, or 0.
LEMMA FindType ==
    ASSUME Counting, NEW l, Len(l) \in Nat, DOMAIN l = 1..Len(l), NEW mid
    PROVE  Find(l, mid) = 0 \/ Find(l, mid) \in DOMAIN l
<1> DEFINE K == {i \in DOMAIN l : l[i].mid = mid}
           First(i) == l[i].mid = mid /\ \A j \in 1..(i - 1) : l[j].mid # mid
<1>1. CASE ~\E i \in DOMAIN l : l[i].mid = mid
  BY <1>1, Zenon DEF Find
<1>2. CASE \E i \in DOMAIN l : l[i].mid = mid
  <2>1. K # {} /\ K \in SUBSET (1..Len(l))
    BY <1>2, Zenon
  <2>2. PICK k \in K : \A j \in K : k <= j
    BY <2>1, FirstLastExist, ZenonT(40)
  <2>3. First(k)
    <3>1. ASSUME NEW j \in 1..(k - 1) PROVE l[j].mid # mid
      <4>1. j \in DOMAIN l /\ ~(k <= j)
        OBVIOUS
      <4>2. j \notin K
        BY <2>2, <4>1, Zenon
      <4> QED BY <4>1, <4>2, Zenon
    <3> QED BY <2>2, <3>1, Zenon
  <2>4. (CHOOSE i \in DOMAIN l : First(i)) \in DOMAIN l
    BY <2>2, <2>3, Zenon
  <2> QED BY <1>2, <2>4, Zenon DEF Find
<1> QED BY <1>1, <1>2, SMTT(30)

\* A list without one of its elements.
LEMMA WithoutType ==
    ASSUME NEW S, NEW l \in Seq(S), NEW i \in DOMAIN l
    PROVE  Without(l, i) \in Seq(S)
<1>1. i - 1 \in 0..Len(l) /\ i \in 0..Len(l)
  OBVIOUS
<1>2. TakeFirst(l, i - 1) \in Seq(S) /\ DropFirst(l, i) \in Seq(S)
  BY <1>1, TakeDropProperties, Zenon
<1> QED BY <1>2 DEF Without

\* The list changes of db__message_delete_outgoing keep msgs_out well-formed.
LEMMA DeleteAndDequeueType ==
    ASSUME Counting, NEW E \in Inflights, NEW d \in Data(E), NEW mid
    PROVE  DeleteAndDequeue(d, mid) \in Data(E)
<1> DEFINE i == Find(d.inflight, mid)
           e == db__message_remove(d, i)
<1>1. Len(d.inflight) \in Nat /\ DOMAIN d.inflight = 1..Len(d.inflight)
        /\ Len(d.queued) \in Nat
  BY DataFields
<1>2. ASSUME NEW ahead \in Nat PROVE Room(d, ahead) \in 0..Len(d.queued)
  BY <1>1, ConstantsAssumption, SMTT(30) DEF Room, Lesser, Greater
<1>3. i = 0 \/ i \in DOMAIN d.inflight
  BY <1>1, FindType, SMTT(30)
<1> HIDE DEF i
<1>4. CASE i = 0
  BY <1>1, <1>2, <1>4, DequeueType, SMTT(30) DEF DeleteAndDequeue, i
<1>5. CASE i # 0
  <2>1. i \in DOMAIN d.inflight /\ i - 1 \in Nat
    BY <1>1, <1>3, <1>5
  <2>2. Without(d.inflight, i) \in Seq(E) /\ Without(d.inflight, i) \in Seq(Msg)
    <3>1. d.inflight \in Seq(E) /\ d.inflight \in Seq(Msg)
      BY DataFields, Zenon
    <3> QED BY <2>1, <3>1, WithoutType, SMTT(30)
  <2>3. e = [d EXCEPT !.inflight = Without(d.inflight, i),
                      !.msg_count12 = d.msg_count12 - 1]
    BY Zenon DEF db__message_remove
  <2> HIDE DEF e
  <2>4. e \in Data(E) /\ e.queued = d.queued
    <3>1. d.msg_count12 - 1 \in Int
      BY DataFields
    <3> QED BY <2>2, <2>3, <3>1, Zenon DEF Data, MsgData
  <2>5. Dequeue(e, Room(d, i - 1)) \in Data(E)
    BY <1>2, <2>1, <2>4, DequeueType, Zenon
  <2> QED BY <1>5, <2>5, Zenon DEF DeleteAndDequeue, i, e
<1> QED BY <1>4, <1>5, Zenon

\* The number of QoS 1 and 2 messages of a list is a natural number.
LEMMA Qos12Type ==
    ASSUME Counting, NEW S, NEW l \in Seq(S)
    PROVE  Cardinality(Qos12(l)) \in Nat
<1>1. Qos12(l) \in SUBSET (1..Len(l)) /\ Len(l) \in Nat
  BY SMTT(30) DEF Qos12
<1> QED BY <1>1, RankProperties, Zenon

\* The messages that the reconnect loop prepares are those it moves, unless a
\* QoS 0 message is queued behind one for which there is no quota.
LEMMA ResetType ==
    ASSUME Counting, NEW E \in Inflights, NEW d \in Data(E), E = Msg \/ Qos0NeverQueued
    PROVE  db__message_reconnect_reset_outgoing(d) \in Data(E)
<1> DEFINE q      == d.queued
           quota  == ResetQuota(d)
           Ready  == {i \in DOMAIN q : \/ InflightMax = 0
                                       \/ i <= quota
                                       \/ q[i].kind.qos = 0}
           marked == [i \in DOMAIN q |->
                        IF i \in Ready THEN ToPublish(q[i]) ELSE q[i]]
           moved  == Cardinality(Ready)
           old    == [i \in DOMAIN d.inflight |-> ResetState(d.inflight[i])]
           sent   == TakeFirst(marked, moved)
           rest   == DropFirst(marked, moved)
           left   == Spend(quota, moved)
           count  == ResetCount(d)
<1>1. q \in Seq(Msg) /\ Len(q) \in Nat /\ DOMAIN q = 1..Len(q)
  BY DataFields
<1>2. Ready \in SUBSET (1..Len(q))
  BY <1>1, Zenon
<1>3. moved \in Nat /\ moved <= Len(q)
  BY <1>1, <1>2, RankProperties, Zenon
<1>4. quota \in 0..InflightMax /\ count \in Int
  <2>1. /\ Cardinality(Qos12(d.inflight)) \in Nat
        /\ Cardinality(Qos12(d.queued)) \in Nat
    <3>1. d.inflight \in Seq(Msg) /\ d.queued \in Seq(Msg)
      BY DataFields, Zenon
    <3> QED BY <3>1, Qos12Type, SMTT(30)
  <2>2. InflightMax \in 0..InflightMax
    BY ConstantsAssumption, SMTT(30)
  <2> QED BY <2>1, <2>2, QuotaType DEF ResetQuota, ResetCount
<1>5. left \in 0..InflightMax
  BY <1>3, <1>4, QuotaType, SMTT(30)
<1>6. \A i \in DOMAIN q : q[i] \in Msg /\ ToPublish(q[i]) \in LiveMsg
  BY <1>1, ToPublishType, SMTT(30)
<1>7. marked \in Seq(Msg) /\ Len(marked) = Len(q)
  <2> HIDE DEF Ready
  <2>1. \A i \in DOMAIN q : (IF i \in Ready THEN ToPublish(q[i]) ELSE q[i]) \in Msg
    BY <1>6, SMTT(30) DEF LiveMsg
  <2> QED BY <1>1, <2>1, SMTT(30)
<1>8. moved \in 0..Len(marked)
  BY <1>1, <1>3, <1>7, SMTT(30)
<1>9. /\ sent \in Seq(Msg) /\ Len(sent) = moved
      /\ \A i \in 1..moved : sent[i] = marked[i]
      /\ rest \in Seq(Msg)
  <2> HIDE DEF marked, moved
  <2> QED BY <1>7, <1>8, TakeDropProperties, Zenon
<1>10. sent \in Seq(E)
  <2>1. CASE E = Msg
    BY <1>9, <2>1, ZenonT(40)
  <2>2. CASE Qos0NeverQueued
    <3>1. ASSUME NEW h \in Ready, NEW g \in 1..Len(q), g <= h PROVE g \in Ready
      <4>1. g \in DOMAIN q /\ h \in DOMAIN q /\ h \in Int /\ g \in Int /\ quota \in Int
        BY <1>1, <1>4, SMTT(30)
      <4>2. InflightMax = 0 \/ h <= quota
        <5>1. q[h].kind \in Kinds /\ q[h].kind.qos \in 0..2
          BY <1>6, <4>1, MsgFields, SMTT(30)
        <5> QED BY <2>2, <5>1, SMTT(30) DEF Qos0NeverQueued
      <4>3. InflightMax = 0 \/ g <= quota
        <5> HIDE DEF quota
        <5> QED BY <3>1, <4>1, <4>2, SMTT(30)
      <4> QED BY <4>1, <4>3, SMTT(30)
    <3> HIDE DEF Ready
    <3>2. \A i \in 1..moved : i \in Ready
      BY <1>1, <1>2, <3>1, PrefixProperties, ZenonT(40)
    <3>3. \A i \in 1..moved : marked[i] \in LiveMsg
      BY <1>1, <1>2, <1>6, <3>2, SMTT(20)
    <3> HIDE DEF sent, moved, marked
    <3>4. \A i \in 1..moved : sent[i] \in E
      BY <1>9, <3>3, InflightsSubset, Zenon
    <3>5. sent = [i \in 1..moved |-> sent[i]]
      BY <1>9, SMTT(30)
    <3> QED BY <1>3, <3>4, <3>5, SMTT(30)
  <2> QED BY <2>1, <2>2, SMTT(30)
<1>11. old \in Seq(E)
  <2>1. \A i \in DOMAIN d.inflight : ResetState(d.inflight[i]) \in E
    <3>1. \A i \in DOMAIN d.inflight : d.inflight[i] \in Msg
      BY DataFields
    <3> QED BY <3>1, ResetStateType, InflightsSubset, Zenon
  <2> QED BY <2>1, DataFields, SMTT(30)
<1>12. db__message_reconnect_reset_outgoing(d) =
         [d EXCEPT !.inflight = old \o sent, !.queued = rest,
                   !.inflight_quota = left, !.msg_count12 = count]
  BY Zenon DEF db__message_reconnect_reset_outgoing
<1> HIDE DEF old, sent, rest, left, count
<1>13. old \o sent \in Seq(E)
  BY <1>10, <1>11
<1>14. old \o sent \in Seq(Msg)
  BY <1>13, InflightsSubset, SeqSubset, SMTT(30)
<1> QED BY <1>4, <1>5, <1>9, <1>12, <1>13, <1>14, ZenonT(40) DEF Data, MsgData

\* context__init sets up a well-formed record.
LEMMA FreshType ==
    ASSUME NEW E \in Inflights
    PROVE  FreshMsgData \in Data(E)
<1> DEFINE none == <<>>
<1>1. none \in Seq(Packet) /\ none \in Seq(Msg) /\ none \in Seq(E)
  OBVIOUS
<1>2. OldestFirst(none)
  BY DEF OldestFirst
<1>3. FreshMsgData = [inflight |-> none, queued |-> none, storage |-> none,
                      inflight_quota |-> InflightMax, msg_count12 |-> 0,
                      out |-> none, probing |-> FALSE]
  BY Zenon DEF FreshMsgData
<1>4. InflightMax \in 0..InflightMax
  BY ConstantsAssumption
<1> HIDE DEF none
<1> QED BY <1>1, <1>2, <1>3, <1>4, SMTT(30) DEF Data, MsgData

-----------------------------------------------------------------------------
(* Counting the messages of a list                                         *)

\* The QoS 1 and 2 messages, and how many of them a list holds.
CountedMsg == {m \in Msg : m.kind.qos > 0}
N12(l) == Cardinality(Qos12(l))

InflightCount(d) == N12(d.inflight)
QueuedCount(d) == N12(d.queued)
StoredCount(d) == N12(d.storage)

\* Qos12 as the positions of the counted messages.
LEMMA Qos12Hits ==
    ASSUME NEW l \in Seq(Msg)
    PROVE  Qos12(l) = Hits(l, CountedMsg)
<1>1. \A i \in DOMAIN l : l[i] \in Msg
  OBVIOUS
<1> QED BY <1>1, Zenon DEF Qos12, Hits, CountedMsg

\* A list counts at most as many messages as it holds, and all of them if every one
\* has QoS 1 or 2.
LEMMA N12Type ==
    ASSUME Counting, NEW l \in Seq(Msg)
    PROVE  /\ N12(l) \in Nat /\ N12(l) <= Len(l)
           /\ l \in Seq(CountedMsg) => N12(l) = Len(l)
<1>1. N12(l) \in Nat /\ N12(l) <= Len(l)
  BY Qos12Hits, HitsType, Zenon DEF N12
<1>2. ASSUME l \in Seq(CountedMsg) PROVE N12(l) = Len(l)
  <2>1. \A i \in DOMAIN l : l[i] \in CountedMsg
    BY <1>2
  <2>2. Qos12(l) = 1..Len(l)
    BY <2>1 DEF Qos12, CountedMsg
  <2>3. Len(l) \in Nat
    OBVIOUS
  <2> QED BY <2>2, <2>3, FiniteInterval, SMTT(30) DEF N12
<1> QED BY <1>1, <1>2, Zenon

\* The messages of two lists, of a prefix and a rest, and of a longer list.
LEMMA N12Parts ==
    ASSUME Counting, NEW l \in Seq(Msg)
    PROVE  /\ \A k \in Seq(Msg) : N12(l \o k) = N12(l) + N12(k)
           /\ \A n \in 0..Len(l) : N12(l) = N12(TakeFirst(l, n)) + N12(DropFirst(l, n))
           /\ \A m \in Msg : N12(Append(l, m)) = N12(l) + IF m.kind.qos > 0 THEN 1 ELSE 0
<1>1. ASSUME NEW k \in Seq(Msg) PROVE N12(l \o k) = N12(l) + N12(k)
  <2>1. l \o k \in Seq(Msg)
    OBVIOUS
  <2>2. /\ Qos12(l \o k) = Hits(l \o k, CountedMsg)
        /\ Qos12(l) = Hits(l, CountedMsg) /\ Qos12(k) = Hits(k, CountedMsg)
    BY <2>1, Qos12Hits, Zenon
  <2> QED BY <2>2, HitsConcat DEF N12
<1>2. ASSUME NEW n \in 0..Len(l)
      PROVE  N12(l) = N12(TakeFirst(l, n)) + N12(DropFirst(l, n))
  <2>1. TakeFirst(l, n) \in Seq(Msg) /\ DropFirst(l, n) \in Seq(Msg)
    BY TakeDropProperties, Zenon
  <2> QED BY <2>1, Qos12Hits, HitsSplit DEF N12
<1>3. ASSUME NEW m \in Msg
      PROVE  N12(Append(l, m)) = N12(l) + IF m.kind.qos > 0 THEN 1 ELSE 0
  <2> DEFINE k == <<m>>
  <2>1. k \in Seq(Msg) /\ Append(l, m) = l \o k
    OBVIOUS
  <2>2. Qos12(k) = IF m.kind.qos > 0 THEN {1} ELSE {}
    <3>1. DOMAIN k = {1} /\ k[1] = m
      OBVIOUS
    <3> QED BY <3>1, Zenon DEF Qos12
  <2>3. N12(k) = IF m.kind.qos > 0 THEN 1 ELSE 0
    BY <2>2, FiniteEmpty, FiniteSingleton, Zenon DEF N12
  <2> HIDE DEF k
  <2> QED BY <1>1, <2>1, <2>3, Zenon
<1> QED BY <1>1, <1>2, <1>3, Zenon

\* Changing the states, not the kinds, of messages does not change their number.
LEMMA N12Same ==
    ASSUME NEW l \in Seq(Msg), NEW k \in Seq(Msg), Len(l) = Len(k),
           \A i \in 1..Len(l) : l[i].kind = k[i].kind
    PROVE  N12(l) = N12(k)
<1>1. DOMAIN l = 1..Len(l) /\ DOMAIN k = 1..Len(l)
  OBVIOUS
<1>2. Qos12(l) = Qos12(k)
  <2>1. \A i \in 1..Len(l) : l[i].kind.qos > 0 <=> k[i].kind.qos > 0
    BY Zenon
  <2> QED BY <1>1, <2>1, Zenon DEF Qos12
<1> QED BY <1>2, Zenon DEF N12

\* No message is on an empty list.
LEMMA N12Empty ==
    ASSUME Counting
    PROVE  N12(<<>>) = 0
<1>1. Qos12(<<>>) = {}
  BY DEF Qos12
<1> QED BY <1>1, FiniteEmpty, Zenon DEF N12

-----------------------------------------------------------------------------
(* Counters and quota after the write functions                            *)

\* The numbers of msgs_out are numbers.
LEMMA CountTypes ==
    ASSUME Counting, NEW d \in Data(Msg)
    PROVE  /\ InflightCount(d) \in Nat /\ QueuedCount(d) \in Nat /\ StoredCount(d) \in Nat
           /\ d.msg_count12 \in Int /\ d.inflight_quota \in Nat
           /\ d.inflight_quota <= InflightMax
<1>1. Msg \in Inflights
  BY Zenon DEF Inflights
<1>2. /\ d.inflight \in Seq(Msg) /\ d.queued \in Seq(Msg) /\ d.storage \in Seq(Msg)
      /\ d.msg_count12 \in Int /\ d.inflight_quota \in 0..InflightMax
  BY <1>1, DataFields, Zenon
<1>3. InflightCount(d) \in Nat /\ QueuedCount(d) \in Nat /\ StoredCount(d) \in Nat
  BY <1>2, N12Type, Zenon DEF InflightCount, QueuedCount, StoredCount
<1> QED BY <1>2, <1>3, ConstantsAssumption

\* Moving messages from the queue changes neither their number nor msg_count12; one
\* unit of quota is taken for each, if there is one.
LEMMA DequeueEffect ==
    ASSUME Counting, NEW d \in Data(Msg), NEW n \in 0..Len(d.queued)
    PROVE  LET e == Dequeue(d, n) IN
           /\ e.storage = d.storage /\ e.out = d.out /\ e.probing = d.probing
           /\ e.msg_count12 = d.msg_count12
           /\ e.inflight_quota = Spend(d.inflight_quota, n)
           /\ InflightCount(e) + QueuedCount(e) = InflightCount(d) + QueuedCount(d)
           /\ InflightCount(e) >= InflightCount(d)
           /\ Len(e.queued) = Len(d.queued) - n
           /\ d.queued \in Seq(CountedMsg) =>
                e.queued \in Seq(CountedMsg) /\ InflightCount(e) = InflightCount(d) + n
<1> DEFINE e     == Dequeue(d, n)
           moved == [i \in 1..n |-> ToPublish(d.queued[i])]
           first == TakeFirst(d.queued, n)
           rest  == DropFirst(d.queued, n)
<1>1. Msg \in Inflights
  BY Zenon DEF Inflights
<1>2. /\ d.inflight \in Seq(Msg) /\ d.queued \in Seq(Msg) /\ d \in MsgData
      /\ Len(d.queued) \in Nat /\ n \in Nat
  BY <1>1, DataFields
<1>3. /\ first \in Seq(Msg) /\ Len(first) = n /\ (\A i \in 1..n : first[i] = d.queued[i])
      /\ rest \in Seq(Msg) /\ Len(rest) = Len(d.queued) - n
      /\ \A i \in 1..(Len(d.queued) - n) : rest[i] = d.queued[n + i]
  <2>1. PICK q : q = d.queued
    BY Zenon
  <2>2. q \in Seq(Msg) /\ n \in 0..Len(q)
    BY <1>2, <2>1, Zenon
  <2>3. /\ TakeFirst(q, n) \in Seq(Msg) /\ Len(TakeFirst(q, n)) = n
        /\ \A i \in 1..n : TakeFirst(q, n)[i] = q[i]
        /\ DropFirst(q, n) \in Seq(Msg) /\ Len(DropFirst(q, n)) = Len(q) - n
        /\ \A i \in 1..(Len(q) - n) : DropFirst(q, n)[i] = q[n + i]
    BY <2>2, TakeDropProperties, Zenon
  <2> QED BY <2>1, <2>3, Zenon
<1>4. /\ e.storage = d.storage /\ e.out = d.out /\ e.probing = d.probing
      /\ e.msg_count12 = d.msg_count12
      /\ e.inflight_quota = Spend(d.inflight_quota, n)
      /\ e.inflight = d.inflight \o moved /\ e.queued = rest
  <2> DEFINE infl  == d.inflight \o moved
             quota == Spend(d.inflight_quota, n)
  <2>1. e = [d EXCEPT !.inflight = infl, !.queued = rest, !.inflight_quota = quota]
    BY Zenon DEF Dequeue
  <2> HIDE DEF infl, quota, rest, e
  <2>2. /\ e.storage = d.storage /\ e.out = d.out /\ e.probing = d.probing
        /\ e.msg_count12 = d.msg_count12 /\ e.inflight_quota = quota
        /\ e.inflight = infl /\ e.queued = rest
    BY <1>2, <2>1, Zenon DEF MsgData
  <2> QED BY <2>2, Zenon DEF infl, quota
<1>5. \A i \in 1..n : d.queued[i] \in Msg /\ ToPublish(d.queued[i]) \in Msg
                        /\ ToPublish(d.queued[i]).kind = d.queued[i].kind
  <2>1. ASSUME NEW m \in Msg PROVE ToPublish(m) \in Msg /\ ToPublish(m).kind = m.kind
    <3>1. ToPublish(m) \in Msg
      BY ToPublishType, Zenon DEF LiveMsg
    <3>2. ToPublish(m).kind = m.kind
      BY Zenon DEF ToPublish, Msg
    <3> QED BY <3>1, <3>2, Zenon
  <2>2. \A i \in 1..n : d.queued[i] \in Msg
    BY <1>2
  <2> QED BY <2>1, <2>2, Zenon
<1>6. moved \in Seq(Msg) /\ Len(moved) = n /\ \A i \in 1..n : moved[i].kind = first[i].kind
  BY <1>2, <1>3, <1>5
<1> HIDE DEF moved, e, first, rest
<1>7. N12(moved) = N12(first)
  BY <1>3, <1>6, N12Same, Zenon
<1>8. N12(d.queued) = N12(first) + N12(rest)
  BY <1>2, N12Parts, Zenon DEF first, rest
<1>9. N12(d.inflight \o moved) = N12(d.inflight) + N12(moved)
  BY <1>2, <1>6, N12Parts, Zenon
<1>10. /\ InflightCount(e) = InflightCount(d) + N12(first)
       /\ QueuedCount(e) + N12(first) = QueuedCount(d)
       /\ N12(first) \in Nat /\ InflightCount(d) \in Nat /\ QueuedCount(e) \in Nat
  <2>1. N12(first) \in Nat /\ N12(rest) \in Nat /\ N12(d.inflight) \in Nat
    BY <1>2, <1>3, N12Type, Zenon
  <2> QED BY <1>4, <1>7, <1>8, <1>9, <2>1 DEF InflightCount, QueuedCount
<1>11. ASSUME d.queued \in Seq(CountedMsg)
       PROVE  e.queued \in Seq(CountedMsg) /\ InflightCount(e) = InflightCount(d) + n
  <2>1. first \in Seq(CountedMsg) /\ rest \in Seq(CountedMsg)
    BY <1>11, TakeDropProperties, Zenon DEF first, rest
  <2>2. N12(first) = n
    BY <1>3, <2>1, N12Type, Zenon
  <2> QED BY <1>4, <1>10, <2>1, <2>2, Zenon
<1>12. /\ InflightCount(e) + QueuedCount(e) = InflightCount(d) + QueuedCount(d)
       /\ InflightCount(e) >= InflightCount(d)
       /\ Len(e.queued) = Len(d.queued) - n
  BY <1>3, <1>4, <1>10
<1> QED BY <1>4, <1>11, <1>12, Zenon DEF e

\* Sending changes the state and the duplicate flag of a message only.
LEMMA AfterSendKind ==
    ASSUME NEW m \in Msg
    PROVE  AfterSend(m) \in Msg /\ AfterSend(m).kind = m.kind
<1>1. AfterSend(m) \in Msg
  BY AfterSendType, Zenon DEF Inflights
<1>2. AfterSend(m).kind = m.kind
  BY Zenon DEF AfterSend, Msg
<1> QED BY <1>1, <1>2, Zenon

\* No message is too large for the client.
NoOversize == \A k \in Kinds : ~k.oversize

\* The messages that a traversal of the inflight list removes: msg_count12 goes down
\* by the number c of QoS 1 and 2 messages among them, the quota up by the number f of
\* those that expired.
LEMMA WriteFromEffect ==
    ASSUME Counting, NEW d \in Data(Msg), NEW from \in 1..(Len(d.inflight) + 1), NEW s
    PROVE  LET e == WriteFrom(d, from, s) IN
           /\ e.storage = d.storage /\ e.queued = d.queued
           /\ (\A k \in Kinds : ~k.latency) => e.probing = d.probing
           /\ \E c, f \in Nat :
                /\ InflightCount(e) = InflightCount(d) - c
                /\ e.msg_count12 = d.msg_count12 - c
                /\ e.inflight_quota = Refund(d.inflight_quota, f)
                /\ NoOversize => c = f
                /\ (\A m \in Msg : ~Dropped(m)) => c = 0
<1> DEFINE e       == WriteFrom(d, from, s)
           l       == d.inflight
           to      == LastSent(l, from, s)
           Handled == from..to
           Kept    == {i \in DOMAIN l : i \notin Handled \/ ~Dropped(l[i])}
           Sending == {i \in Handled : Transmitted(l[i])}
           Removed == CountedRemovals(l, Handled)
           Freed   == {i \in Handled : l[i].kind.qos > 0 /\ Expired(l[i])}
           after   == [i \in DOMAIN l |->
                         IF i \in Handled THEN AfterSend(l[i]) ELSE l[i]]
           probing == d.probing \/ \E i \in from..Lesser(to + 1, Len(l)) :
                                     /\ l[i].state \in PublishStates
                                     /\ l[i].kind.latency
                                     /\ ~Expired(l[i])
           inflight == Pick(after, Kept)
           out      == d.out \o Pick([i \in DOMAIN l |-> PacketOf(l[i])], Sending)
           quota    == Refund(d.inflight_quota, Cardinality(Freed))
           count    == d.msg_count12 - Cardinality(Removed)
           Left     == {i \in Kept : after[i] \in CountedMsg}
<1>1. Msg \in Inflights
  BY Zenon DEF Inflights
<1>2. /\ l \in Seq(Msg) /\ Len(l) \in Nat /\ DOMAIN l = 1..Len(l) /\ d \in MsgData
      /\ d.probing \in BOOLEAN /\ d.msg_count12 \in Int
  BY <1>1, DataFields
<1>3. to \in 0..Len(l) /\ from \in 1..(Len(l) + 1)
  BY <1>2, LastSentType, Zenon
<1>4. e = [d EXCEPT !.inflight = inflight, !.out = out, !.inflight_quota = quota,
                    !.msg_count12 = count, !.probing = probing]
  BY Zenon DEF WriteFrom
<1>5. Handled \subseteq DOMAIN l
  BY <1>2, <1>3, SMTT(30)
<1>6. \A i \in DOMAIN l : l[i] \in Msg /\ l[i].kind \in Kinds
  <2>1. \A i \in DOMAIN l : l[i] \in Msg
    BY <1>2
  <2> QED BY <2>1, MsgFields, Zenon
<1>7. (\A k \in Kinds : ~k.latency) => probing = d.probing
  <2> SUFFICES ASSUME \A k \in Kinds : ~k.latency PROVE probing = d.probing
    BY Zenon
  <2>1. ASSUME NEW i \in from..Lesser(to + 1, Len(l)) PROVE ~l[i].kind.latency
    <3>1. i \in DOMAIN l
      BY <1>2, <1>3, SMTT(30) DEF Lesser
    <3> QED BY <1>6, <3>1, Zenon
  <2> QED BY <1>2, <2>1, Zenon
<1> HIDE DEF e, inflight, out, quota, count, probing
<1>8. /\ e.storage = d.storage /\ e.queued = d.queued /\ e.probing = probing
      /\ e.inflight = inflight /\ e.inflight_quota = quota /\ e.msg_count12 = count
  BY <1>2, <1>4, Zenon DEF MsgData
<1> HIDE DEF Handled, to
<1>9. /\ after \in Seq(Msg) /\ DOMAIN after = DOMAIN l
      /\ \A i \in DOMAIN l : after[i].kind = l[i].kind
  <2>1. \A i \in DOMAIN l : /\ (IF i \in Handled THEN AfterSend(l[i]) ELSE l[i]) \in Msg
                            /\ (IF i \in Handled THEN AfterSend(l[i]) ELSE l[i]).kind = l[i].kind
    BY <1>6, AfterSendKind, Zenon
  <2> QED BY <1>2, <2>1
<1> HIDE DEF after
<1>10. ASSUME NEW i \in DOMAIN l PROVE after[i] \in CountedMsg <=> i \in Qos12(l)
  <2>1. after[i] \in Msg /\ after[i].kind = l[i].kind
    BY <1>9
  <2> QED BY <2>1, Zenon DEF CountedMsg, Qos12
<1>11. Qos12(l) = Left \cup Removed /\ Left \cap Removed = {}
  <2>1. \A i \in Removed : i \in DOMAIN l /\ i \in Qos12(l) /\ i \in Handled /\ Dropped(l[i])
    BY <1>5, Zenon DEF CountedRemovals, Qos12
  <2>2. \A i \in Left : i \in DOMAIN l /\ i \in Qos12(l) /\ ~(i \in Handled /\ Dropped(l[i]))
    BY <1>10, Zenon
  <2>3. ASSUME NEW i \in Qos12(l) PROVE i \in Left \/ i \in Removed
    <3>1. i \in DOMAIN l /\ l[i].kind.qos > 0
      BY Zenon DEF Qos12
    <3> QED BY <1>10, <3>1, Zenon DEF CountedRemovals
  <2> HIDE DEF Left, Removed
  <2> QED BY <2>1, <2>2, <2>3, Zenon
<1>12. Kept \in SUBSET DOMAIN after
  BY <1>9, Zenon
<1>13. N12(inflight) = Cardinality(Left)
  <2>1. inflight \in Seq(Msg)
    <3> HIDE DEF Kept
    <3> QED BY <1>9, <1>12, PickProperties, Zenon DEF inflight
  <2>2. N12(inflight) = Cardinality(Hits(inflight, CountedMsg))
    BY <2>1, Qos12Hits, Zenon DEF N12
  <2>3. Cardinality(Hits(inflight, CountedMsg)) = Cardinality(Left)
    <3> HIDE DEF Kept
    <3> QED BY <1>9, <1>12, HitsPick DEF inflight
  <2> QED BY <2>2, <2>3, Zenon
<1>14. IsFiniteSet(Qos12(l)) /\ N12(l) \in Nat
  BY <1>2, Qos12Hits, HitsType, Zenon DEF N12
<1>15. /\ Cardinality(Left) \in Nat /\ Cardinality(Removed) \in Nat
       /\ N12(l) = Cardinality(Left) + Cardinality(Removed)
  <2> HIDE DEF Left, Removed
  <2>1. IsFiniteSet(Left) /\ IsFiniteSet(Removed)
    <3>1. Left \in SUBSET Qos12(l) /\ Removed \in SUBSET Qos12(l)
      BY <1>11, Zenon
    <3> QED BY <1>14, <3>1, FiniteSubset, Zenon
  <2>2. Cardinality(Left) \in Nat /\ Cardinality(Removed) \in Nat
    BY <2>1, FiniteCount, Zenon
  <2>3. Cardinality(Left \cap Removed) = 0
    BY <1>11, FiniteEmpty, Zenon
  <2>4. Cardinality(Left \cup Removed)
          = Cardinality(Left) + Cardinality(Removed) - Cardinality(Left \cap Removed)
    BY <2>1, FiniteUnion, Zenon
  <2> QED BY <1>11, <2>2, <2>3, <2>4 DEF N12
<1>16. Cardinality(Freed) \in Nat
  <2>1. Freed \in SUBSET Qos12(l)
    BY <1>5, Zenon DEF Qos12
  <2> HIDE DEF Freed
  <2> QED BY <1>14, <2>1, FiniteSubset, FiniteCount, Zenon
<1>17. ASSUME NoOversize PROVE Removed = Freed
  <2>1. ASSUME NEW i \in Handled, l[i].kind.qos > 0 PROVE Dropped(l[i]) <=> Expired(l[i])
    <3>1. l[i].kind \in Kinds /\ l[i].kind.qos # 0
      BY <1>5, <1>6, <2>1
    <3> QED BY <1>17, <3>1, Zenon DEF NoOversize, Dropped
  <2> QED BY <2>1, Zenon DEF CountedRemovals
<1>18. /\ InflightCount(e) = InflightCount(d) - Cardinality(Removed)
       /\ e.msg_count12 = d.msg_count12 - Cardinality(Removed)
       /\ e.inflight_quota = Refund(d.inflight_quota, Cardinality(Freed))
       /\ NoOversize => Cardinality(Removed) = Cardinality(Freed)
  <2> HIDE DEF Freed, Removed, Left
  <2>1. N12(inflight) = N12(l) - Cardinality(Removed)
    BY <1>13, <1>15
  <2>2. InflightCount(e) = InflightCount(d) - Cardinality(Removed)
    BY <1>8, <2>1, Zenon DEF InflightCount
  <2> QED BY <1>8, <1>17, <2>2, Zenon DEF quota, count
<1>19. ASSUME \A m \in Msg : ~Dropped(m) PROVE Cardinality(Removed) = 0
  <2>1. Removed = {}
    BY <1>5, <1>6, <1>19, Zenon DEF CountedRemovals
  <2> HIDE DEF Removed
  <2> QED BY <2>1, FiniteEmpty, Zenon
<1> HIDE DEF Freed, Removed
<1> QED BY <1>7, <1>8, <1>15, <1>16, <1>18, <1>19, Zenon DEF e

-----------------------------------------------------------------------------
(* What the limits rest on                                                 *)

\* No probe of the transmit policy is published, or every large message is one: in
\* both cases nothing enters the storage list.
NoProbes == \A k \in Kinds : ~k.latency
StorageUnused == NoProbes \/ \A k \in Kinds : k.large => k.latency

AllQos12 == \A k \in Kinds : k.qos > 0

\* No message leaves the inflight list without giving its quota back, and no message
\* that takes none from the queue.
QuotaIsReturned == NoOversize /\ ~ClientRefuses /\ (~QueueQos0 \/ AllQos12)

\* Messages leave the inflight list by an acknowledgement only.
OnlyAcknowledged == QuotaIsReturned /\ AllQos12 /\ \A k \in Kinds : ~k.expires

\* Every unit of quota that is missing is held by an inflight message.
Balanced(d) == d.inflight_quota + InflightCount(d) >= InflightMax

\* As Balanced, with the unit that an acknowledgement has just given back.
Credited(d) == \/ d.inflight_quota = InflightMax
               \/ d.inflight_quota + InflightCount(d) >= InflightMax + 1

\* A queue has messages in flight before it.
Flowing(d) == d.queued # <<>> => InflightMax > 0 /\ InflightCount(d) >= 1

\* The inductive invariant on msgs_out; live says that the client is connected, flows
\* that the queue has been written out since.
Limits(d, live, flows) ==
    /\ d.storage = <<>>
    /\ d.msg_count12 = InflightCount(d) + QueuedCount(d)
    /\ QuotaIsReturned => /\ d.queued \in Seq(CountedMsg)
                          /\ QueueMax > 0 => QueuedCount(d) <= QueueMax
                          /\ live => Balanced(d)
    /\ OnlyAcknowledged /\ flows => Flowing(d)

\* Moving messages from the queue to the inflight list keeps the limits.
LEMMA DequeueLimits ==
    ASSUME Counting, NEW d \in Data(Msg), NEW n \in 0..Len(d.queued),
           NEW live \in BOOLEAN, NEW flows \in BOOLEAN, Limits(d, live, flows)
    PROVE  Limits(Dequeue(d, n), live, flows)
<1> DEFINE e == Dequeue(d, n)
<1>1. Msg \in Inflights
  BY Zenon DEF Inflights
<1>2. e \in Data(Msg)
  BY <1>1, DequeueType, Zenon
<1>3. d.queued \in Seq(Msg) /\ e.queued \in Seq(Msg) /\ Len(d.queued) \in Nat
        /\ Len(e.queued) \in Nat /\ n \in Nat
  BY <1>1, <1>2, DataFields
<1>4. /\ e.storage = d.storage /\ e.msg_count12 = d.msg_count12
      /\ e.inflight_quota = Spend(d.inflight_quota, n)
      /\ InflightCount(e) + QueuedCount(e) = InflightCount(d) + QueuedCount(d)
      /\ InflightCount(e) >= InflightCount(d)
      /\ Len(e.queued) = Len(d.queued) - n
      /\ d.queued \in Seq(CountedMsg) =>
           e.queued \in Seq(CountedMsg) /\ InflightCount(e) = InflightCount(d) + n
  BY DequeueEffect, Zenon
<1>5. /\ InflightCount(d) \in Nat /\ QueuedCount(d) \in Nat
      /\ d.inflight_quota \in Nat /\ InflightCount(e) \in Nat /\ QueuedCount(e) \in Nat
  BY <1>2, CountTypes, Zenon
<1> HIDE DEF e
<1>6. e.storage = <<>> /\ e.msg_count12 = InflightCount(e) + QueuedCount(e)
  BY <1>4, Zenon DEF Limits
<1>7. ASSUME QuotaIsReturned
      PROVE  /\ e.queued \in Seq(CountedMsg)
             /\ QueueMax > 0 => QueuedCount(e) <= QueueMax
             /\ live => Balanced(e)
  <2>1. d.queued \in Seq(CountedMsg) /\ (QueueMax > 0 => QueuedCount(d) <= QueueMax)
          /\ (live => Balanced(d))
    BY <1>7, Zenon DEF Limits
  <2>2. QueueMax > 0 => QueuedCount(e) <= QueueMax
    BY <1>4, <1>5, <2>1, ConstantsAssumption
  <2>3. ASSUME live PROVE Balanced(e)
    <3>1. Spend(d.inflight_quota, n) >= d.inflight_quota - n
      BY <1>3, <1>5 DEF Spend, Greater
    <3>2. Spend(d.inflight_quota, n) \in Int
      BY <1>3, <1>5 DEF Spend, Greater
    <3>3. InflightCount(e) = InflightCount(d) + n
      BY <1>4, <2>1, Zenon
    <3>4. d.inflight_quota + InflightCount(d) >= InflightMax
      BY <2>1, <2>3, Zenon DEF Balanced
    <3>5. Spend(d.inflight_quota, n) + InflightCount(e) >= InflightMax
      BY <1>3, <1>5, <3>1, <3>2, <3>3, <3>4, ConstantsAssumption
    <3> QED BY <1>4, <3>5, Zenon DEF Balanced
  <2> QED BY <1>4, <2>1, <2>2, <2>3, Zenon
<1>8. ASSUME OnlyAcknowledged, flows PROVE Flowing(e)
  <2>1. Flowing(d)
    BY <1>8, Zenon DEF Limits
  <2>2. ASSUME e.queued # <<>> PROVE d.queued # <<>>
    <3>1. Len(e.queued) # 0
      BY <1>3, <2>2
    <3>2. Len(d.queued) # 0
      BY <1>3, <1>4, <3>1
    <3> QED BY <3>2
  <2> QED BY <1>4, <1>5, <2>1, <2>2 DEF Flowing
<1> QED BY <1>6, <1>7, <1>8, Zenon DEF Limits, e

\* The number of queued messages that db__message_write_queued_out moves.
LEMMA WriteQueuedLimits ==
    ASSUME Counting, NEW d \in Data(Msg), NEW live \in BOOLEAN, NEW flows \in BOOLEAN,
           Limits(d, live, flows)
    PROVE  /\ db__message_write_queued_out(d) \in Data(Msg)
           /\ Limits(db__message_write_queued_out(d), live, flows)
           /\ live => Limits(db__message_write_queued_out(d), TRUE, TRUE)
           /\ db__message_write_queued_out(d).probing = d.probing
<1> DEFINE n == IF InflightMax = 0 THEN Len(d.queued)
                ELSE Lesser(Len(d.queued), d.inflight_quota)
           e == db__message_write_queued_out(d)
<1>1. Msg \in Inflights
  BY Zenon DEF Inflights
<1>2. d.queued \in Seq(Msg) /\ Len(d.queued) \in Nat /\ d.inflight_quota \in Nat
  BY <1>1, DataFields, CountTypes
<1>3. n \in 0..Len(d.queued) /\ e = Dequeue(d, n)
  BY <1>2 DEF Lesser, db__message_write_queued_out
<1>4. e \in Data(Msg) /\ e.probing = d.probing /\ Limits(e, live, flows)
  BY <1>1, <1>3, DequeueType, DequeueEffect, DequeueLimits
<1>5. ASSUME live, OnlyAcknowledged PROVE Flowing(e)
  <2> SUFFICES ASSUME e.queued # <<>> PROVE InflightMax > 0 /\ InflightCount(e) >= 1
    BY Zenon DEF Flowing
  <2>1. QuotaIsReturned
    BY <1>5, Zenon DEF OnlyAcknowledged
  <2>2. d.queued \in Seq(CountedMsg) /\ Balanced(d)
    BY <1>5, <2>1, Zenon DEF Limits
  <2>3. e.queued \in Seq(Msg)
    BY <1>1, <1>4, DataFields, Zenon
  <2>4. Len(e.queued) = Len(d.queued) - n /\ InflightCount(e) = InflightCount(d) + n
    BY <1>3, <2>2, DequeueEffect, Zenon
  <2>5. Len(e.queued) # 0
    BY <2>3
  <2>6. InflightMax > 0 /\ n = d.inflight_quota
    BY <1>2, <2>4, <2>5, ConstantsAssumption DEF Lesser
  <2>7. InflightCount(d) \in Nat
    BY CountTypes, Zenon
  <2> HIDE DEF n, e
  <2> QED BY <1>2, <2>2, <2>4, <2>6, <2>7, ConstantsAssumption DEF Balanced
<1>6. ASSUME live PROVE Limits(e, TRUE, TRUE)
  <2> HIDE DEF e
  <2> QED BY <1>4, <1>5, <1>6, Zenon DEF Limits
<1> QED BY <1>4, <1>6, Zenon DEF e

\* The write functions remove messages and give back the quota of those that expired.
LEMMA WriteFromLimits ==
    ASSUME Counting, NEW d \in Data(Msg), NEW from \in 1..(Len(d.inflight) + 1), NEW s,
           NEW live \in BOOLEAN, NEW flows \in BOOLEAN, Limits(d, live, flows),
           OnlyAcknowledged => expired = {}
    PROVE  Limits(WriteFrom(d, from, s), live, flows)
<1> DEFINE e == WriteFrom(d, from, s)
<1>1. Msg \in Inflights
  BY Zenon DEF Inflights
<1>2. e \in Data(Msg)
  BY <1>1, WriteFromType, Zenon
<1>3. e.storage = d.storage /\ e.queued = d.queued
  BY WriteFromEffect, Zenon
<1>4. PICK c \in Nat, f \in Nat :
        /\ InflightCount(e) = InflightCount(d) - c
        /\ e.msg_count12 = d.msg_count12 - c
        /\ e.inflight_quota = Refund(d.inflight_quota, f)
        /\ NoOversize => c = f
        /\ (\A m \in Msg : ~Dropped(m)) => c = 0
  BY WriteFromEffect, Zenon
<1>5. /\ InflightCount(d) \in Nat /\ QueuedCount(d) \in Nat
      /\ d.inflight_quota \in Nat /\ d.inflight_quota <= InflightMax
      /\ InflightCount(e) \in Nat /\ QueuedCount(e) \in Nat
  BY <1>2, CountTypes, Zenon
<1> HIDE DEF e
<1>6. QueuedCount(e) = QueuedCount(d)
  BY <1>3, Zenon DEF QueuedCount
<1>7. e.storage = <<>> /\ e.msg_count12 = InflightCount(e) + QueuedCount(e)
  BY <1>3, <1>4, <1>5, <1>6 DEF Limits
<1>8. ASSUME QuotaIsReturned, live, Balanced(d) PROVE Balanced(e)
  <2>1. c = f
    BY <1>4, <1>8, Zenon DEF QuotaIsReturned
  <2>2. \/ Refund(d.inflight_quota, f) = InflightMax
        \/ Refund(d.inflight_quota, f) = d.inflight_quota + f
    BY <1>5, ConstantsAssumption DEF Refund, Greater, Lesser
  <2> QED BY <1>4, <1>5, <1>8, <2>1, <2>2, ConstantsAssumption DEF Balanced
<1>9. ASSUME OnlyAcknowledged PROVE InflightCount(e) = InflightCount(d)
  <2>1. ASSUME NEW m \in Msg PROVE ~Dropped(m)
    <3>1. m.kind \in Kinds
      BY MsgFields, Zenon
    <3>2. m.kind.qos # 0 /\ ~m.kind.oversize
      BY <1>9, <3>1 DEF OnlyAcknowledged, QuotaIsReturned, NoOversize, AllQos12
    <3> QED BY <1>9, <3>2, Zenon DEF Dropped, Expired
  <2> QED BY <1>4, <1>5, <2>1
<1>10. ASSUME OnlyAcknowledged, flows PROVE Flowing(e)
  BY <1>3, <1>9, <1>10, Zenon DEF Flowing, Limits
<1> QED BY <1>3, <1>6, <1>7, <1>8, <1>10, Zenon DEF Limits, e

\* The two ways in which the inflight list is written out keep the limits.
LEMMA WriteInflightLimits ==
    ASSUME Counting, NEW d \in Data(Msg), NEW s,
           NEW live \in BOOLEAN, NEW flows \in BOOLEAN, Limits(d, live, flows),
           OnlyAcknowledged => expired = {}
    PROVE  /\ Limits(db__message_write_inflight_out_all(d, s), live, flows)
           /\ Limits(db__message_write_inflight_out_latest(d, s), live, flows)
           /\ NoProbes =>
                /\ db__message_write_inflight_out_all(d, s).probing = d.probing
                /\ db__message_write_inflight_out_latest(d, s).probing = d.probing
<1>1. Msg \in Inflights
  BY Zenon DEF Inflights
<1>2. d.inflight \in Seq(Msg)
  BY <1>1, DataFields, Zenon
<1>3. 1 \in 1..(Len(d.inflight) + 1) /\ LatestFrom(d.inflight) \in 1..(Len(d.inflight) + 1)
  BY <1>2, LatestFromType
<1>4. ASSUME NEW from \in 1..(Len(d.inflight) + 1)
      PROVE  /\ Limits(WriteFrom(d, from, s), live, flows)
             /\ NoProbes => WriteFrom(d, from, s).probing = d.probing
  <2>1. Limits(WriteFrom(d, from, s), live, flows)
    BY WriteFromLimits, Zenon
  <2>2. NoProbes => WriteFrom(d, from, s).probing = d.probing
    BY WriteFromEffect, Zenon DEF NoProbes
  <2> QED BY <2>1, <2>2, Zenon
<1> QED BY <1>3, <1>4, Zenon
        DEF db__message_write_inflight_out_all, db__message_write_inflight_out_latest

\* Nothing can be taken from an empty list.
LEMMA NothingToTake ==
    TakeFirst(<<>>, 0) = <<>> /\ DropFirst(<<>>, 0) = <<>> /\ <<>> \in Seq(Msg)
<1>1. ASSUME NEW s \in Seq(Msg), NEW n \in 0..Len(s), Len(s) = 0
      PROVE  TakeFirst(s, n) = s /\ DropFirst(s, n) = s
  <2>1. /\ TakeFirst(s, n) \in Seq(Msg) /\ Len(TakeFirst(s, n)) = n
        /\ DropFirst(s, n) \in Seq(Msg) /\ Len(DropFirst(s, n)) = Len(s) - n
    BY TakeDropProperties, Zenon
  <2>2. n = 0
    BY <1>1
  <2> QED BY <1>1, <2>1, <2>2
<1>2. <<>> \in Seq(Msg) /\ Len(<<>>) = 0 /\ 0 \in 0..Len(<<>>)
  OBVIOUS
<1> QED BY <1>1, <1>2, Zenon

\* With nothing in storage, db__message_write_storage_out changes nothing.
LEMMA WriteNoStorage ==
    ASSUME Counting, NEW d \in Data(Msg), d.storage = <<>>, NEW md
    PROVE  db__message_write_storage_out(d, md) = d
<1> DEFINE s       == d.storage
           Due     == {i \in DOMAIN s : s[i].age > StoreTimeout \/ md = "normal"}
           moved   == Cardinality(Due)
           flying  == IF InflightMax = 0 THEN moved
                      ELSE Lesser(moved, d.inflight_quota)
           marked  == [i \in DOMAIN s |->
                         IF i \in Due /\ Rank(Due, i) <= flying
                         THEN ToPublish(s[i]) ELSE s[i]]
           leaving == [i \in 1..moved |-> Unstored(marked[i])]
           none    == <<>>
<1>1. Msg \in Inflights
  BY Zenon DEF Inflights
<1>2. /\ d.inflight \in Seq(Msg) /\ d.queued \in Seq(Msg) /\ d \in MsgData
      /\ d.inflight_quota \in Nat
  BY <1>1, DataFields, CountTypes, Zenon
<1>3. DOMAIN s = {} /\ Due = {}
  BY SMTT(30)
<1>4. moved = 0 /\ flying = 0
  BY <1>2, <1>3, FiniteEmpty, SMTT(30) DEF Lesser
<1>5. marked = none
  <2>1. ASSUME NEW S, S = {}
        PROVE  [i \in S |-> IF i \in Due /\ Rank(Due, i) <= flying
                            THEN ToPublish(s[i]) ELSE s[i]] = <<>>
    <3> HIDE DEF Due, flying
    <3> QED BY <2>1
  <2> QED BY <1>3, <2>1, Zenon
<1> HIDE DEF marked, moved, flying
<1>6. leaving = none
  BY <1>4, SMTT(30)
<1> HIDE DEF leaving
<1>7. TakeFirst(none, 0) = none /\ DropFirst(none, 0) = none /\ none \in Seq(Msg)
  BY NothingToTake, Zenon
<1>8. Spend(d.inflight_quota, 0) = d.inflight_quota
  BY <1>2 DEF Spend, Greater
<1>9. d.inflight \o none = d.inflight /\ d.queued \o none = d.queued
  BY <1>2
<1>10. db__message_write_storage_out(d, md) =
         [d EXCEPT !.inflight = d.inflight \o TakeFirst(leaving, flying),
                   !.queued = d.queued \o DropFirst(leaving, flying),
                   !.storage = DropFirst(marked, moved),
                   !.inflight_quota = Spend(d.inflight_quota, flying)]
  BY Zenon DEF db__message_write_storage_out, marked, moved, flying, leaving
<1>11. db__message_write_storage_out(d, md) =
         [d EXCEPT !.inflight = d.inflight, !.queued = d.queued,
                   !.storage = d.storage, !.inflight_quota = d.inflight_quota]
  BY <1>4, <1>5, <1>6, <1>7, <1>8, <1>9, <1>10, Zenon
<1>12. PICK a, b, c, q : a = d.inflight /\ b = d.queued /\ c = d.storage
                            /\ q = d.inflight_quota
  BY Zenon
<1>13. [d EXCEPT !.inflight = a, !.queued = b, !.storage = c, !.inflight_quota = q] = d
  BY <1>2, <1>12, Zenon DEF MsgData
<1> QED BY <1>11, <1>12, <1>13, Zenon

\* The list an insertion chooses, as the limits need it: the queue of a connected
\* client takes a message only when the quota is used up.
LEMMA PlaceEffect ==
    ASSUME Counting, NEW d \in Data(Msg), NEW m \in Msg, NEW md, NEW s, NEW full \in BOOLEAN,
           Place(d, m, md, s, full) = "queued"
    PROVE  /\ QueueMax = 0
              \/ d.msg_count12 - (IF s # "closed" THEN InflightMax ELSE 0) < QueueMax
           /\ m.kind.qos > 0 \/ QueueQos0
           /\ s # "closed" =>
                m.kind.qos > 0 /\ InflightMax > 0 /\ d.inflight_quota = 0
<1>1. d.inflight_quota \in Nat /\ m.kind.qos \in 0..2
  BY CountTypes, MsgFields, Zenon
<1>2. CASE s = "closed"
  <2>1. m.kind.qos > 0 \/ QueueQos0
    BY <1>1, <1>2, ConstantsAssumption, Zenon DEF Place
  <2>2. db__ready_for_queue(d, m.kind.qos, FALSE)
    BY <1>1, <1>2, <2>1, ConstantsAssumption, Zenon DEF Place
  <2> QED BY <1>2, <2>1, <2>2, Zenon DEF db__ready_for_queue
<1>3. CASE s # "closed"
  <2>1. ~db__ready_for_flight(d, m.kind.qos, full)
          /\ m.kind.qos > 0 /\ db__ready_for_queue(d, m.kind.qos, TRUE)
    BY <1>1, <1>3, ConstantsAssumption, Zenon DEF Place
  <2>2. InflightMax # 0 /\ ~(d.inflight_quota > 0)
    BY <2>1, Zenon DEF db__ready_for_flight
  <2>3. InflightMax > 0 /\ d.inflight_quota = 0
    BY <1>1, <2>2, ConstantsAssumption
  <2> QED BY <1>3, <2>1, <2>3, Zenon DEF db__ready_for_queue
<1> QED BY <1>2, <1>3, Zenon

\* With the transmit policy inactive no insertion chooses the storage list.
LEMMA NotStored ==
    ASSUME NEW d, NEW m \in Msg, NEW md, NEW s, NEW full \in BOOLEAN,
           StorageUnused, NoProbes => md = "normal"
    PROVE  Place(d, m, md, s, full) \in {"inflight", "queued", "dropped"}
<1>1. m.kind \in Kinds /\ m.kind.qos \in 0..2
  BY MsgFields, Zenon
<1>2. ~(m.kind.large /\ md = "slow" /\ ~m.kind.latency)
  BY <1>1, Zenon DEF StorageUnused
<1>3. CASE s = "closed"
  BY <1>1, <1>3, ConstantsAssumption, Zenon DEF Place
<1>4. CASE s # "closed"
  BY <1>1, <1>2, <1>4, ConstantsAssumption, Zenon DEF Place
<1> QED BY <1>3, <1>4, Zenon

\* What the insertion of a message does to the numbers.
LEMMA EnlistEffect ==
    ASSUME Counting, NEW d \in Data(Msg), NEW m \in Msg, NEW place \in {"inflight", "queued"}
    PROVE  LET e == Enlist(d, m, place)
               n == IF m.kind.qos > 0 THEN 1 ELSE 0
           IN  /\ e.storage = d.storage /\ e.probing = d.probing
               /\ e.msg_count12 = d.msg_count12 + n
               /\ e.inflight_quota = Spend(d.inflight_quota, n)
               /\ place = "inflight" => /\ InflightCount(e) = InflightCount(d) + n
                                        /\ e.queued = d.queued
               /\ place = "queued" => /\ InflightCount(e) = InflightCount(d)
                                      /\ QueuedCount(e) = QueuedCount(d) + n
                                      /\ e.queued = Append(d.queued, m)
<1> DEFINE e     == Enlist(d, m, place)
           n     == IF m.kind.qos > 0 THEN 1 ELSE 0
           count == d.msg_count12 + n
           quota == Spend(d.inflight_quota, n)
<1>1. Msg \in Inflights
  BY Zenon DEF Inflights
<1>2. d.inflight \in Seq(Msg) /\ d.queued \in Seq(Msg) /\ d \in MsgData
  BY <1>1, DataFields, Zenon
<1>3. CASE place = "inflight"
  <2> DEFINE infl == Append(d.inflight, ToPublish(m))
  <2>1. e = [[d EXCEPT !.msg_count12 = count, !.inflight_quota = quota]
               EXCEPT !.inflight = Append([d EXCEPT !.msg_count12 = count,
                                             !.inflight_quota = quota].inflight, ToPublish(m))]
    BY <1>3, Zenon DEF Enlist
  <2>2. [d EXCEPT !.msg_count12 = count, !.inflight_quota = quota].inflight = d.inflight
    BY <1>2, Zenon DEF MsgData
  <2>3. e = [[d EXCEPT !.msg_count12 = count, !.inflight_quota = quota]
               EXCEPT !.inflight = infl]
    BY <2>1, <2>2, Zenon
  <2>4. ToPublish(m) \in Msg /\ ToPublish(m).kind = m.kind
    <3>1. ToPublish(m) \in Msg
      BY ToPublishType, Zenon DEF LiveMsg
    <3>2. ToPublish(m).kind = m.kind
      BY Zenon DEF ToPublish, Msg
    <3> QED BY <3>1, <3>2, Zenon
  <2>5. N12(infl) = N12(d.inflight) + n
    BY <1>2, <2>4, N12Parts, Zenon
  <2> HIDE DEF e, infl, count, quota
  <2>6. /\ e.storage = d.storage /\ e.probing = d.probing /\ e.queued = d.queued
        /\ e.msg_count12 = count /\ e.inflight_quota = quota /\ e.inflight = infl
    BY <1>2, <2>3, Zenon DEF MsgData
  <2>7. InflightCount(e) = InflightCount(d) + n
    BY <2>5, <2>6, Zenon DEF InflightCount
  <2> QED BY <1>3, <2>6, <2>7, Zenon DEF e, count, quota
<1>4. CASE place = "queued"
  <2> DEFINE que == Append(d.queued, m)
  <2>1. e = [[d EXCEPT !.msg_count12 = count, !.inflight_quota = quota]
               EXCEPT !.queued = Append([d EXCEPT !.msg_count12 = count,
                                           !.inflight_quota = quota].queued, m)]
    BY <1>4, Zenon DEF Enlist
  <2>2. [d EXCEPT !.msg_count12 = count, !.inflight_quota = quota].queued = d.queued
    BY <1>2, Zenon DEF MsgData
  <2>3. e = [[d EXCEPT !.msg_count12 = count, !.inflight_quota = quota]
               EXCEPT !.queued = que]
    BY <2>1, <2>2, Zenon
  <2>4. N12(que) = N12(d.queued) + n
    BY <1>2, N12Parts, Zenon
  <2> HIDE DEF e, que, count, quota
  <2>5. /\ e.storage = d.storage /\ e.probing = d.probing /\ e.queued = que
        /\ e.msg_count12 = count /\ e.inflight_quota = quota /\ e.inflight = d.inflight
    BY <1>2, <2>3, Zenon DEF MsgData
  <2>6. InflightCount(e) = InflightCount(d) /\ QueuedCount(e) = QueuedCount(d) + n
    BY <2>4, <2>5, Zenon DEF InflightCount, QueuedCount
  <2> QED BY <1>4, <2>5, <2>6, Zenon DEF e, count, quota, que
<1> QED BY <1>3, <1>4, Zenon

\* A message that is inserted keeps the limits: db__ready_for_queue takes what the
\* inflight list holds for at least InflightMax messages, which Balanced says it does.
LEMMA EnlistLimits ==
    ASSUME Counting, NEW d \in Data(Msg), NEW m \in Msg, NEW md, NEW s, NEW full \in BOOLEAN,
           Limits(d, s # "closed", s # "closed"),
           Place(d, m, md, s, full) \in {"inflight", "queued"}
    PROVE  Limits(Enlist(d, m, Place(d, m, md, s, full)), s # "closed", s # "closed")
<1> DEFINE place == Place(d, m, md, s, full)
           e     == Enlist(d, m, place)
           n     == IF m.kind.qos > 0 THEN 1 ELSE 0
           live  == s # "closed"
<1>1. Msg \in Inflights
  BY Zenon DEF Inflights
<1>2. m.kind \in Kinds /\ m.kind.qos \in 0..2
  BY MsgFields, Zenon
<1>3. place = "queued" =>
        /\ QueueMax = 0 \/ d.msg_count12 - (IF live THEN InflightMax ELSE 0) < QueueMax
        /\ m.kind.qos > 0 \/ QueueQos0
        /\ live => m.kind.qos > 0 /\ InflightMax > 0 /\ d.inflight_quota = 0
  BY PlaceEffect, Zenon
<1>4. ASSUME NEW p \in {"inflight", "queued"}, p = place
      PROVE  /\ e.storage = d.storage
             /\ e.msg_count12 = d.msg_count12 + n
             /\ e.inflight_quota = Spend(d.inflight_quota, n)
             /\ p = "inflight" => /\ InflightCount(e) = InflightCount(d) + n
                                  /\ e.queued = d.queued
             /\ p = "queued" => /\ InflightCount(e) = InflightCount(d)
                                /\ QueuedCount(e) = QueuedCount(d) + n
                                /\ e.queued = Append(d.queued, m)
  <2> HIDE DEF place
  <2> QED BY <1>4, EnlistEffect, Zenon
<1>5. place = "inflight" \/ place = "queued"
  BY Zenon
<1> HIDE DEF place, e
<1>6. /\ InflightCount(d) \in Nat /\ QueuedCount(d) \in Nat
      /\ d.msg_count12 \in Int /\ d.inflight_quota \in Nat
      /\ d.inflight_quota <= InflightMax /\ n \in {0, 1}
      /\ d.msg_count12 = InflightCount(d) + QueuedCount(d) /\ d.storage = <<>>
  BY CountTypes, Zenon DEF Limits
<1>7. \/ Spend(d.inflight_quota, n) = d.inflight_quota - n
      \/ Spend(d.inflight_quota, n) = 0 /\ d.inflight_quota = 0
  BY <1>6 DEF Spend, Greater
<1> HIDE DEF n
<1>9. QuotaIsReturned => /\ d.queued \in Seq(CountedMsg)
                         /\ QueueMax > 0 => QueuedCount(d) <= QueueMax
                         /\ live => Balanced(d)
  BY Zenon DEF Limits
<1>10. OnlyAcknowledged /\ live => Flowing(d)
  BY Zenon DEF Limits
<1>11. CASE place = "inflight"
  <2>1. /\ e.storage = d.storage /\ e.msg_count12 = d.msg_count12 + n
        /\ e.inflight_quota = Spend(d.inflight_quota, n)
        /\ InflightCount(e) = InflightCount(d) + n /\ e.queued = d.queued
    BY <1>4, <1>11, Zenon
  <2>2. QueuedCount(e) = QueuedCount(d)
    BY <2>1, Zenon DEF QueuedCount
  <2>3. e.storage = <<>> /\ e.msg_count12 = InflightCount(e) + QueuedCount(e)
    BY <1>6, <2>1, <2>2
  <2>4. ASSUME Balanced(d) PROVE Balanced(e)
    <3>1. d.inflight_quota + InflightCount(d) >= InflightMax
      BY <2>4, Zenon DEF Balanced
    <3>2. Spend(d.inflight_quota, n) + InflightCount(e) >= InflightMax
      BY <1>6, <1>7, <2>1, <3>1, ConstantsAssumption, SMTT(30)
    <3> QED BY <2>1, <3>2, Zenon DEF Balanced
  <2>5. ASSUME Flowing(d) PROVE Flowing(e)
    BY <1>6, <2>1, <2>5 DEF Flowing
  <2> QED BY <1>9, <1>10, <2>1, <2>2, <2>3, <2>4, <2>5, Zenon DEF Limits, e, place
<1>12. CASE place = "queued"
  <2>1. /\ e.storage = d.storage /\ e.msg_count12 = d.msg_count12 + n
        /\ e.inflight_quota = Spend(d.inflight_quota, n)
        /\ InflightCount(e) = InflightCount(d) /\ QueuedCount(e) = QueuedCount(d) + n
        /\ e.queued = Append(d.queued, m)
    BY <1>4, <1>12, Zenon
  <2>2. e.storage = <<>> /\ e.msg_count12 = InflightCount(e) + QueuedCount(e)
    BY <1>6, <2>1
  <2>3. ASSUME QuotaIsReturned PROVE e.queued \in Seq(CountedMsg)
    <3>1. m.kind.qos > 0
      BY <1>2, <1>3, <1>12, <2>3, Zenon DEF QuotaIsReturned, AllQos12
    <3>2. m \in CountedMsg
      BY <3>1, Zenon DEF CountedMsg
    <3>3. d.queued \in Seq(CountedMsg)
      BY <1>9, <2>3, Zenon
    <3>4. Append(d.queued, m) \in Seq(CountedMsg)
      BY <3>2, <3>3
    <3> QED BY <2>1, <3>4, Zenon
  <2>4. ASSUME QuotaIsReturned, live PROVE Balanced(e) /\ InflightCount(d) >= InflightMax
    <3>1. d.inflight_quota + InflightCount(d) >= InflightMax /\ d.inflight_quota = 0
      BY <1>3, <1>9, <1>12, <2>4, Zenon DEF Balanced
    <3>2. Spend(d.inflight_quota, n) = 0
      BY <1>6, <1>7, <3>1 DEF Spend, Greater
    <3>3. InflightCount(d) >= InflightMax
      BY <1>6, <3>1, ConstantsAssumption
    <3>4. Spend(d.inflight_quota, n) + InflightCount(e) >= InflightMax
      BY <1>6, <2>1, <3>2, <3>3, ConstantsAssumption
    <3> QED BY <2>1, <3>3, <3>4, Zenon DEF Balanced
  <2>5. ASSUME QuotaIsReturned, QueueMax > 0 PROVE QueuedCount(e) <= QueueMax
    <3>1. CASE live
      BY <1>3, <1>6, <1>12, <2>1, <2>4, <2>5, <3>1, ConstantsAssumption, SMTT(30)
    <3>2. CASE ~live
      BY <1>3, <1>6, <1>12, <2>1, <2>5, <3>2, ConstantsAssumption, SMTT(30)
    <3> QED BY <3>1, <3>2, Zenon
  <2>6. ASSUME OnlyAcknowledged, live PROVE Flowing(e)
    <3>1. QuotaIsReturned
      BY <2>6, Zenon DEF OnlyAcknowledged
    <3>2. InflightMax > 0 /\ InflightCount(e) >= 1
      BY <1>3, <1>6, <1>12, <2>1, <2>4, <2>6, <3>1, ConstantsAssumption
    <3> QED BY <3>2, Zenon DEF Flowing
  <2> QED BY <2>2, <2>3, <2>4, <2>5, <2>6, Zenon DEF Limits, e, place
<1> QED BY <1>5, <1>11, <1>12, Zenon

\* Removing one QoS 1 or 2 message.
LEMMA WithoutCount ==
    ASSUME Counting, NEW l \in Seq(Msg), NEW i \in DOMAIN l, l[i].kind.qos > 0
    PROVE  /\ N12(Without(l, i)) = N12(l) - 1
           /\ Without(l, i) \in Seq(Msg) /\ Len(Without(l, i)) = Len(l) - 1
<1> DEFINE front == TakeFirst(l, i - 1)
           upto  == TakeFirst(l, i)
           back  == DropFirst(l, i)
<1>1. i \in 1..Len(l) /\ Len(l) \in Nat /\ i \in Int
  OBVIOUS
<1>2. i - 1 \in 0..Len(l) /\ i \in 0..Len(l)
  BY <1>1
<1>3. /\ front \in Seq(Msg) /\ Len(front) = i - 1 /\ \A j \in 1..(i - 1) : front[j] = l[j]
      /\ upto \in Seq(Msg) /\ Len(upto) = i /\ \A j \in 1..i : upto[j] = l[j]
      /\ back \in Seq(Msg) /\ Len(back) = Len(l) - i
  BY <1>2, TakeDropProperties, ZenonT(40)
<1> HIDE DEF front, upto, back
<1>4. l[i] \in Msg
  BY <1>1
<1>5. upto = Append(front, l[i])
  BY <1>1, <1>3, <1>4, SMTT(30)
<1>6. N12(upto) = N12(front) + 1
  BY <1>3, <1>4, <1>5, N12Parts, Zenon
<1>7. N12(l) = N12(upto) + N12(back)
  BY <1>2, N12Parts, Zenon DEF upto, back
<1>8. N12(front) \in Nat /\ N12(back) \in Nat
  BY <1>3, N12Type, Zenon
<1>9. N12(front \o back) = N12(front) + N12(back)
  BY <1>3, N12Parts, Zenon
<1>10. Without(l, i) = front \o back
  BY Zenon DEF Without, front, back
<1>11. front \o back \in Seq(Msg) /\ Len(front \o back) = Len(l) - 1
  BY <1>1, <1>3
<1>12. N12(front \o back) = N12(l) - 1
  BY <1>6, <1>7, <1>8, <1>9
<1> QED BY <1>10, <1>11, <1>12, Zenon

\* An acknowledgement: the message leaves, and the room it makes is filled from the
\* queue.
LEMMA DeleteLimits ==
    ASSUME Counting, NEW d \in Data(Msg), Limits(d, TRUE, TRUE), QuotaIsReturned => Credited(d),
           NEW mid, NEW st, NEW qos \in {1, 2}, ~DeleteRefused(d, mid, st, qos)
    PROVE  /\ Limits(DeleteAndDequeue(d, mid), TRUE, TRUE)
           /\ DeleteAndDequeue(d, mid).probing = d.probing
<1> DEFINE i == Find(d.inflight, mid)
           l == d.inflight
           e == db__message_remove(d, i)
           n == Room(d, i - 1)
           f == Dequeue(e, n)
<1>1. Msg \in Inflights
  BY Zenon DEF Inflights
<1>2. /\ l \in Seq(Msg) /\ Len(l) \in Nat /\ DOMAIN l = 1..Len(l)
      /\ d.queued \in Seq(Msg) /\ Len(d.queued) \in Nat /\ d \in MsgData
  BY <1>1, DataFields
<1>3. ASSUME NEW ahead \in Nat PROVE Room(d, ahead) \in 0..Len(d.queued)
  BY <1>2, ConstantsAssumption, SMTT(30) DEF Room, Lesser, Greater
<1>4. i = 0 \/ i \in DOMAIN l
  BY <1>2, FindType, Zenon
<1>5. CASE i = 0
  <2>1. DeleteAndDequeue(d, mid) = Dequeue(d, Room(d, Len(l)))
    BY <1>5, Zenon DEF DeleteAndDequeue
  <2>2. Room(d, Len(l)) \in 0..Len(d.queued)
    BY <1>2, <1>3, Zenon
  <2> QED BY <2>1, <2>2, DequeueEffect, DequeueLimits, Zenon
<1>6. CASE i # 0
  <2>1. DeleteAndDequeue(d, mid) = f
    BY <1>6, Zenon DEF DeleteAndDequeue
  <2>2. i \in DOMAIN l /\ i - 1 \in Nat /\ i <= Len(l) /\ i \in Nat
    BY <1>2, <1>4, <1>6
  <2>3. l[i].kind.qos > 0
    BY <1>6 DEF DeleteRefused
  <2> HIDE DEF i
  <2> DEFINE rest  == Without(l, i)
             count == d.msg_count12 - 1
  <2>4. N12(rest) = N12(l) - 1 /\ rest \in Seq(Msg) /\ Len(rest) = Len(l) - 1
    BY <1>2, <2>2, <2>3, WithoutCount, Zenon
  <2>5. e = [d EXCEPT !.inflight = rest, !.msg_count12 = count]
    BY Zenon DEF db__message_remove
  <2> HIDE DEF e
  <2>6. count \in Int
    BY CountTypes
  <2> HIDE DEF rest, count
  <2>7. /\ e \in Data(Msg) /\ e.storage = d.storage /\ e.queued = d.queued
        /\ e.inflight = rest /\ e.msg_count12 = count /\ e.probing = d.probing
        /\ e.inflight_quota = d.inflight_quota
    <3>1. e \in Data(Msg)
      BY <2>4, <2>5, <2>6, Zenon DEF Data, MsgData
    <3>2. /\ e.storage = d.storage /\ e.queued = d.queued
          /\ e.inflight = rest /\ e.msg_count12 = count /\ e.probing = d.probing
          /\ e.inflight_quota = d.inflight_quota
      BY <1>2, <2>5, Zenon DEF MsgData
    <3> QED BY <3>1, <3>2, Zenon
  <2>8. InflightCount(e) = InflightCount(d) - 1 /\ QueuedCount(e) = QueuedCount(d)
    BY <2>4, <2>7, Zenon DEF InflightCount, QueuedCount
  <2>9. /\ InflightCount(d) \in Nat /\ QueuedCount(d) \in Nat /\ d.inflight_quota \in Nat
        /\ InflightCount(e) \in Nat /\ QueuedCount(e) \in Nat
    BY <2>7, CountTypes, Zenon
  <2>10. Limits(e, TRUE, FALSE)
    <3>1. e.storage = <<>> /\ e.msg_count12 = InflightCount(e) + QueuedCount(e)
      BY <2>7, <2>8, <2>9 DEF Limits, count
    <3>2. ASSUME QuotaIsReturned PROVE Balanced(e)
      <4>1. \/ d.inflight_quota = InflightMax
            \/ d.inflight_quota + InflightCount(d) >= InflightMax + 1
        BY <3>2, Zenon DEF Credited
      <4>2. d.inflight_quota + InflightCount(e) >= InflightMax
        BY <2>8, <2>9, <4>1, ConstantsAssumption
      <4> QED BY <2>7, <4>2, Zenon DEF Balanced
    <3> QED BY <2>7, <2>8, <3>1, <3>2, Zenon DEF Limits
  <2>11. n \in 0..Len(d.queued) /\ n \in 0..Len(e.queued)
    BY <1>3, <2>2, <2>7, Zenon
  <2>12. Limits(f, TRUE, FALSE) /\ f.probing = d.probing
    <3> HIDE DEF n
    <3> QED BY <2>7, <2>10, <2>11, DequeueEffect, DequeueLimits, Zenon
  <2>13. ASSUME OnlyAcknowledged PROVE Flowing(f)
    <3> SUFFICES ASSUME f.queued # <<>> PROVE InflightMax > 0 /\ InflightCount(f) >= 1
      BY Zenon DEF Flowing
    <3>1. QuotaIsReturned /\ AllQos12
      BY <2>13, Zenon DEF OnlyAcknowledged
    <3>2. e.queued \in Seq(CountedMsg)
      BY <2>10, <3>1, Zenon DEF Limits
    <3> HIDE DEF n
    <3>3. Len(f.queued) = Len(e.queued) - n /\ InflightCount(f) = InflightCount(e) + n
      BY <2>7, <2>11, <3>2, DequeueEffect, Zenon
    <3>4. f \in Data(Msg)
      BY <1>1, <2>7, <2>11, DequeueType, Zenon
    <3> HIDE DEF f
    <3>5. f.queued \in Seq(Msg)
      BY <1>1, <3>4, DataFields, Zenon
    <3>6. Len(f.queued) # 0 /\ Len(f.queued) \in Nat
      BY <3>5
    <3>7. n \in Nat /\ n < Len(d.queued)
      BY <1>2, <2>7, <2>11, <3>3, <3>6
    <3>8. InflightMax > 0
      <4>1. d.queued # <<>>
        BY <1>2, <3>7
      <4>2. Flowing(d)
        BY <2>13, Zenon DEF Limits
      <4> QED BY <4>1, <4>2, Zenon DEF Flowing
    <3>9. n = Greater(InflightMax - (i - 1), 0)
      BY <1>2, <2>2, <3>7, <3>8, ConstantsAssumption DEF n, Room, Lesser, Greater
    <3>10. InflightCount(d) = Len(l)
      <4>1. \A m \in Msg : m \in CountedMsg
        BY <3>1, MsgFields, Zenon DEF CountedMsg, AllQos12
      <4>2. l \in Seq(CountedMsg)
        BY <1>2, <4>1
      <4> QED BY <1>2, <4>2, N12Type, Zenon DEF InflightCount
    <3>11. CASE n >= 1
      BY <2>9, <3>3, <3>7, <3>8, <3>11
    <3>12. CASE n = 0
      <4>1. i - 1 >= InflightMax
        BY <2>2, <3>9, <3>12, ConstantsAssumption DEF Greater
      <4>2. Len(l) >= 2
        BY <1>2, <2>2, <3>8, <4>1, ConstantsAssumption
      <4> QED BY <1>2, <2>8, <2>9, <3>3, <3>8, <3>10, <3>12, <4>2
    <3> QED BY <3>7, <3>11, <3>12
  <2> HIDE DEF f
  <2> QED BY <2>1, <2>12, <2>13, Zenon DEF Limits
<1> QED BY <1>5, <1>6, Zenon

\* What the limits say of a connected client they say of an absent one.
LEMMA LimitsWeaken ==
    ASSUME NEW d, NEW live \in BOOLEAN, NEW flows \in BOOLEAN, Limits(d, live, flows)
    PROVE  Limits(d, FALSE, FALSE)
  BY Zenon DEF Limits

\* The limits do not depend on the packets under way nor on the probe.
LEMMA SameLimits ==
    ASSUME NEW d, NEW e, e.inflight = d.inflight, e.queued = d.queued,
           e.storage = d.storage, e.inflight_quota = d.inflight_quota,
           e.msg_count12 = d.msg_count12,
           NEW live \in BOOLEAN, NEW flows \in BOOLEAN, Limits(d, live, flows)
    PROVE  Limits(e, live, flows)
<1>1. InflightCount(e) = InflightCount(d) /\ QueuedCount(e) = QueuedCount(d)
  BY Zenon DEF InflightCount, QueuedCount
<1>2. Balanced(d) => Balanced(e)
  BY <1>1, Zenon DEF Balanced
<1>3. Flowing(d) => Flowing(e)
  BY <1>1, Zenon DEF Flowing
<1> QED BY <1>1, <1>2, <1>3, Zenon DEF Limits

\* db__message_reconnect_reset_outgoing counts the messages afresh and gives out the
\* quota that the inflight messages leave.
LEMMA ResetLimits ==
    ASSUME Counting, NEW d \in Data(Msg), NEW live \in BOOLEAN, NEW flows \in BOOLEAN,
           Limits(d, live, flows)
    PROVE  /\ Limits(db__message_reconnect_reset_outgoing(d), TRUE, FALSE)
           /\ db__message_reconnect_reset_outgoing(d).probing = d.probing
<1> DEFINE e      == db__message_reconnect_reset_outgoing(d)
           q      == d.queued
           l      == d.inflight
           quota  == ResetQuota(d)
           Ready  == {i \in DOMAIN q : \/ InflightMax = 0
                                       \/ i <= quota
                                       \/ q[i].kind.qos = 0}
           marked == [i \in DOMAIN q |->
                        IF i \in Ready THEN ToPublish(q[i]) ELSE q[i]]
           moved  == Cardinality(Ready)
           old    == [i \in DOMAIN l |-> ResetState(l[i])]
           sent   == TakeFirst(marked, moved)
           rest   == DropFirst(marked, moved)
           infl   == old \o sent
           left   == Spend(quota, moved)
           count  == ResetCount(d)
<1>1. Msg \in Inflights
  BY Zenon DEF Inflights
<1>2. /\ q \in Seq(Msg) /\ Len(q) \in Nat /\ DOMAIN q = 1..Len(q) /\ d \in MsgData
      /\ l \in Seq(Msg) /\ Len(l) \in Nat /\ DOMAIN l = 1..Len(l)
  BY <1>1, DataFields
<1>3. moved \in Nat /\ moved <= Len(q)
  <2>1. Ready \in SUBSET (1..Len(q))
    BY <1>2, Zenon
  <2> HIDE DEF Ready
  <2> QED BY <1>2, <2>1, RankProperties, Zenon
<1>4. e = [d EXCEPT !.inflight = infl, !.queued = rest,
                    !.inflight_quota = left, !.msg_count12 = count]
  BY Zenon DEF db__message_reconnect_reset_outgoing
<1> HIDE DEF Ready, moved
<1>5. ASSUME NEW m \in Msg
      PROVE  /\ ToPublish(m) \in Msg /\ ToPublish(m).kind = m.kind
             /\ ResetState(m) \in Msg /\ ResetState(m).kind = m.kind
  <2>1. ToPublish(m) \in Msg /\ ResetState(m) \in Msg
    BY ToPublishType, ResetStateType, Zenon DEF LiveMsg
  <2>2. ToPublish(m).kind = m.kind /\ [m EXCEPT !.state = "resend_pubrel"].kind = m.kind
    BY Zenon DEF ToPublish, Msg
  <2> QED BY <2>1, <2>2, Zenon DEF ResetState
<1>6. /\ marked \in Seq(Msg) /\ Len(marked) = Len(q)
      /\ \A i \in 1..Len(q) : marked[i].kind = q[i].kind
  <2>1. \A i \in DOMAIN q : /\ (IF i \in Ready THEN ToPublish(q[i]) ELSE q[i]) \in Msg
                            /\ (IF i \in Ready THEN ToPublish(q[i]) ELSE q[i]).kind = q[i].kind
    <3>1. \A i \in DOMAIN q : q[i] \in Msg
      BY <1>2
    <3> QED BY <1>5, <3>1, Zenon
  <2> QED BY <1>2, <2>1
<1>7. /\ old \in Seq(Msg) /\ Len(old) = Len(l)
      /\ \A i \in 1..Len(l) : old[i].kind = l[i].kind
  <2>1. \A i \in DOMAIN l : ResetState(l[i]) \in Msg /\ ResetState(l[i]).kind = l[i].kind
    <3>1. \A i \in DOMAIN l : l[i] \in Msg
      BY <1>2
    <3> QED BY <1>5, <3>1, Zenon
  <2> QED BY <1>2, <2>1
<1> HIDE DEF marked, old
<1>8. N12(marked) = N12(q) /\ N12(old) = N12(l)
  BY <1>2, <1>6, <1>7, N12Same, Zenon
<1>9. moved \in 0..Len(marked)
  BY <1>2, <1>3, <1>6
<1>10. sent \in Seq(Msg) /\ Len(sent) = moved /\ rest \in Seq(Msg)
  BY <1>6, <1>9, TakeDropProperties
<1>11. N12(marked) = N12(sent) + N12(rest)
  BY <1>6, <1>9, N12Parts, Zenon
<1> HIDE DEF l, q
<1>12. N12(infl) = N12(old) + N12(sent)
  <2> HIDE DEF sent
  <2> QED BY <1>7, <1>10, N12Parts, Zenon
<1> HIDE DEF infl, rest, left, count, e, sent
<1>13. /\ e.storage = d.storage /\ e.probing = d.probing /\ e.inflight = infl
       /\ e.queued = rest /\ e.inflight_quota = left /\ e.msg_count12 = count
  BY <1>2, <1>4, Zenon DEF MsgData
<1>14. N12(l) \in Nat /\ N12(q) \in Nat /\ N12(sent) \in Nat /\ N12(rest) \in Nat
  BY <1>2, <1>10, N12Type, Zenon
<1>15. /\ InflightCount(e) = N12(l) + N12(sent) /\ QueuedCount(e) = N12(rest)
       /\ QueuedCount(d) = N12(q) /\ N12(q) = N12(sent) + N12(rest)
  BY <1>8, <1>11, <1>12, <1>13, Zenon DEF InflightCount, QueuedCount, q
<1>16. count = N12(l) + N12(q) /\ quota = Spend(InflightMax, N12(l))
  BY Zenon DEF count, ResetCount, ResetQuota, N12, l, q
<1>17. e.storage = <<>> /\ e.msg_count12 = InflightCount(e) + QueuedCount(e)
  BY <1>13, <1>14, <1>15, <1>16 DEF Limits
<1>18. ASSUME QuotaIsReturned
       PROVE  /\ e.queued \in Seq(CountedMsg)
              /\ QueueMax > 0 => QueuedCount(e) <= QueueMax
              /\ Balanced(e)
  <2>1. q \in Seq(CountedMsg) /\ (QueueMax > 0 => QueuedCount(d) <= QueueMax)
    BY <1>18, Zenon DEF Limits, q
  <2>2. marked \in Seq(CountedMsg)
    <3>1. \A i \in 1..Len(marked) : marked[i] \in CountedMsg
      <4> SUFFICES ASSUME NEW i \in 1..Len(marked) PROVE marked[i] \in CountedMsg
        BY Zenon
      <4>1. marked[i] \in Msg /\ marked[i].kind = q[i].kind /\ q[i] \in CountedMsg
        BY <1>2, <1>6, <2>1
      <4> QED BY <4>1, Zenon DEF CountedMsg
    <3> QED BY <1>6, <3>1
  <2>3. sent \in Seq(CountedMsg) /\ rest \in Seq(CountedMsg)
    BY <1>9, <2>2, TakeDropProperties, Zenon DEF sent, rest
  <2>4. N12(sent) = moved
    BY <1>10, <2>3, N12Type, Zenon
  <2>5. QueueMax > 0 => QueuedCount(e) <= QueueMax
    BY <1>14, <1>15, <2>1, ConstantsAssumption
  <2>6. quota \in Nat /\ quota >= InflightMax - N12(l)
    BY <1>14, <1>16, ConstantsAssumption DEF Spend, Greater
  <2> HIDE DEF quota
  <2>7. left \in Nat /\ left >= quota - moved
    BY <1>3, <2>6 DEF left, Spend, Greater
  <2>8. left + InflightCount(e) >= InflightMax
    BY <1>3, <1>14, <1>15, <2>4, <2>6, <2>7, ConstantsAssumption
  <2> QED BY <1>13, <2>3, <2>5, <2>8, Zenon DEF Balanced
<1> QED BY <1>13, <1>17, <1>18, Zenon DEF Limits, e

\* context__init starts within the limits.
LEMMA FreshLimits ==
    ASSUME Counting
    PROVE  Limits(FreshMsgData, TRUE, TRUE) /\ ~FreshMsgData.probing
<1>1. /\ FreshMsgData.inflight = <<>> /\ FreshMsgData.queued = <<>>
      /\ FreshMsgData.storage = <<>> /\ FreshMsgData.inflight_quota = InflightMax
      /\ FreshMsgData.msg_count12 = 0 /\ ~FreshMsgData.probing
  BY Zenon DEF FreshMsgData
<1>2. InflightCount(FreshMsgData) = 0 /\ QueuedCount(FreshMsgData) = 0
  BY <1>1, N12Empty, Zenon DEF InflightCount, QueuedCount
<1>3. <<>> \in Seq(CountedMsg)
  OBVIOUS
<1>4. Balanced(FreshMsgData)
  BY <1>1, <1>2, ConstantsAssumption DEF Balanced
<1> QED BY <1>1, <1>2, <1>3, <1>4, ConstantsAssumption DEF Limits, Flowing

\* The writes that follow an insertion keep the limits.
LEMMA UpdateLimits ==
    ASSUME Counting, NEW d \in Data(Msg), NEW md, NEW s, Limits(d, s # "closed", s # "closed"),
           OnlyAcknowledged => expired = {}
    PROVE  /\ Limits(Update(d, md, s), s # "closed", s # "closed")
           /\ NoProbes => Update(d, md, s).probing = d.probing
<1> DEFINE sent    == db__message_write_inflight_out_latest(d, s)
           written == db__message_write_queued_out(sent)
<1>1. Msg \in Inflights
  BY Zenon DEF Inflights
<1>2. CASE s = "closed"
  BY <1>2, Zenon DEF Update
<1>3. CASE s # "closed"
  <2>1. Limits(d, TRUE, TRUE)
    BY <1>3, Zenon
  <2>2. /\ sent \in Data(Msg) /\ Limits(sent, TRUE, TRUE)
        /\ NoProbes => sent.probing = d.probing
    BY <1>1, <2>1, WriteInflightType, WriteInflightLimits, Zenon
  <2> HIDE DEF sent
  <2>3. /\ written \in Data(Msg) /\ Limits(written, TRUE, TRUE)
        /\ written.probing = sent.probing
    BY <2>2, WriteQueuedLimits, Zenon
  <2> HIDE DEF written
  <2>4. db__message_write_storage_out(written, md) = written
    BY <2>3, WriteNoStorage, Zenon DEF Limits
  <2>5. Update(d, md, s) = sent \/ Update(d, md, s) = written
    BY <1>3, <2>4, Zenon DEF Update, sent, written
  <2> QED BY <1>3, <2>2, <2>3, <2>5, Zenon
<1> QED BY <1>2, <1>3, Zenon

\* The unit of quota that an acknowledgement gives back.
LEMMA IncrementLimits ==
    ASSUME Counting, NEW d \in Data(Msg), Limits(d, TRUE, TRUE)
    PROVE  LET e == util__increment_send_quota(d) IN
           /\ e \in Data(Msg) /\ Limits(e, TRUE, TRUE)
           /\ QuotaIsReturned => Credited(e)
           /\ e.probing = d.probing
<1> DEFINE quota == Refund(d.inflight_quota, 1)
           e     == util__increment_send_quota(d)
<1>1. Msg \in Inflights
  BY Zenon DEF Inflights
<1>2. d \in MsgData /\ d.inflight_quota \in 0..InflightMax /\ InflightCount(d) \in Nat
  BY <1>1, DataFields, CountTypes, Zenon
<1>3. /\ quota \in 0..InflightMax /\ quota >= d.inflight_quota
      /\ quota = InflightMax \/ quota = d.inflight_quota + 1
  BY <1>2, ConstantsAssumption DEF Refund, Greater, Lesser
<1>4. e = [d EXCEPT !.inflight_quota = quota]
  BY Zenon DEF util__increment_send_quota
<1> HIDE DEF quota, e
<1>5. e \in Data(Msg)
  BY <1>3, <1>4, Zenon DEF Data, MsgData
<1>6. /\ e.inflight = d.inflight /\ e.queued = d.queued /\ e.storage = d.storage
      /\ e.inflight_quota = quota /\ e.msg_count12 = d.msg_count12
      /\ e.probing = d.probing
  BY <1>2, <1>4, Zenon DEF MsgData
<1>7. InflightCount(e) = InflightCount(d) /\ QueuedCount(e) = QueuedCount(d)
  BY <1>6, Zenon DEF InflightCount, QueuedCount
<1>8. ASSUME Balanced(d) PROVE Balanced(e) /\ Credited(e)
  <2>1. d.inflight_quota + InflightCount(d) >= InflightMax
    BY <1>8, Zenon DEF Balanced
  <2>2. /\ quota + InflightCount(d) >= InflightMax
        /\ quota = InflightMax \/ quota + InflightCount(d) >= InflightMax + 1
    BY <1>2, <1>3, <2>1, ConstantsAssumption
  <2> QED BY <1>6, <1>7, <2>2, Zenon DEF Balanced, Credited
<1>9. Flowing(d) => Flowing(e)
  BY <1>6, <1>7, Zenon DEF Flowing
<1>10. Limits(e, TRUE, TRUE)
  BY <1>6, <1>7, <1>8, <1>9, Zenon DEF Limits
<1>11. QuotaIsReturned => Credited(e)
  BY <1>8, Zenon DEF Limits
<1> QED BY <1>5, <1>6, <1>10, <1>11, Zenon DEF e

-----------------------------------------------------------------------------
(* The book of the messages offered so far                                 *)

\* A book B records, for the messages offered so far, their packet identifier and
\* kind (B.name), the messages that have reached the client (B.got), those whose
\* identifier the client has not released (B.open), those it has refused
\* (B.refused), and those the broker must not lose (B.owed).
InBook(m, B) == m.id \in DOMAIN B.name /\ m.mid = B.name[m.id].mid

\* The messages that must not be lost are neither refused, expired, oversize, nor
\* have they reached the client.
OwedOK(B) ==
    \A x \in B.owed : /\ x \in DOMAIN B.name /\ x \notin B.got \cup B.refused \cup expired
                      /\ B.name[x].kind.qos # 0 /\ ~B.name[x].kind.oversize

\* Book C has the messages of book B, unchanged, and possibly more.
Extends(C, B) ==
    /\ DOMAIN B.name \subseteq DOMAIN C.name
    /\ \A x \in DOMAIN B.name : C.name[x] = B.name[x]
    /\ C.got = B.got /\ C.open = B.open /\ C.refused = B.refused

\* A packet identifier names one message; QoS 0 messages have none.
Naming(name) ==
    /\ \A x \in DOMAIN name : name[x].mid = 0 <=> name[x].kind.qos = 0
    /\ \A x, y \in DOMAIN name : name[x].mid = name[y].mid /\ name[x].mid # 0 => x = y

\* Book C differs from book B at most in what it says of message x.
DiffersAt(C, B, x) ==
    /\ C.name = B.name /\ C.owed \subseteq B.owed
    /\ \A y : y # x => /\ y \in C.got <=> y \in B.got
                       /\ y \in C.open <=> y \in B.open
                       /\ y \in C.refused <=> y \in B.refused

\* mosquitto__mid_generate does not ask whether an identifier is in use, so what it
\* gives identifies a message as long as it has not wrapped around.
NoWrap == MaxMsgs <= MaxMid

-----------------------------------------------------------------------------
(* Lists of messages with different names                                  *)

\* No two entries of a list, or of two lists, belong to the same message.
Distinct(l) == \A i, j \in DOMAIN l : l[i].id = l[j].id => i = j
Apart(l, k) == \A a \in Elements(l), b \in Elements(k) : a.id # b.id

\* Two lists of the same messages, whose other fields may differ.
SameIds(l, k) == DOMAIN l = DOMAIN k /\ \A i \in DOMAIN l : l[i].id = k[i].id

\* The entries of two lists joined.
LEMMA ConcatEntries ==
    ASSUME NEW S, NEW l \in Seq(S), NEW k \in Seq(S)
    PROVE  /\ \A i \in DOMAIN l : i \in DOMAIN (l \o k) /\ (l \o k)[i] = l[i]
           /\ \A i \in DOMAIN k :
                Len(l) + i \in DOMAIN (l \o k) /\ (l \o k)[Len(l) + i] = k[i]
           /\ \A h \in DOMAIN (l \o k) :
                \/ h \in DOMAIN l
                \/ \E i \in DOMAIN k : h = Len(l) + i
           /\ Elements(l \o k) = Elements(l) \cup Elements(k)
<1> DEFINE c == l \o k
<1>1. /\ Len(l) \in Nat /\ Len(k) \in Nat
      /\ DOMAIN l = 1..Len(l) /\ DOMAIN k = 1..Len(k)
      /\ DOMAIN c = 1..(Len(l) + Len(k))
      /\ \A i \in 1..Len(l) : c[i] = l[i]
      /\ \A i \in 1..Len(k) : c[Len(l) + i] = k[i]
  OBVIOUS
<1> HIDE DEF c
<1>2. \A i \in DOMAIN l : i \in DOMAIN c /\ c[i] = l[i]
  BY <1>1
<1>3. \A i \in DOMAIN k : Len(l) + i \in DOMAIN c /\ c[Len(l) + i] = k[i]
  BY <1>1
<1>4. ASSUME NEW h \in DOMAIN c
      PROVE  h \in DOMAIN l \/ \E i \in DOMAIN k : h = Len(l) + i
  <2>1. CASE h <= Len(l)
    BY <1>1, <2>1
  <2>2. CASE ~(h <= Len(l))
    <3>1. h - Len(l) \in DOMAIN k /\ h = Len(l) + (h - Len(l))
      BY <1>1, <2>2
    <3> QED BY <3>1, Zenon
  <2> QED BY <2>1, <2>2, Zenon
<1>5. Elements(c) = Elements(l) \cup Elements(k)
  <2>1. ASSUME NEW h \in DOMAIN c PROVE c[h] \in Elements(l) \cup Elements(k)
    BY <1>2, <1>3, <1>4, Zenon DEF Elements
  <2>2. ASSUME NEW i \in DOMAIN l PROVE l[i] \in Elements(c)
    BY <1>2, Zenon DEF Elements
  <2>3. ASSUME NEW i \in DOMAIN k PROVE k[i] \in Elements(c)
    BY <1>3, Zenon DEF Elements
  <2> QED BY <2>1, <2>2, <2>3, Zenon DEF Elements
<1> QED BY <1>2, <1>3, <1>4, <1>5, SMTT(20) DEF c

\* The messages of two lists of messages joined.
LEMMA ConcatMsgs ==
    ASSUME NEW l \in Seq(Msg), NEW k \in Seq(Msg)
    PROVE  Elements(l \o k) = Elements(l) \cup Elements(k)
BY ConcatEntries, SMTT(20)

\* The messages of two lists joined are distinct if those of each list are and the
\* lists have none in common.
LEMMA ConcatIds ==
    ASSUME NEW S, NEW l \in Seq(S), NEW k \in Seq(S), NEW m
    PROVE  /\ Distinct(l \o k) <=> Distinct(l) /\ Distinct(k) /\ Apart(l, k)
           /\ Apart(l \o k, m) <=> Apart(l, m) /\ Apart(k, m)
           /\ Apart(m, l \o k) <=> Apart(m, l) /\ Apart(m, k)
<1> DEFINE c == l \o k
<1>1. /\ \A i \in DOMAIN l : i \in DOMAIN c /\ c[i] = l[i]
      /\ \A i \in DOMAIN k : Len(l) + i \in DOMAIN c /\ c[Len(l) + i] = k[i]
      /\ \A h \in DOMAIN c : h \in DOMAIN l \/ \E i \in DOMAIN k : h = Len(l) + i
  BY ConcatEntries
<1>2. /\ Len(l) \in Nat /\ DOMAIN l = 1..Len(l) /\ DOMAIN k \subseteq Nat \ {0}
  OBVIOUS
<1>3. /\ \A i, j \in DOMAIN k : Len(l) + i = Len(l) + j => i = j
      /\ \A i \in DOMAIN l, j \in DOMAIN k : i # Len(l) + j
  BY <1>2, SMTT(30)
<1> HIDE DEF c
<1>e. Elements(c) = Elements(l) \cup Elements(k)
  BY ConcatEntries DEF c
<1>4. Apart(c, m) <=> Apart(l, m) /\ Apart(k, m)
  BY <1>e, Zenon DEF Apart
<1>5. Apart(m, c) <=> Apart(m, l) /\ Apart(m, k)
  BY <1>e, Zenon DEF Apart
<1>a. Apart(l, k) <=> \A i \in DOMAIN l, j \in DOMAIN k : l[i].id # k[j].id
  BY Zenon DEF Apart, Elements
<1>6. ASSUME Distinct(c) PROVE Distinct(l) /\ Distinct(k) /\ Apart(l, k)
  <2>1. Distinct(l)
    BY <1>1, <1>6, Zenon DEF Distinct
  <2>2. ASSUME NEW i \in DOMAIN k, NEW j \in DOMAIN k, k[i].id = k[j].id PROVE i = j
    <3>1. c[Len(l) + i].id = c[Len(l) + j].id
      BY <1>1, <2>2, SMTT(20)
    <3>2. Len(l) + i = Len(l) + j
      BY <1>1, <1>6, <3>1, SMTT(20) DEF Distinct
    <3> QED BY <1>3, <3>2, Zenon
  <2>3. ASSUME NEW i \in DOMAIN l, NEW j \in DOMAIN k PROVE l[i].id # k[j].id
    <3>1. c[i].id = l[i].id /\ c[Len(l) + j].id = k[j].id
      BY <1>1, Zenon
    <3> QED BY <1>1, <1>3, <1>6, <3>1, SMTT(20) DEF Distinct
  <2> QED BY <1>a, <2>1, <2>2, <2>3, Zenon DEF Distinct
<1>7. ASSUME Distinct(l), Distinct(k), Apart(l, k) PROVE Distinct(c)
  <2> SUFFICES ASSUME NEW i \in DOMAIN c, NEW j \in DOMAIN c, c[i].id = c[j].id
               PROVE  i = j
    BY Zenon DEF Distinct
  <2>1. CASE i \in DOMAIN l /\ j \in DOMAIN l
    BY <1>1, <1>7, <2>1, Zenon DEF Distinct
  <2>2. CASE i \in DOMAIN l /\ \E b \in DOMAIN k : j = Len(l) + b
    BY <1>1, <1>7, <1>a, <2>2, SMTT(20)
  <2>3. CASE j \in DOMAIN l /\ \E b \in DOMAIN k : i = Len(l) + b
    BY <1>1, <1>7, <1>a, <2>3, SMTT(20)
  <2>4. CASE (\E a \in DOMAIN k : i = Len(l) + a) /\ (\E b \in DOMAIN k : j = Len(l) + b)
    <3>1. PICK a \in DOMAIN k, b \in DOMAIN k : i = Len(l) + a /\ j = Len(l) + b
      BY <2>4, SMTT(20)
    <3>2. k[a].id = k[b].id
      BY <1>1, <3>1, Zenon
    <3> QED BY <1>7, <3>1, <3>2, Zenon DEF Distinct
  <2> QED BY <1>1, <2>1, <2>2, <2>3, <2>4, Zenon
<1> QED BY <1>4, <1>5, <1>6, <1>7, Zenon DEF c

\* Whether messages are distinct depends on their names only.
LEMMA SameIdsKeep ==
    ASSUME NEW l, NEW k, SameIds(l, k), NEW m
    PROVE  /\ Distinct(l) <=> Distinct(k)
           /\ Apart(l, m) <=> Apart(k, m)
           /\ Apart(m, l) <=> Apart(m, k)
<1>1. DOMAIN l = DOMAIN k /\ \A i \in DOMAIN k : l[i].id = k[i].id
  BY Zenon DEF SameIds
<1>2. Distinct(l) <=> Distinct(k)
  BY <1>1, Zenon DEF Distinct
<1>3. Apart(l, m) <=> Apart(k, m)
  BY <1>1, ZenonT(40) DEF Apart, Elements
<1>4. Apart(m, l) <=> Apart(m, k)
  BY <1>1 DEF Apart, Elements
<1> QED BY <1>2, <1>3, <1>4, Zenon

\* A list is its first n elements followed by the others.
LEMMA SplitList ==
    ASSUME NEW S, NEW s \in Seq(S), NEW n \in 0..Len(s)
    PROVE  /\ s = TakeFirst(s, n) \o DropFirst(s, n)
           /\ TakeFirst(s, n) \in Seq(S) /\ DropFirst(s, n) \in Seq(S)
<1> DEFINE a == TakeFirst(s, n)
           b == DropFirst(s, n)
<1>1. /\ a \in Seq(S) /\ Len(a) = n /\ \A i \in 1..n : a[i] = s[i]
      /\ b \in Seq(S) /\ Len(b) = Len(s) - n
      /\ \A i \in 1..(Len(s) - n) : b[i] = s[n + i]
  BY TakeDropProperties, ZenonT(40)
<1> HIDE DEF a, b
<1>2. a \o b \in Seq(S) /\ Len(a \o b) = Len(s)
  <2>1. a \in Seq(S) /\ b \in Seq(S) /\ Len(a) = n /\ Len(b) = Len(s) - n
    BY <1>1, Zenon
  <2>2. a \o b \in Seq(S) /\ Len(a \o b) = Len(a) + Len(b)
    BY <2>1, SMTT(20)
  <2>3. n + (Len(s) - n) = Len(s)
    BY SMTT(20)
  <2> QED BY <2>1, <2>2, <2>3, Zenon
<1>3. ASSUME NEW i \in 1..Len(s) PROVE (a \o b)[i] = s[i]
  <2>1. CASE i <= n
    BY <1>1, <2>1
  <2>2. CASE ~(i <= n)
    <3>1. i - n \in 1..(Len(s) - n) /\ n + (i - n) = i
      BY <2>2
    <3>2. (a \o b)[i] = b[i - n]
      BY <1>1, <2>2, <3>1, SMTT(20)
    <3> QED BY <1>1, <3>1, <3>2, Zenon
  <2> QED BY <2>1, <2>2, Zenon
<1>4. s = a \o b
  <2> DEFINE c == a \o b
  <2>1. c \in Seq(S) /\ Len(c) = Len(s) /\ \A i \in 1..Len(s) : c[i] = s[i]
    BY <1>2, <1>3, Zenon
  <2> HIDE DEF c
  <2>2. s = c
    BY <2>1, SMTT(30)
  <2> QED BY <2>2, Zenon DEF c
<1> QED BY <1>1, <1>4, Zenon DEF a, b

\* Two lists without a message in common, seen from the other one.
LEMMA ApartSym ==
    ASSUME NEW l, NEW k
    PROVE  Apart(l, k) <=> Apart(k, l)
  BY Zenon DEF Apart

\* The elements of a list at the kept positions.
LEMMA PickEntries ==
    ASSUME Counting, NEW S, NEW s \in Seq(S), NEW K \in SUBSET DOMAIN s, NEW m
    PROVE  /\ Pick(s, K) \in Seq(S)
           /\ Elements(Pick(s, K)) = {s[i] : i \in K}
           /\ Distinct(s) => Distinct(Pick(s, K))
           /\ Apart(s, m) => Apart(Pick(s, K), m)
<1> DEFINE p == Pick(s, K)
<1>1. /\ p \in Seq(S)
      /\ \A j \in DOMAIN p : \E i \in K : p[j] = s[i]
      /\ \A i \in K : \E j \in DOMAIN p : p[j] = s[i]
      /\ \A j, l \in DOMAIN p : j < l =>
           \E i, k \in K : i < k /\ p[j] = s[i] /\ p[l] = s[k]
  BY PickProperties, ZenonT(40)
<1>2. DOMAIN p \subseteq Int /\ DOMAIN s \subseteq Int
  BY <1>1
<1> HIDE DEF p
<1>3. Elements(p) = {s[i] : i \in K}
  BY <1>1 DEF Elements
<1>4. ASSUME Distinct(s) PROVE Distinct(p)
  <2>1. ASSUME NEW j \in DOMAIN p, NEW l \in DOMAIN p, j < l PROVE p[j].id # p[l].id
    <3>1. PICK i \in K, k \in K : i < k /\ p[j] = s[i] /\ p[l] = s[k]
      BY <1>1, <2>1, Zenon
    <3>2. i # k
      BY <1>2, <3>1
    <3> QED BY <1>4, <3>1, <3>2, Zenon DEF Distinct
  <2>2. \A j, l \in DOMAIN p : j = l \/ j < l \/ l < j
    BY <1>2
  <2> QED BY <2>1, <2>2, Zenon DEF Distinct
<1>5. ASSUME Apart(s, m) PROVE Apart(p, m)
  BY <1>3, <1>5, Zenon DEF Apart, Elements
<1> QED BY <1>1, <1>3, <1>4, <1>5, Zenon DEF p

\* A list with one more message.
LEMMA AppendIds ==
    ASSUME NEW S, NEW l \in Seq(S), NEW n \in S
    PROVE  /\ Append(l, n) \in Seq(S) /\ Elements(Append(l, n)) = Elements(l) \cup {n}
           /\ Distinct(l) /\ (\A a \in Elements(l) : a.id # n.id) => Distinct(Append(l, n))
<1> DEFINE c == Append(l, n)
<1>1. /\ c \in Seq(S) /\ Len(l) \in Nat /\ DOMAIN l = 1..Len(l) /\ DOMAIN c = 1..(Len(l) + 1)
      /\ \A i \in 1..Len(l) : c[i] = l[i]
      /\ c[Len(l) + 1] = n
  OBVIOUS
<1> HIDE DEF c
<1>2. /\ \A i \in DOMAIN c : i \in DOMAIN l \/ i = Len(l) + 1
      /\ \A i \in DOMAIN l : i \in DOMAIN c /\ c[i] = l[i]
      /\ Len(l) + 1 \in DOMAIN c
  BY <1>1
<1>3. Elements(c) = Elements(l) \cup {n}
  BY <1>1, <1>2, SMTT(20) DEF Elements
<1>4. ASSUME Distinct(l), \A a \in Elements(l) : a.id # n.id PROVE Distinct(c)
  <2>1. \A i \in DOMAIN l : l[i].id # n.id
    BY <1>4, SMTT(20) DEF Elements
  <2> QED BY <1>1, <1>2, <1>4, <2>1, Zenon DEF Distinct
<1> QED BY <1>1, <1>3, <1>4, Zenon DEF c

\* The head of a list and the others.
LEMMA TailIds ==
    ASSUME NEW S, NEW l \in Seq(S), l # <<>>
    PROVE  /\ Tail(l) \in Seq(S) /\ Head(l) \in S
           /\ Elements(l) = {Head(l)} \cup Elements(Tail(l))
           /\ Distinct(l) => Distinct(Tail(l)) /\ \A a \in Elements(Tail(l)) : a.id # Head(l).id
<1> DEFINE t == Tail(l)
<1>1. /\ t \in Seq(S) /\ Head(l) \in S /\ Head(l) = l[1] /\ Len(l) \in Nat \ {0}
      /\ DOMAIN l = 1..Len(l) /\ DOMAIN t = 1..(Len(l) - 1)
      /\ \A i \in DOMAIN t : t[i] = l[i + 1]
  OBVIOUS
<1> HIDE DEF t
<1>2. /\ 1 \in DOMAIN l
      /\ \A i \in DOMAIN t : i + 1 \in DOMAIN l /\ i + 1 # 1
      /\ \A i \in DOMAIN l : i = 1 \/ (i - 1 \in DOMAIN t /\ (i - 1) + 1 = i)
      /\ \A i, j \in DOMAIN t : i + 1 = j + 1 => i = j
  BY <1>1, SMTT(20)
<1>3. Elements(l) = {Head(l)} \cup Elements(t)
  <2>1. ASSUME NEW i \in DOMAIN l PROVE l[i] \in {Head(l)} \cup Elements(t)
    <3>1. CASE i = 1
      BY <1>1, <3>1, Zenon
    <3>2. CASE i # 1
      <4>1. i - 1 \in DOMAIN t /\ t[i - 1] = l[i]
        BY <1>1, <1>2, <3>2, SMTT(20)
      <4> QED BY <4>1, Zenon DEF Elements
    <3> QED BY <3>1, <3>2, Zenon
  <2> QED BY <1>1, <1>2, <2>1, SMTT(20) DEF Elements
<1>4. ASSUME Distinct(l) PROVE Distinct(t) /\ \A a \in Elements(t) : a.id # Head(l).id
  BY <1>1, <1>2, <1>4, SMTT(20) DEF Distinct, Elements
<1> QED BY <1>1, <1>3, <1>4, Zenon DEF t

-----------------------------------------------------------------------------
(* What holds between the lists, the packets under way and the client      *)

\* The packets that may be under way for a message on the inflight list.
Expect(state) ==
    CASE state = "wait_for_puback"  -> {"PUBLISH", "PUBACK"}
      [] state = "wait_for_pubrec"  -> {"PUBLISH", "PUBREC", "PUBREC_FAIL"}
      [] state = "wait_for_pubcomp" -> {"PUBREL", "PUBCOMP"}
      [] OTHER -> {}

IdleStates == PublishStates \cup {"queued", "storage"}
Released == {"wait_for_pubcomp", "resend_pubrel"}

\* A message agrees with the book, and its state with its QoS and with what has
\* reached the client.
MsgOK(m, B) ==
    /\ InBook(m, B) /\ m.kind = B.name[m.id].kind
    /\ m.state \in PublishStates => m.state = PublishState(m.kind.qos)
    /\ m.state = "wait_for_puback" => m.kind.qos = 1
    /\ m.state = "wait_for_pubrec" => m.kind.qos = 2
    /\ m.state \in Released => m.kind.qos = 2 /\ m.id \in B.got
    /\ m.kind.qos = 2 /\ m.id \in B.got => m.id \in B.open \/ m.state \in Released

\* A packet agrees with the book.
TokenOK(t, B) ==
    /\ InBook(t, B)
    /\ t.type = "PUBLISH" =>
         /\ t.qos = B.name[t.id].kind.qos
         /\ t.qos = 2 /\ t.id \in B.got => t.id \in B.open
    /\ t.type = "PUBACK" => B.name[t.id].kind.qos = 1 /\ t.id \in B.got
    /\ t.type \in {"PUBREC", "PUBREL", "PUBCOMP"} =>
         B.name[t.id].kind.qos = 2 /\ t.id \in B.got
    /\ t.type = "PUBREC_FAIL" => B.name[t.id].kind.qos = 2 /\ t.id \in B.refused

\* A packet under way for a message is one that its state allows.
Match(m, t) == t.id = m.id => t.type \in Expect(m.state)

Late(d) == Elements(d.queued) \cup Elements(d.storage)
HeldIn(d) == Elements(d.inflight) \cup Late(d)
Tokens(d, in) == Elements(d.out) \cup Elements(in)

\* Each message is on one list, once.
Unique(d) ==
    /\ Distinct(d.inflight) /\ Distinct(d.queued) /\ Distinct(d.storage)
    /\ Apart(d.inflight, d.queued) /\ Apart(d.inflight, d.storage)
    /\ Apart(d.queued, d.storage)

ListsOK(d, B) ==
    /\ Unique(d)
    /\ \A m \in HeldIn(d) : MsgOK(m, B)
    /\ \A m \in Late(d) : m.state \in IdleStates

\* Each message has at most one packet under way; on a connection (live), one that
\* waits for an answer has one.
WiresOK(d, in, live, B) ==
    /\ Distinct(d.out) /\ Distinct(in) /\ Apart(d.out, in)
    /\ \A t \in Tokens(d, in) : TokenOK(t, B)
    /\ \A m \in HeldIn(d), t \in Tokens(d, in) : Match(m, t)
    /\ live => \A m \in Elements(d.inflight) :
                 Expect(m.state) # {} => \E t \in Tokens(d, in) : t.id = m.id

\* No released message waits to be released again: this happens only inside the
\* handler of a CONNECT.
Rested(d) == \A m \in HeldIn(d) : m.state # "resend_pubrel"

\* The messages not yet sent are the last of the list.
UnsentLast(l) ==
    \A i, j \in DOMAIN l :
        i < j /\ l[i].state \in PublishStates => l[j].state \in PublishStates

\* The messages the broker must not lose are on its lists.
Holds(d, B) == \A x \in B.owed : \E m \in HeldIn(d) : m.id = x

\* All of these, in a phase of the session: "live", "closed", or "resuming", inside
\* the handler of a CONNECT before the inflight list has been written.
Sound(d, in, phase, B) ==
    /\ d \in Data(Msg)
    /\ ListsOK(d, B)
    /\ WiresOK(d, in, phase # "closed", B)
    /\ phase # "resuming" => Rested(d)
    /\ phase = "live" => UnsentLast(d.inflight)
    /\ Holds(d, B)

\* An empty list has no messages.
LEMMA NoIds ==
    ASSUME NEW l
    PROVE  /\ Elements(<<>>) = {} /\ Distinct(<<>>) /\ Apart(<<>>, l) /\ Apart(l, <<>>)
           /\ UnsentLast(<<>>)
  BY DEF Elements, Distinct, Apart, UnsentLast

\* A function on an interval is a list, with the messages of the list it maps.
LEMMA MappedList ==
    ASSUME NEW n \in Nat, NEW f \in [1..n -> Msg], NEW s, DOMAIN s = 1..n,
           \A i \in 1..n : f[i].id = s[i].id
    PROVE  f \in Seq(Msg) /\ Len(f) = n /\ DOMAIN f = 1..n /\ SameIds(f, s)
  BY DEF SameIds

\* Putting a message in a publish state.
LEMMA PublishStateOf ==
    ASSUME NEW m \in Msg
    PROVE  /\ ToPublish(m) \in Msg /\ ToPublish(m).id = m.id /\ ToPublish(m).mid = m.mid
           /\ ToPublish(m).kind = m.kind /\ ToPublish(m).dup = m.dup
           /\ ToPublish(m).state = PublishState(m.kind.qos)
           /\ PublishState(m.kind.qos) \in PublishStates
<1>1. ToPublish(m) \in Msg
  BY ToPublishType, Zenon DEF LiveMsg
<1>2. PublishState(m.kind.qos) \in PublishStates
  BY MsgFields, Zenon DEF PublishState, PublishStates
<1> QED BY <1>1, <1>2, Zenon DEF ToPublish, Msg

\* Nothing is under way for a message that has not been sent.
LEMMA IdleExpects ==
    /\ \A st \in IdleStates \cup {"resend_pubrel"} : Expect(st) = {}
    /\ PublishStates \subseteq IdleStates
    /\ \A st \in IdleStates : st \notin Released /\ st # "wait_for_puback"
                                /\ st # "wait_for_pubrec" /\ st # "resend_pubrel"
  BY SMTT(20) DEF IdleStates, PublishStates, Expect, Released

\* The messages on the lists are well-formed.
LEMMA HeldType ==
    ASSUME NEW d \in Data(Msg)
    PROVE  /\ HeldIn(d) \subseteq Msg /\ Late(d) \subseteq HeldIn(d)
           /\ Elements(d.inflight) \subseteq HeldIn(d)
           /\ Elements(d.out) \subseteq Packet
<1>1. /\ d.inflight \in Seq(Msg) /\ d.queued \in Seq(Msg) /\ d.storage \in Seq(Msg)
      /\ d.out \in Seq(Packet)
  BY DataFields, Zenon DEF Inflights
<1>2. ASSUME NEW S, NEW l \in Seq(S) PROVE Elements(l) \subseteq S
  BY DEF Elements
<1>3. /\ Elements(d.inflight) \subseteq Msg /\ Elements(d.queued) \subseteq Msg
      /\ Elements(d.storage) \subseteq Msg /\ Elements(d.out) \subseteq Packet
  BY <1>1, <1>2, Zenon
<1> QED BY <1>3, SMTT(20) DEF HeldIn, Late

-----------------------------------------------------------------------------
(* Moving messages that have not been sent                                 *)

\* n is m in another place, both not sent: m as it was or in its publish state.
Moved(n, m) ==
    /\ n.id = m.id /\ n.mid = m.mid /\ n.kind = m.kind
    /\ m.state \in IdleStates
    /\ n.state = m.state \/ n.state = PublishState(m.kind.qos)

\* e has the messages of d, some of the waiting ones moved.
Shuffled(d, e) ==
    /\ e \in Data(Msg) /\ e.out = d.out
    /\ \A n \in Elements(e.inflight) :
         n \in Elements(d.inflight) \/ \E m \in Late(d) : Moved(n, m)
    /\ \A n \in Late(e) : \E m \in Late(d) : Moved(n, m)
    /\ \A m \in HeldIn(d) : \E n \in HeldIn(e) : n.id = m.id
    /\ Unique(d) => Unique(e)
    /\ UnsentLast(d.inflight) => UnsentLast(e.inflight)

\* A message that is moved before it is sent keeps its place in the handshake.
LEMMA MovedOK ==
    ASSUME NEW m \in Msg, NEW n, Moved(n, m), NEW B, MsgOK(m, B)
    PROVE  /\ MsgOK(n, B) /\ n.state \in IdleStates /\ Expect(n.state) = {}
           /\ n.state # "resend_pubrel"
           /\ \A t : Match(m, t) => Match(n, t)
<1>1. /\ n.id = m.id /\ n.mid = m.mid /\ n.kind = m.kind /\ m.state \in IdleStates
      /\ n.state = m.state \/ n.state = PublishState(m.kind.qos)
  BY Zenon DEF Moved
<1>2. PublishState(m.kind.qos) \in PublishStates
  BY PublishStateOf, SMTT(20)
<1>3. n.state \in IdleStates
  BY <1>1, <1>2, IdleExpects, SMTT(20)
<1>4. /\ m.state \notin Released /\ n.state \notin Released
      /\ Expect(n.state) = {} /\ Expect(m.state) = {} /\ n.state # "resend_pubrel"
      /\ n.state # "wait_for_puback" /\ n.state # "wait_for_pubrec"
  BY <1>1, <1>3, IdleExpects, Zenon
<1>5. MsgOK(n, B)
  BY <1>1, <1>4, Zenon DEF MsgOK, InBook
<1>6. \A t : Match(m, t) => Match(n, t)
  BY <1>1, <1>4, Zenon DEF Match
<1> QED BY <1>3, <1>4, <1>5, <1>6, SMTT(20)

\* Moving messages that have not been sent disturbs no handshake.
LEMMA ShuffledSound ==
    ASSUME NEW d, NEW e, NEW in, NEW phase, NEW B, Sound(d, in, phase, B), Shuffled(d, e)
    PROVE  Sound(e, in, phase, B)
<1>1. /\ d \in Data(Msg) /\ ListsOK(d, B) /\ WiresOK(d, in, phase # "closed", B)
      /\ phase # "resuming" => Rested(d)
      /\ phase = "live" => UnsentLast(d.inflight)
      /\ Holds(d, B)
  BY Zenon DEF Sound
<1>2. /\ e \in Data(Msg) /\ e.out = d.out
      /\ \A n \in Elements(e.inflight) :
           n \in Elements(d.inflight) \/ \E m \in Late(d) : Moved(n, m)
      /\ \A n \in Late(e) : \E m \in Late(d) : Moved(n, m)
      /\ \A m \in HeldIn(d) : \E n \in HeldIn(e) : n.id = m.id
      /\ Unique(d) => Unique(e)
      /\ UnsentLast(d.inflight) => UnsentLast(e.inflight)
  BY Zenon DEF Shuffled
<1>3. HeldIn(d) \subseteq Msg /\ Late(d) \subseteq HeldIn(d)
        /\ Elements(d.inflight) \subseteq HeldIn(d)
  BY <1>1, HeldType, Zenon
<1>4. Tokens(e, in) = Tokens(d, in)
  BY <1>2, Zenon DEF Tokens
<1>5. ASSUME NEW n, NEW m \in Late(d), Moved(n, m)
      PROVE  /\ MsgOK(n, B) /\ n.state \in IdleStates /\ Expect(n.state) = {}
             /\ n.state # "resend_pubrel"
             /\ \A t \in Tokens(d, in) : Match(n, t)
  <2>1. m \in Msg /\ MsgOK(m, B) /\ \A t \in Tokens(d, in) : Match(m, t)
    BY <1>1, <1>3, Zenon DEF ListsOK, WiresOK
  <2> QED BY <1>5, <2>1, MovedOK, Zenon
<1>6. ASSUME NEW n \in HeldIn(e)
      PROVE  n \in Elements(d.inflight) \/ \E m \in Late(d) : Moved(n, m)
  BY <1>2, Zenon DEF HeldIn
<1>7. ListsOK(e, B)
  <2>1. Unique(e)
    BY <1>1, <1>2, Zenon DEF ListsOK
  <2>2. ASSUME NEW n \in HeldIn(e) PROVE MsgOK(n, B)
    BY <1>1, <1>3, <1>5, <1>6, Zenon DEF ListsOK
  <2>3. ASSUME NEW n \in Late(e) PROVE n.state \in IdleStates
    BY <1>2, <1>5, Zenon
  <2> QED BY <2>1, <2>2, <2>3, Zenon DEF ListsOK
<1>8. WiresOK(e, in, phase # "closed", B)
  <2>1. /\ Distinct(e.out) /\ Distinct(in) /\ Apart(e.out, in)
        /\ \A t \in Tokens(e, in) : TokenOK(t, B)
    BY <1>1, <1>2, <1>4, Zenon DEF WiresOK
  <2>2. ASSUME NEW n \in HeldIn(e), NEW t \in Tokens(e, in) PROVE Match(n, t)
    <3>1. CASE n \in Elements(d.inflight)
      BY <1>1, <1>3, <1>4, <3>1, Zenon DEF WiresOK
    <3>2. CASE \E m \in Late(d) : Moved(n, m)
      BY <1>4, <1>5, <3>2, Zenon
    <3> QED BY <1>6, <3>1, <3>2, SMTT(20)
  <2>3. ASSUME phase # "closed", NEW n \in Elements(e.inflight), Expect(n.state) # {}
        PROVE  \E t \in Tokens(e, in) : t.id = n.id
    <3>1. n \in Elements(d.inflight)
      BY <1>2, <1>5, <2>3, Zenon
    <3> QED BY <1>1, <1>4, <2>3, <3>1, Zenon DEF WiresOK
  <2> QED BY <2>1, <2>2, <2>3, Zenon DEF WiresOK
<1>9. phase # "resuming" => Rested(e)
  BY <1>1, <1>3, <1>5, <1>6, Zenon DEF Rested
<1>10. Holds(e, B)
  BY <1>1, <1>2, Zenon DEF Holds
<1> QED BY <1>1, <1>2, <1>7, <1>8, <1>9, <1>10, Zenon DEF Sound

\* The head a of the queue a \o b moves to the end of the inflight list.
LEMMA UniqueDequeue ==
    ASSUME NEW I \in Seq(Msg), NEW a \in Seq(Msg), NEW b \in Seq(Msg), NEW S,
           NEW mv \in Seq(Msg), SameIds(mv, a),
           Distinct(I), Distinct(a \o b), Apart(I, a \o b), Apart(I, S), Apart(a \o b, S)
    PROVE  /\ Distinct(I \o mv) /\ Distinct(b) /\ Apart(I \o mv, b)
           /\ Apart(I \o mv, S) /\ Apart(b, S)
<1>1. /\ Distinct(a) /\ Distinct(b) /\ Apart(a, b)
      /\ Apart(I, a) /\ Apart(I, b) /\ Apart(a, S) /\ Apart(b, S)
  BY ConcatIds, Zenon
<1>2. Distinct(mv) /\ Apart(I, mv) /\ Apart(mv, b) /\ Apart(mv, S)
  BY <1>1, SameIdsKeep, Zenon
<1> QED BY <1>1, <1>2, ConcatIds, Zenon

\* The head a of the storage list a \o c leaves it; what becomes of it is the list
\* x \o y, of which x is appended to inflight and y to queued.
LEMMA UniqueStorage ==
    ASSUME NEW I \in Seq(Msg), NEW Q \in Seq(Msg), NEW a \in Seq(Msg), NEW c \in Seq(Msg),
           NEW x \in Seq(Msg), NEW y \in Seq(Msg), SameIds(x \o y, a),
           Distinct(I), Distinct(Q), Distinct(a \o c),
           Apart(I, Q), Apart(I, a \o c), Apart(Q, a \o c)
    PROVE  /\ Distinct(I \o x) /\ Distinct(Q \o y) /\ Distinct(c)
           /\ Apart(I \o x, Q \o y) /\ Apart(I \o x, c) /\ Apart(Q \o y, c)
<1>1. /\ Distinct(a) /\ Distinct(c) /\ Apart(a, c)
      /\ Apart(I, a) /\ Apart(I, c) /\ Apart(Q, a) /\ Apart(Q, c)
  BY ConcatIds, Zenon
<1>2. /\ Distinct(x \o y) /\ Apart(x \o y, c) /\ Apart(I, x \o y) /\ Apart(Q, x \o y)
  BY <1>1, SameIdsKeep, Zenon
<1>3. /\ Distinct(x) /\ Distinct(y) /\ Apart(x, y) /\ Apart(x, c) /\ Apart(y, c)
      /\ Apart(I, x) /\ Apart(I, y) /\ Apart(Q, x) /\ Apart(Q, y)
  BY <1>2, ConcatIds, Zenon
<1>4. Apart(x, Q)
  BY <1>3, ApartSym, Zenon
<1>5. Distinct(I \o x) /\ Distinct(Q \o y)
  BY <1>3, ConcatIds, Zenon
<1>6. Apart(I, Q \o y) /\ Apart(x, Q \o y)
  BY <1>3, <1>4, ConcatIds, Zenon
<1>7. Apart(I \o x, Q \o y) /\ Apart(I \o x, c) /\ Apart(Q \o y, c)
  BY <1>1, <1>3, <1>6, ConcatIds, Zenon
<1> QED BY <1>1, <1>5, <1>7, SMTT(20)

\* Unsent messages appended to a list are the last of it.
LEMMA UnsentAppended ==
    ASSUME NEW l \in Seq(Msg), NEW k \in Seq(Msg), UnsentLast(l),
           \A m \in Elements(k) : m.state \in PublishStates
    PROVE  UnsentLast(l \o k)
<1> DEFINE c == l \o k
<1>1. /\ \A i \in DOMAIN l : i \in DOMAIN c /\ c[i] = l[i]
      /\ \A i \in DOMAIN k : Len(l) + i \in DOMAIN c /\ c[Len(l) + i] = k[i]
      /\ \A h \in DOMAIN c : h \in DOMAIN l \/ \E i \in DOMAIN k : h = Len(l) + i
  BY ConcatEntries, SMTT(20)
<1>2. /\ Len(l) \in Nat /\ DOMAIN l = 1..Len(l) /\ DOMAIN k \subseteq Nat \ {0}
      /\ DOMAIN c \subseteq Int
  OBVIOUS
<1>3. \A i \in DOMAIN k : c[Len(l) + i].state \in PublishStates
  BY <1>1, Zenon DEF Elements
<1> HIDE DEF c
<1> SUFFICES ASSUME NEW i \in DOMAIN c, NEW j \in DOMAIN c, i < j,
                    c[i].state \in PublishStates
             PROVE  c[j].state \in PublishStates
  BY SMTT(20) DEF UnsentLast, c
<1>4. CASE j \in DOMAIN l
  <2>1. i \in DOMAIN l
    BY <1>1, <1>2, <1>4, SMTT(20)
  <2> QED BY <1>1, <1>4, <2>1, SMTT(20) DEF UnsentLast
<1>5. CASE \E h \in DOMAIN k : j = Len(l) + h
  BY <1>3, <1>5, Zenon
<1> QED BY <1>1, <1>4, <1>5, SMTT(20)

\* db__message_dequeue_first moves messages that have not been sent.
LEMMA DequeueShuffled ==
    ASSUME NEW d \in Data(Msg), NEW n \in 0..Len(d.queued),
           \A m \in Late(d) : m.state \in IdleStates
    PROVE  Shuffled(d, Dequeue(d, n))
<1> DEFINE moved == [i \in 1..n |-> ToPublish(d.queued[i])]
           e     == Dequeue(d, n)
<1>m. Msg \in Inflights
  BY SMTT(20) DEF Inflights
<1>1. /\ d.inflight \in Seq(Msg) /\ d.queued \in Seq(Msg) /\ d.storage \in Seq(Msg)
      /\ d.inflight_quota \in 0..InflightMax /\ d \in MsgData
  BY <1>m, DataFields, SMTT(20)
<1>2. PICK I \in Seq(Msg), Q \in Seq(Msg), S \in Seq(Msg) :
        I = d.inflight /\ Q = d.queued /\ S = d.storage
  BY <1>1, Zenon
<1> DEFINE a == TakeFirst(Q, n)
           b == DropFirst(Q, n)
<1>3. n \in 0..Len(Q)
  BY <1>2, Zenon
<1>4. /\ Q = a \o b /\ a \in Seq(Msg) /\ b \in Seq(Msg)
      /\ Len(a) = n /\ \A i \in 1..n : a[i] = Q[i]
  BY <1>3, SplitList, TakeDropProperties, Zenon
<1>5. /\ moved = [i \in 1..n |-> ToPublish(Q[i])]
      /\ \A i \in 1..n : moved[i] = ToPublish(a[i])
  BY <1>2, <1>4, Zenon
<1>6. /\ DOMAIN a = 1..n /\ \A i \in 1..n : a[i] \in Msg
      /\ n \in Nat
  BY <1>3, <1>4, SMTT(20)
<1>7. \A i \in 1..n : /\ moved[i] \in Msg /\ moved[i].state \in PublishStates
                      /\ moved[i].id = a[i].id /\ moved[i].mid = a[i].mid
                      /\ moved[i].kind = a[i].kind
                      /\ moved[i].state = PublishState(a[i].kind.qos)
  <2>1. ASSUME NEW i \in 1..n PROVE a[i] \in Msg /\ moved[i] = ToPublish(a[i])
    BY <1>5, <1>6, Zenon
  <2> HIDE DEF moved, a
  <2> QED BY <2>1, PublishStateOf, ZenonT(40)
<1>8. moved \in Seq(Msg) /\ DOMAIN moved = 1..n
  <2>1. DOMAIN moved = 1..n /\ moved \in [1..n -> Msg]
    BY <1>7, Zenon
  <2> HIDE DEF moved, a
  <2> QED BY <1>6, <1>7, <2>1, MappedList, Zenon
<1>9. e \in Data(Msg)
  BY <1>m, DequeueType, Zenon
<1>10. /\ e.inflight = I \o moved /\ e.queued = b /\ e.storage = S /\ e.out = d.out
  <2>1. e = [d EXCEPT !.inflight = I \o moved, !.queued = b,
                      !.inflight_quota = Spend(d.inflight_quota, n)]
    BY <1>2, Zenon DEF Dequeue
  <2> HIDE DEF e, moved, b
  <2> QED BY <1>1, <1>2, <2>1, Zenon DEF MsgData
<1> HIDE DEF moved, a, b, e
<1>11. /\ Elements(e.inflight) = Elements(I) \cup Elements(moved)
       /\ Elements(Q) = Elements(a) \cup Elements(b)
  <2>1. Elements(I \o moved) = Elements(I) \cup Elements(moved)
    BY <1>8, ConcatMsgs, Zenon
  <2>2. Elements(a \o b) = Elements(a) \cup Elements(b)
    BY <1>4, ConcatMsgs, Zenon
  <2> QED BY <1>4, <1>10, <2>1, <2>2, Zenon
<1>12. /\ Late(d) = Elements(a) \cup Elements(b) \cup Elements(S)
       /\ Late(e) = Elements(b) \cup Elements(S)
       /\ HeldIn(d) = Elements(I) \cup Elements(a) \cup Elements(b) \cup Elements(S)
       /\ HeldIn(e) = Elements(I) \cup Elements(moved) \cup Elements(b) \cup Elements(S)
  BY <1>2, <1>10, <1>11, Zenon DEF Late, HeldIn
<1>13. ASSUME NEW x \in Elements(moved) PROVE \E m \in Late(d) : Moved(x, m)
  <2>1. PICK i \in 1..n : x = moved[i]
    BY <1>8, Zenon DEF Elements
  <2>2. a[i] \in Late(d)
    BY <1>6, <1>12, <2>1, Zenon DEF Elements
  <2>3. Moved(x, a[i])
    BY <1>7, <2>1, <2>2, Zenon DEF Moved
  <2> QED BY <2>2, <2>3, Zenon
<1>14. ASSUME NEW x \in Late(e) PROVE \E m \in Late(d) : Moved(x, m)
  <2>1. x \in Late(d)
    BY <1>12, SMTT(20)
  <2> QED BY <2>1, Zenon DEF Moved
<1>15. ASSUME NEW m \in HeldIn(d) PROVE \E x \in HeldIn(e) : x.id = m.id
  <2>1. CASE m \in Elements(a)
    <3>1. PICK i \in 1..n : m = a[i]
      BY <1>6, <2>1, Zenon DEF Elements
    <3>2. moved[i] \in Elements(moved)
      BY <1>8, Zenon DEF Elements
    <3> QED BY <1>7, <1>12, <3>1, <3>2, Zenon
  <2>2. CASE m \notin Elements(a)
    BY <1>12, <2>2, Zenon
  <2> QED BY <2>1, <2>2, Zenon
<1>16. ASSUME Unique(d) PROVE Unique(e)
  <2>1. /\ Distinct(I) /\ Distinct(a \o b) /\ Distinct(S)
        /\ Apart(I, a \o b) /\ Apart(I, S) /\ Apart(a \o b, S)
    BY <1>2, <1>4, <1>16, Zenon DEF Unique
  <2>2. SameIds(moved, a)
    BY <1>6, <1>7, <1>8, Zenon DEF SameIds
  <2>3. /\ Distinct(I \o moved) /\ Distinct(b) /\ Apart(I \o moved, b)
        /\ Apart(I \o moved, S) /\ Apart(b, S)
    BY <1>4, <1>8, <2>1, <2>2, UniqueDequeue, Zenon
  <2> QED BY <1>10, <2>1, <2>3, Zenon DEF Unique
<1>17. ASSUME UnsentLast(d.inflight) PROVE UnsentLast(e.inflight)
  <2>1. \A m \in Elements(moved) : m.state \in PublishStates
    BY <1>7, <1>8, Zenon DEF Elements
  <2> QED BY <1>2, <1>8, <1>10, <1>17, <2>1, UnsentAppended, Zenon
<1> QED BY <1>2, <1>9, <1>10, <1>11, <1>13, <1>14, <1>15, <1>16, <1>17, Zenon DEF Shuffled, e

\* db__message_write_storage_out moves messages that have not been sent.
LEMMA StorageShuffled ==
    ASSUME Counting, NEW d \in Data(Msg), NEW md, \A m \in Late(d) : m.state \in IdleStates
    PROVE  Shuffled(d, db__message_write_storage_out(d, md))
<1>m. Msg \in Inflights
  BY SMTT(20) DEF Inflights
<1>1. /\ d.inflight \in Seq(Msg) /\ d.queued \in Seq(Msg) /\ d.storage \in Seq(Msg)
      /\ d.inflight_quota \in 0..InflightMax /\ d \in MsgData /\ OldestFirst(d.storage)
  BY <1>m, DataFields, SMTT(20)
<1>2. PICK I \in Seq(Msg), Q \in Seq(Msg), s \in Seq(Msg) :
        I = d.inflight /\ Q = d.queued /\ s = d.storage
  BY <1>1, SMTT(20)
<1> DEFINE Due     == {h \in DOMAIN s : s[h].age > StoreTimeout \/ md = "normal"}
           moved   == Cardinality(Due)
           flying  == IF InflightMax = 0 THEN moved
                      ELSE Lesser(moved, d.inflight_quota)
           marked  == [i \in DOMAIN s |->
                         IF i \in Due /\ Rank(Due, i) <= flying
                         THEN ToPublish(s[i]) ELSE s[i]]
           leaving == [i \in 1..moved |-> Unstored(marked[i])]
           a       == TakeFirst(marked, moved)
           c       == DropFirst(marked, moved)
           x       == TakeFirst(leaving, flying)
           y       == DropFirst(leaving, flying)
           quota   == Spend(d.inflight_quota, flying)
           e       == db__message_write_storage_out(d, md)
<1>3. e \in Data(Msg)
  BY <1>m, WriteStorageType, SMTT(20)
<1>4. /\ e.inflight = I \o x /\ e.queued = Q \o y /\ e.storage = c /\ e.out = d.out
  <2>1. e = [d EXCEPT !.inflight = d.inflight \o x, !.queued = d.queued \o y,
                      !.storage = c, !.inflight_quota = quota]
    BY <1>2 DEF db__message_write_storage_out
  <2> HIDE DEF e, x, y, c, quota
  <2> QED BY <1>1, <1>2, <2>1, SMTT(20) DEF MsgData
<1>5. Len(s) \in Nat /\ DOMAIN s = 1..Len(s) /\ Due \in SUBSET (1..Len(s))
  BY SMTT(20)
<1>6. moved \in Nat /\ moved <= Len(s)
  BY <1>5, RankProperties, SMTT(20)
<1>7. flying \in 0..moved
  <2>1. d.inflight_quota \in Nat
    BY <1>1, ConstantsAssumption
  <2> HIDE DEF moved
  <2> QED BY <1>6, <2>1, SMTT(20) DEF Lesser
<1>8. \A i \in 1..moved : i \in Due /\ Rank(Due, i) <= i
  <2>1. OldestFirst(s)
    BY <1>1, <1>2, SMTT(20)
  <2> QED BY <2>1, DueIsPrefix, ZenonT(40)
<1> HIDE DEF Due, moved, flying, e
<1>9. \A i \in DOMAIN s :
        /\ marked[i] \in Msg /\ marked[i].id = s[i].id /\ marked[i].mid = s[i].mid
        /\ marked[i].kind = s[i].kind
        /\ marked[i].state = s[i].state \/ marked[i].state = PublishState(s[i].kind.qos)
        /\ i \in Due /\ Rank(Due, i) <= flying => marked[i].state \in PublishStates
  <2>1. \A i \in DOMAIN s : s[i] \in Msg
    OBVIOUS
  <2> QED BY <2>1, PublishStateOf, Zenon
<1>10. marked \in Seq(Msg) /\ Len(marked) = Len(s) /\ DOMAIN marked = DOMAIN s /\ SameIds(marked, s)
  <2>1. marked \in [1..Len(s) -> Msg] /\ DOMAIN marked = DOMAIN s
    BY <1>5, <1>9, Zenon
  <2> HIDE DEF marked
  <2> QED BY <1>5, <1>9, <2>1, MappedList, Zenon
<1>11. moved \in 0..Len(marked)
  BY <1>6, <1>10, SMTT(20)
<1> HIDE DEF marked
<1>12. /\ marked = a \o c /\ a \in Seq(Msg) /\ c \in Seq(Msg) /\ Len(a) = moved
       /\ \A i \in 1..moved : a[i] = marked[i]
  BY <1>10, <1>11, SplitList, TakeDropProperties, Zenon
<1>13. ASSUME NEW i \in 1..moved
       PROVE  /\ i \in DOMAIN s /\ leaving[i] \in Msg
              /\ leaving[i].id = marked[i].id /\ leaving[i].mid = marked[i].mid
              /\ leaving[i].kind = marked[i].kind /\ leaving[i].state = marked[i].state
  <2>1. i \in DOMAIN s
    BY <1>5, <1>6, SMTT(20)
  <2>2. marked[i] \in Msg
    BY <1>9, <2>1, Zenon
  <2>3. leaving[i] = Unstored(marked[i])
    BY Zenon
  <2>4. Unstored(marked[i]) \in Msg
    BY <2>2, UnstoredType, Zenon
  <2> QED BY <2>1, <2>2, <2>3, <2>4, Zenon DEF Unstored, Msg
<1>14. leaving \in Seq(Msg) /\ Len(leaving) = moved /\ DOMAIN leaving = 1..moved
         /\ SameIds(leaving, a)
  <2>1. leaving \in [1..moved -> Msg]
    BY <1>13, SMTT(20)
  <2>2. DOMAIN a = 1..moved
    BY <1>6, <1>12
  <2> HIDE DEF leaving, a
  <2>3. \A i \in 1..moved : leaving[i].id = a[i].id
    BY <1>12, <1>13, Zenon
  <2> QED BY <1>6, <2>1, <2>2, <2>3, MappedList, Zenon
<1> HIDE DEF leaving, a
<1>15. flying \in 0..Len(leaving) /\ flying \in Nat
  BY <1>6, <1>7, <1>14, SMTT(20)
<1>16. /\ leaving = x \o y /\ x \in Seq(Msg) /\ y \in Seq(Msg) /\ Len(x) = flying
       /\ \A i \in 1..flying : x[i] = leaving[i]
  BY <1>14, <1>15, SplitList, TakeDropProperties, Zenon
<1> HIDE DEF x, y, c
<1>17. /\ Elements(e.inflight) = Elements(I) \cup Elements(x)
       /\ Elements(e.queued) = Elements(Q) \cup Elements(y)
       /\ Elements(leaving) = Elements(x) \cup Elements(y)
       /\ Elements(marked) = Elements(a) \cup Elements(c)
  <2>1. Elements(I \o x) = Elements(I) \cup Elements(x)
    BY <1>16, ConcatMsgs, Zenon
  <2>2. Elements(Q \o y) = Elements(Q) \cup Elements(y)
    BY <1>16, ConcatMsgs, Zenon
  <2>3. Elements(x \o y) = Elements(x) \cup Elements(y)
    BY <1>16, ConcatMsgs, Zenon
  <2>4. Elements(a \o c) = Elements(a) \cup Elements(c)
    BY <1>12, ConcatMsgs, Zenon
  <2> QED BY <1>4, <1>12, <1>16, <2>1, <2>2, <2>3, <2>4, Zenon
<1>18. /\ Late(d) = Elements(Q) \cup Elements(s)
       /\ Late(e) = Elements(Q) \cup Elements(y) \cup Elements(c)
       /\ HeldIn(d) = Elements(I) \cup Elements(Q) \cup Elements(s)
       /\ HeldIn(e) = Elements(I) \cup Elements(Q) \cup Elements(leaving) \cup Elements(c)
  BY <1>2, <1>4, <1>17, Zenon DEF Late, HeldIn
<1>19. ASSUME NEW z \in Elements(leaving) \cup Elements(marked)
       PROVE  \E m \in Late(d) : Moved(z, m)
  <2>1. PICK i \in DOMAIN s : /\ z.id = marked[i].id /\ z.mid = marked[i].mid
                              /\ z.kind = marked[i].kind /\ z.state = marked[i].state
    <3>1. CASE z \in Elements(leaving)
      <4>1. PICK i \in 1..moved : z = leaving[i]
        BY <1>14, <3>1, SMTT(20) DEF Elements
      <4> QED BY <1>13, <4>1, Zenon
    <3>2. CASE z \in Elements(marked)
      BY <1>10, <3>2, Zenon DEF Elements
    <3> QED BY <3>1, <3>2, Zenon
  <2>2. s[i] \in Elements(s) /\ s[i] \in Late(d)
    BY <1>18, Zenon DEF Elements
  <2>3. Moved(z, s[i])
    BY <1>9, <2>1, <2>2, Zenon DEF Moved
  <2> QED BY <2>2, <2>3, SMTT(20)
<1>20. ASSUME NEW z \in Elements(e.inflight)
       PROVE  z \in Elements(d.inflight) \/ \E m \in Late(d) : Moved(z, m)
  BY <1>2, <1>17, <1>19, Zenon
<1>21. ASSUME NEW z \in Late(e) PROVE \E m \in Late(d) : Moved(z, m)
  <2>1. CASE z \in Elements(Q)
    <3>1. z \in Late(d)
      BY <1>18, <2>1, Zenon
    <3> QED BY <3>1, Zenon DEF Moved
  <2>2. CASE z \notin Elements(Q)
    BY <1>17, <1>18, <1>19, <2>2, Zenon
  <2> QED BY <2>1, <2>2, Zenon
<1>22. ASSUME NEW m \in HeldIn(d) PROVE \E z \in HeldIn(e) : z.id = m.id
  <2>1. CASE m \in Elements(s)
    <3>1. PICK i \in DOMAIN s : m = s[i]
      BY <2>1, Zenon DEF Elements
    <3>2. marked[i] \in Elements(a) \cup Elements(c) /\ marked[i].id = m.id
      BY <1>9, <1>10, <1>17, <3>1, Zenon DEF Elements
    <3>3. CASE marked[i] \in Elements(a)
      <4>1. PICK j \in DOMAIN a : marked[i] = a[j]
        BY <3>3, SMTT(20) DEF Elements
      <4>2. leaving[j] \in Elements(leaving) /\ leaving[j].id = a[j].id
        BY <1>14, <4>1, Zenon DEF Elements, SameIds
      <4> QED BY <1>18, <3>2, <4>1, <4>2, Zenon
    <3>4. CASE marked[i] \in Elements(c)
      BY <1>18, <3>2, <3>4, Zenon
    <3> QED BY <3>2, <3>3, <3>4, SMTT(20)
  <2>2. CASE m \notin Elements(s)
    BY <1>18, <2>2, Zenon
  <2> QED BY <2>1, <2>2, SMTT(20)
<1>23. ASSUME Unique(d) PROVE Unique(e)
  <2>1. /\ Distinct(I) /\ Distinct(Q) /\ Distinct(s)
        /\ Apart(I, Q) /\ Apart(I, s) /\ Apart(Q, s)
    BY <1>2, <1>23, Zenon DEF Unique
  <2>2. Distinct(marked) /\ Apart(I, marked) /\ Apart(Q, marked)
    BY <1>10, <2>1, SameIdsKeep, Zenon
  <2>3. /\ Distinct(a \o c) /\ Apart(I, a \o c) /\ Apart(Q, a \o c) /\ SameIds(x \o y, a)
    BY <1>12, <1>14, <1>16, <2>2, Zenon
  <2>4. a \in Seq(Msg) /\ c \in Seq(Msg) /\ x \in Seq(Msg) /\ y \in Seq(Msg)
    BY <1>12, <1>16, Zenon
  <2>5. /\ Distinct(I \o x) /\ Distinct(Q \o y) /\ Distinct(c)
        /\ Apart(I \o x, Q \o y) /\ Apart(I \o x, c) /\ Apart(Q \o y, c)
    BY <2>1, <2>3, <2>4, UniqueStorage, SMTT(30)
  <2> QED BY <1>4, <2>5, Zenon DEF Unique
<1>24. ASSUME UnsentLast(d.inflight) PROVE UnsentLast(e.inflight)
  <2>1. ASSUME NEW i \in 1..flying PROVE x[i].state \in PublishStates
    <3>1. i \in 1..moved /\ i \in DOMAIN s
      BY <1>6, <1>7, <1>13, SMTT(20)
    <3>2. Rank(Due, i) <= flying
      <4>1. i \in Due /\ Rank(Due, i) <= i
        BY <1>8, <3>1, SMTT(20)
      <4>2. Rank(Due, i) \in Int
        <5>1. \A h \in Due : Rank(Due, h) \in 1..moved
          BY <1>5, RankProperties, Zenon DEF moved
        <5> QED BY <4>1, <5>1, SMTT(20)
      <4> QED BY <1>15, <4>1, <4>2, SMTT(20)
    <3> QED BY <1>8, <1>9, <1>13, <1>16, <3>1, <3>2, Zenon
  <2>2. DOMAIN x = 1..flying
    BY <1>15, <1>16, SMTT(20)
  <2>3. \A m \in Elements(x) : m.state \in PublishStates
    BY <2>1, <2>2, SMTT(20) DEF Elements
  <2> QED BY <1>2, <1>4, <1>16, <1>24, <2>3, UnsentAppended, Zenon
<1> QED BY <1>3, <1>4, <1>20, <1>21, <1>22, <1>23, <1>24, Zenon DEF Shuffled, e

-----------------------------------------------------------------------------
(* Writing the inflight list                                               *)

\* What db__message_write_inflight_out_single does with one message: one that it
\* sends had nothing under way and then waits for the answer; one that it neither
\* sends nor drops stays as it is.
LEMMA SendOne ==
    ASSUME NEW m \in Msg, NEW B, MsgOK(m, B)
    PROVE  /\ AfterSend(m) \in Msg /\ AfterSend(m).id = m.id
           /\ PacketOf(m) \in Packet /\ PacketOf(m).id = m.id
           /\ Transmitted(m) => Expect(m.state) = {} /\ TokenOK(PacketOf(m), B)
           /\ ~Dropped(m) /\ Transmitted(m) =>
                PacketOf(m).type \in Expect(AfterSend(m).state)
           /\ ~Dropped(m) /\ ~Transmitted(m) => AfterSend(m) = m
           /\ ~Dropped(m) => /\ MsgOK(AfterSend(m), B)
                             /\ AfterSend(m).state # "resend_pubrel"
                             /\ AfterSend(m).state \notin PublishStates
<1> DEFINE n == AfterSend(m)
           p == PacketOf(m)
<1>1. /\ m.id \in 1..MaxMsgs /\ m.mid \in 0..MaxMid /\ m.kind.qos \in 0..2
      /\ m.state \in States
  BY MsgFields, Zenon
<1>2. p \in Packet /\ n \in Msg
  BY PacketOfType, AfterSendType, SMTT(20) DEF Inflights
<1>3. /\ p.id = m.id /\ p.mid = m.mid /\ p.qos = m.kind.qos
      /\ p.type = IF m.state = "resend_pubrel" THEN "PUBREL" ELSE "PUBLISH"
  BY Zenon DEF PacketOf
<1>4. /\ n.id = m.id /\ n.mid = m.mid /\ n.kind = m.kind
      /\ m.state = "publish_qos1" => n.state = "wait_for_puback"
      /\ m.state = "publish_qos2" => n.state = "wait_for_pubrec"
      /\ m.state = "resend_pubrel" => n.state = "wait_for_pubcomp"
      /\ m.state \notin {"publish_qos1", "publish_qos2", "resend_pubrel"} => n = m
  BY Zenon DEF AfterSend, Msg
<1>5. /\ InBook(m, B) /\ m.kind = B.name[m.id].kind
      /\ m.state \in PublishStates => m.state = PublishState(m.kind.qos)
      /\ m.state = "wait_for_puback" => m.kind.qos = 1
      /\ m.state = "wait_for_pubrec" => m.kind.qos = 2
      /\ m.state \in Released => m.kind.qos = 2 /\ m.id \in B.got
      /\ m.kind.qos = 2 /\ m.id \in B.got => m.id \in B.open \/ m.state \in Released
  BY Zenon DEF MsgOK
<1>6. /\ m.state = "publish_qos1" => m.kind.qos = 1
      /\ m.state = "publish_qos2" => m.kind.qos = 2
      /\ m.state = "publish_qos0" => m.kind.qos = 0
  BY <1>1, <1>5, SMTT(20) DEF PublishState, PublishStates
<1> HIDE DEF n, p
<1>7. ASSUME Transmitted(m) PROVE Expect(m.state) = {} /\ TokenOK(p, B)
  <2>1. m.state \in PublishStates \/ m.state = "resend_pubrel"
    BY <1>7, SMTT(20) DEF Transmitted
  <2>2. Expect(m.state) = {}
    BY <2>1, IdleExpects, SMTT(20)
  <2>3. InBook(p, B)
    BY <1>3, <1>5, Zenon DEF InBook
  <2>4. CASE m.state \in PublishStates
    <3>1. p.type = "PUBLISH" /\ m.state \notin Released
      BY <1>3, <2>4, SMTT(20) DEF PublishStates, Released
    <3> QED BY <1>3, <1>5, <2>2, <2>3, <3>1, Zenon DEF TokenOK
  <2>5. CASE m.state = "resend_pubrel"
    <3>1. p.type = "PUBREL" /\ m.kind.qos = 2 /\ m.id \in B.got
      BY <1>3, <1>5, <2>5, Zenon DEF Released
    <3> QED BY <1>3, <1>5, <2>2, <2>3, <3>1, Zenon DEF TokenOK
  <2> QED BY <2>1, <2>4, <2>5, SMTT(20)
<1>8. ASSUME ~Dropped(m), Transmitted(m)
      PROVE  /\ p.type \in Expect(n.state) /\ MsgOK(n, B)
             /\ n.state # "resend_pubrel" /\ n.state \notin PublishStates
  <2>1. m.state \in {"publish_qos1", "publish_qos2", "resend_pubrel"}
    BY <1>6, <1>8, SMTT(20) DEF Transmitted, Dropped, PublishStates
  <2>2. InBook(n, B) /\ n.kind = B.name[n.id].kind
    BY <1>4, <1>5, Zenon DEF InBook
  <2>3. CASE m.state = "publish_qos1"
    <3>1. n.state = "wait_for_puback" /\ n.kind.qos = 1 /\ p.type = "PUBLISH"
      BY <1>3, <1>4, <1>6, <2>3, Zenon
    <3> QED BY <2>2, <3>1, SMTT(20) DEF MsgOK, Expect, PublishStates, Released
  <2>4. CASE m.state = "publish_qos2"
    <3>1. n.state = "wait_for_pubrec" /\ n.kind.qos = 2 /\ p.type = "PUBLISH"
            /\ (n.id \in B.got => n.id \in B.open)
      BY <1>3, <1>4, <1>5, <1>6, <2>4, Zenon DEF Released
    <3> QED BY <2>2, <3>1, SMTT(20) DEF MsgOK, Expect, PublishStates, Released
  <2>5. CASE m.state = "resend_pubrel"
    <3>1. n.state = "wait_for_pubcomp" /\ n.kind.qos = 2 /\ p.type = "PUBREL" /\ n.id \in B.got
      BY <1>3, <1>4, <1>5, <2>5, Zenon DEF Released
    <3> QED BY <2>2, <3>1, Zenon DEF MsgOK, Expect, PublishStates, Released
  <2> QED BY <2>1, <2>3, <2>4, <2>5, SMTT(20)
<1>9. ASSUME ~Dropped(m), ~Transmitted(m)
      PROVE  n = m /\ m.state # "resend_pubrel" /\ m.state \notin PublishStates
  <2>1. m.state # "resend_pubrel" /\ m.state \notin PublishStates
    BY <1>9, Zenon DEF Transmitted, Dropped
  <2> QED BY <1>4, <2>1, SMTT(20) DEF PublishStates
<1> QED BY <1>2, <1>3, <1>4, <1>7, <1>8, <1>9, Zenon DEF n, p

\* The lists that a traversal of the inflight list leaves, by its positions.
LEMMA WriteFromLists ==
    ASSUME Counting, NEW d \in Data(Msg), NEW from \in 1..(Len(d.inflight) + 1), NEW s
    PROVE  LET l       == d.inflight
               e       == WriteFrom(d, from, s)
               Handled == from..LastSent(l, from, s)
               Kept    == {i \in DOMAIN l : i \notin Handled \/ ~Dropped(l[i])}
               Sending == {i \in Handled : Transmitted(l[i])}
               after   == [i \in DOMAIN l |->
                             IF i \in Handled THEN AfterSend(l[i]) ELSE l[i]]
               packets == [i \in DOMAIN l |-> PacketOf(l[i])]
           IN  /\ e \in Data(Msg) /\ e.queued = d.queued /\ e.storage = d.storage
               /\ e.inflight = Pick(after, Kept) /\ after \in Seq(Msg)
               /\ e.out = d.out \o Pick(packets, Sending) /\ packets \in Seq(Packet)
               /\ DOMAIN after = DOMAIN l /\ DOMAIN packets = DOMAIN l
               /\ Kept \in SUBSET DOMAIN l /\ Sending \in SUBSET DOMAIN l
<1> DEFINE l       == d.inflight
           e       == WriteFrom(d, from, s)
           to      == LastSent(l, from, s)
           Handled == from..to
           Kept    == {i \in DOMAIN l : i \notin Handled \/ ~Dropped(l[i])}
           Sending == {i \in Handled : Transmitted(l[i])}
           after   == [i \in DOMAIN l |->
                         IF i \in Handled THEN AfterSend(l[i]) ELSE l[i]]
           packets == [i \in DOMAIN l |-> PacketOf(l[i])]
           Counted == CountedRemovals(l, Handled)
           Freed   == {i \in Handled : l[i].kind.qos > 0 /\ Expired(l[i])}
           inflight == Pick(after, Kept)
           out      == d.out \o Pick(packets, Sending)
           quota    == Refund(d.inflight_quota, Cardinality(Freed))
           count    == d.msg_count12 - Cardinality(Counted)
           probing  == d.probing \/ \E i \in from..Lesser(to + 1, Len(l)) :
                                      /\ l[i].state \in PublishStates
                                      /\ l[i].kind.latency
                                      /\ ~Expired(l[i])
<1>m. Msg \in Inflights
  BY SMTT(20) DEF Inflights
<1>1. l \in Seq(Msg) /\ Len(l) \in Nat /\ DOMAIN l = 1..Len(l) /\ d \in MsgData
  BY <1>m, DataFields, SMTT(20)
<1>2. to \in 0..Len(l)
  BY <1>1, LastSentType, SMTT(20)
<1>3. e \in Data(Msg)
  BY <1>m, WriteFromType, Zenon
<1>4. e = [d EXCEPT !.inflight = inflight, !.out = out, !.inflight_quota = quota,
                    !.msg_count12 = count, !.probing = probing]
  BY Zenon DEF WriteFrom
<1>5. /\ e.inflight = inflight /\ e.out = out /\ e.queued = d.queued /\ e.storage = d.storage
  <2> HIDE DEF inflight, out, quota, count, probing, e
  <2> QED BY <1>1, <1>4, SMTT(20) DEF MsgData
<1>6. \A i \in DOMAIN l : l[i] \in Msg /\ AfterSend(l[i]) \in Msg /\ PacketOf(l[i]) \in Packet
  BY <1>m, <1>1, AfterSendType, PacketOfType, SMTT(20)
<1>7. Kept \in SUBSET DOMAIN l /\ Sending \in SUBSET DOMAIN l
  BY <1>1, <1>2, SMTT(20)
<1> HIDE DEF Handled, Kept, Sending, l
<1>8. after \in Seq(Msg) /\ DOMAIN after = DOMAIN l
  BY <1>1, <1>6, SMTT(20)
<1>9. packets \in Seq(Packet) /\ DOMAIN packets = DOMAIN l
  BY <1>1, <1>6
<1> HIDE DEF after, packets
<1>10. /\ e \in Data(Msg) /\ e.queued = d.queued /\ e.storage = d.storage
       /\ e.inflight = Pick(after, Kept) /\ after \in Seq(Msg)
       /\ e.out = d.out \o Pick(packets, Sending) /\ packets \in Seq(Packet)
       /\ DOMAIN after = DOMAIN l /\ DOMAIN packets = DOMAIN l
       /\ Kept \in SUBSET DOMAIN l /\ Sending \in SUBSET DOMAIN l
  BY <1>3, <1>5, <1>7, <1>8, <1>9, Zenon
<1> QED BY <1>10, Zenon DEF e, l, Handled, Kept, Sending, after, packets, to
=============================================================================
