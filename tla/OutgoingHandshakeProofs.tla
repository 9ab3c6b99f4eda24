---------------------- MODULE OutgoingHandshakeProofs -----------------------
(***************************************************************************)
(* The handshake of each message that the broker sends to a subscriber.    *)
(* Every accepted message has, at any time, at most one packet under way,  *)
(* and that packet is one its state on the inflight list waits for.  This  *)
(* is the invariant Sound, which the functions of database.c that write,   *)
(* insert, acknowledge, drop and reset messages preserve, and the exchange *)
(* with the client.  The steps are in OutgoingMessagesProofs.              *)
(***************************************************************************)
EXTENDS OutgoingListsProofs

-----------------------------------------------------------------------------
(* Writing the inflight list                                               *)

\* Writing the inflight list from a position on, behind which lie all the messages
\* not yet sent, keeps every handshake.  Inside the handler of a CONNECT it writes
\* the whole list, which is then as on any connection.
LEMMA WriteFromSound ==
    ASSUME Counting, NEW d, NEW in, NEW phase \in {"live", "resuming"}, NEW B,
           Sound(d, in, phase, B), OwedOK(B),
           NEW from \in 1..(Len(d.inflight) + 1), NEW s,
           \A i \in 1..(from - 1) : d.inflight[i].state \notin PublishStates,
           phase = "live" \/ (from = 1 /\ s = "up")
    PROVE  Sound(WriteFrom(d, from, s), in, "live", B)
<1> DEFINE l       == d.inflight
           e       == WriteFrom(d, from, s)
           to      == LastSent(l, from, s)
           Handled == from..to
           Kept    == {i \in DOMAIN l : i \notin Handled \/ ~Dropped(l[i])}
           Sending == {i \in Handled : Transmitted(l[i])}
           after   == [i \in DOMAIN l |->
                         IF i \in Handled THEN AfterSend(l[i]) ELSE l[i]]
           packets == [i \in DOMAIN l |-> PacketOf(l[i])]
           sent    == Pick(packets, Sending)
<1>1. /\ d \in Data(Msg) /\ ListsOK(d, B) /\ WiresOK(d, in, TRUE, B)
      /\ phase # "resuming" => Rested(d)
      /\ phase = "live" => UnsentLast(l)
      /\ Holds(d, B)
  BY Zenon DEF Sound
<1>2. /\ Unique(d) /\ \A m \in HeldIn(d) : MsgOK(m, B)
      /\ \A m \in Late(d) : m.state \in IdleStates
  BY <1>1, Zenon DEF ListsOK
<1>3. /\ Distinct(d.out) /\ Distinct(in) /\ Apart(d.out, in)
      /\ \A t \in Tokens(d, in) : TokenOK(t, B)
      /\ \A m \in HeldIn(d), t \in Tokens(d, in) : Match(m, t)
      /\ \A m \in Elements(l) : Expect(m.state) # {} => \E t \in Tokens(d, in) : t.id = m.id
  BY <1>1, Zenon DEF WiresOK
<1>4. /\ e \in Data(Msg) /\ e.queued = d.queued /\ e.storage = d.storage
      /\ e.inflight = Pick(after, Kept) /\ after \in Seq(Msg)
      /\ e.out = d.out \o sent /\ packets \in Seq(Packet)
      /\ DOMAIN after = DOMAIN l /\ DOMAIN packets = DOMAIN l
      /\ Kept \in SUBSET DOMAIN l /\ Sending \in SUBSET DOMAIN l
  BY <1>1, WriteFromLists, Zenon
<1>5. /\ l \in Seq(Msg) /\ Len(l) \in Nat /\ DOMAIN l = 1..Len(l) /\ d.out \in Seq(Packet)
  BY <1>1, DataFields DEF Inflights
<1>6. to \in 0..Len(l) /\ (s = "up" => to = Len(l))
  <2>1. to \in 0..Len(l)
    BY <1>5, LastSentType, Zenon
  <2>2. s = "up" => ~SendFails(l, from, s)
    BY Zenon DEF SendFails
  <2> QED BY <2>1, <2>2, Zenon DEF LastSent
<1>7. /\ \A i \in DOMAIN l : after[i] = IF i \in Handled THEN AfterSend(l[i]) ELSE l[i]
      /\ \A i \in DOMAIN l : packets[i] = PacketOf(l[i])
      /\ \A i \in DOMAIN l : i \in Kept <=> i \notin Handled \/ ~Dropped(l[i])
      /\ \A i \in DOMAIN l : i \in Sending <=> i \in Handled /\ Transmitted(l[i])
      /\ \A i \in DOMAIN l : i \in Handled <=> from <= i /\ i <= to
  <2>1. \A i \in DOMAIN l : i \in Handled <=> from <= i /\ i <= to
    BY <1>5, <1>6
  <2> QED BY <2>1, Zenon
<1>a. Kept \in SUBSET DOMAIN after /\ Sending \in SUBSET DOMAIN packets
  BY <1>4, Zenon
<1>b. /\ \A i \in DOMAIN l : i \in Int /\ i <= Len(l) /\ i >= 1
      /\ from \in Int /\ to \in Int /\ Len(l) \in Int
      /\ phase = "live" \/ (from = 1 /\ to = Len(l))
  BY <1>5, <1>6
<1>8. /\ HeldIn(d) \subseteq Msg /\ Late(d) \subseteq HeldIn(d)
      /\ \A i \in DOMAIN l : l[i] \in Elements(l) /\ l[i] \in HeldIn(d) /\ l[i] \in Msg
  BY <1>1, <1>5, HeldType, Zenon DEF Elements, HeldIn
<1> HIDE DEF e, to, Handled, Kept, Sending, after, packets, sent, l
<1>9. \A i \in DOMAIN l :
        LET m == l[i]
        IN  /\ AfterSend(m).id = m.id /\ PacketOf(m).id = m.id
            /\ Transmitted(m) => Expect(m.state) = {} /\ TokenOK(PacketOf(m), B)
            /\ ~Dropped(m) /\ Transmitted(m) =>
                 PacketOf(m).type \in Expect(AfterSend(m).state)
            /\ ~Dropped(m) /\ ~Transmitted(m) => AfterSend(m) = m
            /\ ~Dropped(m) => /\ MsgOK(AfterSend(m), B)
                              /\ AfterSend(m).state # "resend_pubrel"
                              /\ AfterSend(m).state \notin PublishStates
  BY <1>2, <1>8, SendOne, Zenon
<1>10. \A i \in DOMAIN l : after[i].id = l[i].id /\ packets[i].id = l[i].id
  BY <1>7, <1>9, ZenonT(40)
<1>11. SameIds(after, l) /\ SameIds(packets, l)
  BY <1>4, <1>10, Zenon DEF SameIds
<1>12. /\ sent \in Seq(Packet) /\ Elements(sent) = {packets[i] : i \in Sending}
       /\ Distinct(packets) => Distinct(sent)
  BY <1>4, PickEntries, Zenon DEF sent
<1>13. /\ Elements(e.inflight) = {after[i] : i \in Kept}
       /\ Late(e) = Late(d) /\ HeldIn(e) = {after[i] : i \in Kept} \cup Late(d)
  <2>1. Elements(e.inflight) = {after[i] : i \in Kept}
    <3>1. e.inflight = Pick(after, Kept) /\ after \in Seq(Msg) /\ Kept \in SUBSET DOMAIN after
      BY <1>4, <1>a, Zenon
    <3>2. Elements(Pick(after, Kept)) = {after[i] : i \in Kept}
      BY <3>1, PickEntries, Zenon
    <3> QED BY <3>1, <3>2, Zenon
  <2>2. Late(e) = Late(d)
    BY <1>4, Zenon DEF Late
  <2> QED BY <2>1, <2>2, Zenon DEF HeldIn
<1>14. Tokens(e, in) = Tokens(d, in) \cup {packets[i] : i \in Sending}
  <2>1. Elements(d.out \o sent) = Elements(d.out) \cup Elements(sent)
    BY <1>5, <1>12, ConcatEntries
  <2> QED BY <1>4, <1>12, <2>1, Zenon DEF Tokens
<1>15. \A i \in Sending : i \in DOMAIN l /\ Transmitted(l[i]) /\ packets[i] = PacketOf(l[i])
                            /\ i \in Handled
  BY <1>4, <1>7, Zenon
<1>16. ASSUME NEW i \in Sending, NEW t \in Tokens(d, in) PROVE t.id # packets[i].id
  <2>1. Expect(l[i].state) = {} /\ Match(l[i], t) /\ packets[i].id = l[i].id
    BY <1>3, <1>8, <1>9, <1>10, <1>15, Zenon
  <2> QED BY <2>1, Zenon DEF Match
<1>17. ASSUME NEW i \in Kept
       PROVE  /\ i \in DOMAIN l /\ after[i].id = l[i].id /\ MsgOK(after[i], B)
              /\ i \notin Handled => after[i] = l[i]
              /\ i \in Handled => /\ after[i] = AfterSend(l[i]) /\ ~Dropped(l[i])
                                  /\ after[i].state # "resend_pubrel"
                                  /\ after[i].state \notin PublishStates
  <2>1. i \in DOMAIN l /\ (i \notin Handled \/ ~Dropped(l[i]))
    BY <1>4, <1>7, Zenon
  <2>2. CASE i \in Handled
    BY <1>7, <1>9, <1>10, <2>1, <2>2, ZenonT(40)
  <2>3. CASE i \notin Handled
    BY <1>2, <1>7, <1>8, <2>1, <2>3, Zenon
  <2> QED BY <2>1, <2>2, <2>3, Zenon
<1>18. ListsOK(e, B)
  <2>1. Unique(e)
    <3>1. /\ Distinct(l) /\ Distinct(d.queued) /\ Distinct(d.storage)
          /\ Apart(l, d.queued) /\ Apart(l, d.storage) /\ Apart(d.queued, d.storage)
      BY <1>2, Zenon DEF Unique, l
    <3>2. Distinct(after) /\ Apart(after, d.queued) /\ Apart(after, d.storage)
      BY <1>11, <3>1, SameIdsKeep, Zenon
    <3>3. /\ Distinct(e.inflight) /\ Apart(e.inflight, d.queued)
          /\ Apart(e.inflight, d.storage)
      BY <1>4, <1>a, <3>2, PickEntries
    <3> QED BY <1>4, <3>1, <3>3, Zenon DEF Unique
  <2>2. \A m \in HeldIn(e) : MsgOK(m, B)
    BY <1>2, <1>8, <1>13, <1>17, Zenon
  <2> QED BY <1>2, <1>13, <2>1, <2>2, Zenon DEF ListsOK
<1>19. WiresOK(e, in, TRUE, B)
  <2>1. Distinct(e.out) /\ Apart(e.out, in)
    <3>1. Distinct(sent)
      BY <1>2, <1>11, <1>12, SameIdsKeep, Zenon DEF Unique, l
    <3>2. Apart(d.out, sent) /\ Apart(sent, in)
      BY <1>12, <1>16, Zenon DEF Apart, Tokens
    <3>3. Distinct(d.out \o sent) /\ Apart(d.out \o sent, in)
      <4>1. d.out \in Seq(Packet) /\ sent \in Seq(Packet)
        BY <1>5, <1>12, Zenon
      <4>2. Distinct(d.out) /\ Apart(d.out, in)
        BY <1>3, Zenon
      <4> QED BY <3>1, <3>2, <4>1, <4>2, ConcatIds, Zenon
    <3> QED BY <1>4, <3>3, Zenon
  <2>2. \A t \in Tokens(e, in) : TokenOK(t, B)
    BY <1>3, <1>9, <1>14, <1>15, ZenonT(40)
  <2>3. ASSUME NEW m \in HeldIn(e), NEW t \in Tokens(e, in) PROVE Match(m, t)
    <3>1. CASE m \in Late(d)
      <4>1. CASE t \in Tokens(d, in)
        BY <1>3, <1>8, <3>1, <4>1, Zenon
      <4>2. CASE \E i \in Sending : t = packets[i]
        <5>1. PICK i \in Sending : t = packets[i]
          BY <4>2, Zenon
        <5>2. t.id = l[i].id /\ l[i] \in Elements(l)
          BY <1>8, <1>10, <1>15, <5>1, Zenon
        <5>3. m.id # l[i].id
          BY <1>2, <3>1, <5>2, Zenon DEF Unique, Apart, Late, l
        <5> QED BY <5>2, <5>3, Zenon DEF Match
      <4> QED BY <1>14, <4>1, <4>2, Zenon
    <3>2. CASE \E i \in Kept : m = after[i]
      <4>1. PICK i \in Kept : m = after[i]
        BY <3>2, Zenon
      <4>2. i \in DOMAIN l /\ m.id = l[i].id
        BY <1>17, <4>1, Zenon
      <4>3. CASE t \in Tokens(d, in)
        <5>1. Match(l[i], t)
          BY <1>3, <1>8, <4>2, <4>3, Zenon
        <5>2. CASE i \in Sending
          BY <1>10, <1>16, <4>2, <4>3, <5>2, Zenon DEF Match
        <5>3. CASE i \notin Sending
          <6>1. m = l[i]
            BY <1>7, <1>9, <1>17, <4>1, <4>2, <5>3, Zenon
          <6> QED BY <5>1, <6>1, Zenon
        <5> QED BY <5>2, <5>3, Zenon
      <4>4. CASE \E j \in Sending : t = packets[j]
        <5>1. PICK j \in Sending : t = packets[j]
          BY <4>4, Zenon
        <5>2. t.id = l[j].id /\ j \in DOMAIN l
          BY <1>10, <1>15, <5>1, Zenon
        <5>3. CASE i = j
          <6>1. m = AfterSend(l[i]) /\ t = PacketOf(l[i]) /\ ~Dropped(l[i]) /\ Transmitted(l[i])
            BY <1>15, <1>17, <4>1, <5>1, <5>3, Zenon
          <6>2. t.type \in Expect(m.state)
            BY <1>9, <4>2, <6>1, Zenon
          <6> QED BY <6>2, Zenon DEF Match
        <5>4. CASE i # j
          BY <1>2, <4>2, <5>2, <5>4, Zenon DEF Match, Unique, Distinct, l
        <5> QED BY <5>3, <5>4, Zenon
      <4> QED BY <1>14, <4>3, <4>4, Zenon
    <3> QED BY <1>13, <3>1, <3>2, Zenon
  <2>4. ASSUME NEW m \in Elements(e.inflight), Expect(m.state) # {}
        PROVE  \E t \in Tokens(e, in) : t.id = m.id
    <3>1. PICK i \in Kept : m = after[i]
      BY <1>13, Zenon
    <3>2. i \in DOMAIN l /\ m.id = l[i].id
      BY <1>17, <3>1, Zenon
    <3>3. CASE i \in Sending
      BY <1>10, <1>14, <3>2, <3>3, Zenon
    <3>4. CASE i \notin Sending
      <4>1. m = l[i]
        BY <1>7, <1>9, <1>17, <3>1, <3>2, <3>4, Zenon
      <4>2. \E t \in Tokens(d, in) : t.id = m.id
        BY <1>3, <1>8, <2>4, <3>2, <4>1, Zenon
      <4> QED BY <1>14, <4>2, Zenon
    <3> QED BY <3>3, <3>4, Zenon
  <2> QED BY <1>3, <2>1, <2>2, <2>3, <2>4, Zenon DEF WiresOK
<1>20. Rested(e)
  <2> SUFFICES ASSUME NEW m \in HeldIn(e) PROVE m.state # "resend_pubrel"
    BY Zenon DEF Rested
  <2>1. CASE m \in Late(d)
    BY <1>2, <2>1, IdleExpects, Zenon
  <2>2. CASE \E i \in Kept : m = after[i]
    <3>1. PICK i \in Kept : m = after[i]
      BY <2>2, Zenon
    <3>2. CASE i \in Handled
      BY <1>17, <3>1, <3>2, Zenon
    <3>3. CASE i \notin Handled
      <4>1. phase = "live"
        <5>1. i \in DOMAIN l /\ ~(from <= i /\ i <= to)
          BY <1>7, <1>17, <3>3, Zenon
        <5> QED BY <1>b, <5>1, Zenon
      <4> QED BY <1>1, <1>8, <1>17, <3>1, <3>3, <4>1, Zenon DEF Rested
    <3> QED BY <3>2, <3>3, Zenon
  <2> QED BY <1>13, <2>1, <2>2, Zenon
<1>21. UnsentLast(e.inflight)
  <2> DEFINE p == Pick(after, Kept)
  <2>1. \A j, k \in DOMAIN p : j < k =>
          \E g, h \in Kept : g < h /\ p[j] = after[g] /\ p[k] = after[h]
    BY <1>4, <1>a, PickProperties, SMTT(20)
  <2> HIDE DEF p
  <2> SUFFICES ASSUME NEW j \in DOMAIN p, NEW k \in DOMAIN p, j < k,
                      p[j].state \in PublishStates
               PROVE  p[k].state \in PublishStates
    BY <1>4, Zenon DEF UnsentLast, p
  <2>2. PICK g \in Kept, h \in Kept : g < h /\ p[j] = after[g] /\ p[k] = after[h]
    BY <2>1, Zenon
  <2>3. g \in DOMAIN l /\ h \in DOMAIN l /\ g \notin Handled /\ after[g] = l[g]
    BY <1>17, <2>2, Zenon
  <2>4. g > to /\ h > to
    <3>1. ~(g <= from - 1)
      <4>1. g <= from - 1 => g \in 1..(from - 1)
        BY <1>5, <2>3
      <4> QED BY <2>2, <2>3, <4>1, Zenon DEF l
    <3>2. ~(from <= g /\ g <= to)
      BY <1>7, <2>3, Zenon
    <3> QED BY <1>b, <2>2, <2>3, <3>1, <3>2
  <2>5. h \notin Handled /\ phase = "live"
    <3>1. h \in Handled <=> from <= h /\ h <= to
      BY <1>7, <2>3, Zenon
    <3> QED BY <1>b, <2>3, <2>4, <3>1
  <2>6. after[h] = l[h] /\ UnsentLast(l)
    BY <1>1, <1>17, <2>5, Zenon
  <2> QED BY <2>2, <2>3, <2>6, Zenon DEF UnsentLast
<1>22. Holds(e, B)
  <2> SUFFICES ASSUME NEW x \in B.owed PROVE \E m \in HeldIn(e) : m.id = x
    BY Zenon DEF Holds
  <2>1. PICK m \in HeldIn(d) : m.id = x
    BY <1>1, Zenon DEF Holds
  <2>2. CASE m \in Late(d)
    BY <1>13, <2>1, <2>2, Zenon
  <2>3. CASE m \in Elements(l)
    <3>1. PICK i \in DOMAIN l : m = l[i]
      BY <2>3, Zenon DEF Elements
    <3>2. m.kind = B.name[x].kind
      BY <1>2, <2>1, Zenon DEF MsgOK
    <3>3. ~Dropped(m)
      BY <2>1, <3>2, Zenon DEF OwedOK, Dropped, Expired
    <3>4. i \in Kept
      BY <1>7, <3>1, <3>3, Zenon
    <3> QED BY <1>13, <1>17, <2>1, <3>1, <3>4, Zenon
  <2> QED BY <2>1, <2>2, <2>3, Zenon DEF HeldIn, l
<1>23. Sound(e, in, "live", B)
  BY <1>4, <1>18, <1>19, <1>20, <1>21, <1>22, Zenon DEF Sound
<1> QED BY <1>23, Zenon DEF e

\* db__message_write_inflight_out_latest begins behind all the messages sent before.
LEMMA LatestIsBehind ==
    ASSUME Counting, NEW l \in Seq(Msg), UnsentLast(l)
    PROVE  \A i \in 1..(LatestFrom(l) - 1) : l[i].state \notin PublishStates
<1> DEFINE n == Len(l)
           K == {i \in 1..n : i >= 2 /\ l[i].state \notin PublishStates}
           Last(i) == /\ l[i].state \notin PublishStates
                      /\ \A j \in (i + 1)..n : l[j].state \in PublishStates
<1>1. n \in Nat /\ DOMAIN l = 1..n
  OBVIOUS
<1>2. CASE \A i \in 2..n : l[i].state \in PublishStates
  BY <1>2 DEF LatestFrom
<1>3. CASE ~(\A i \in 2..n : l[i].state \in PublishStates)
  <2>1. K # {} /\ K \in SUBSET (1..n)
    BY <1>3
  <2>2. PICK k \in K : \A j \in K : j <= k
    BY <1>1, <2>1, FirstLastExist, Zenon
  <2>3. k \in 2..n /\ Last(k)
    <3>1. ASSUME NEW j \in (k + 1)..n PROVE l[j].state \in PublishStates
      <4>1. j \in 1..n /\ j >= 2 /\ ~(j <= k)
        OBVIOUS
      <4>2. j \notin K
        BY <2>2, <4>1, Zenon
      <4> QED BY <4>1, <4>2, Zenon
    <3> QED BY <3>1
  <2> DEFINE c == CHOOSE i \in 2..n : Last(i)
  <2>4. LatestFrom(l) = 1 + c
    BY <1>3, Zenon DEF LatestFrom
  <2>5. c \in 2..n /\ Last(c)
    BY <2>3, Zenon
  <2> HIDE DEF c
  <2> SUFFICES ASSUME NEW i \in 1..c PROVE l[i].state \notin PublishStates
    BY <2>4, <2>5
  <2>6. i \in DOMAIN l /\ c \in DOMAIN l /\ (i = c \/ i < c)
    BY <1>1, <2>5
  <2> QED BY <2>5, <2>6, Zenon DEF UnsentLast
<1> QED BY <1>2, <1>3, Zenon

\* The write functions, one by one and as an insertion calls them, keep every
\* handshake.
LEMMA WritesSound ==
    ASSUME Counting, NEW d, NEW in, NEW phase, NEW B, Sound(d, in, phase, B), OwedOK(B), NEW md, NEW s
    PROVE  /\ Sound(db__message_write_queued_out(d), in, phase, B)
           /\ Sound(db__message_write_storage_out(d, md), in, phase, B)
           /\ \A n \in 0..Len(d.queued) : Sound(Dequeue(d, n), in, phase, B)
           /\ phase = "live" =>
                Sound(db__message_write_inflight_out_latest(d, s), in, "live", B)
           /\ phase = "resuming" =>
                Sound(db__message_write_inflight_out_all(d, "up"), in, "live", B)
<1>1. d \in Data(Msg) /\ \A m \in Late(d) : m.state \in IdleStates
  BY Zenon DEF Sound, ListsOK
<1>2. /\ d.inflight \in Seq(Msg) /\ Len(d.inflight) \in Nat /\ Len(d.queued) \in Nat
      /\ d.inflight_quota \in Nat
  BY <1>1, DataFields, ConstantsAssumption DEF Inflights
<1>3. ASSUME NEW n \in 0..Len(d.queued) PROVE Sound(Dequeue(d, n), in, phase, B)
  BY <1>1, DequeueShuffled, ShuffledSound, Zenon
<1>4. Sound(db__message_write_queued_out(d), in, phase, B)
  BY <1>2, <1>3 DEF db__message_write_queued_out, Lesser
<1>5. Sound(db__message_write_storage_out(d, md), in, phase, B)
  BY <1>1, StorageShuffled, ShuffledSound, Zenon
<1>6. ASSUME phase = "live"
      PROVE  Sound(db__message_write_inflight_out_latest(d, s), in, "live", B)
  <2> DEFINE from == LatestFrom(d.inflight)
  <2>1. UnsentLast(d.inflight)
    BY <1>6, Zenon DEF Sound
  <2>2. from \in 1..(Len(d.inflight) + 1)
    BY <1>2, LatestFromType, Zenon
  <2>3. \A i \in 1..(from - 1) : d.inflight[i].state \notin PublishStates
    BY <1>2, <2>1, LatestIsBehind, Zenon
  <2> HIDE DEF from
  <2>4. Sound(WriteFrom(d, from, s), in, "live", B)
    BY <1>6, <2>2, <2>3, WriteFromSound, Zenon
  <2> QED BY <2>4, Zenon DEF db__message_write_inflight_out_latest, from
<1>7. ASSUME phase = "resuming"
      PROVE  Sound(db__message_write_inflight_out_all(d, "up"), in, "live", B)
  <2>1. 1 \in 1..(Len(d.inflight) + 1)
    BY <1>2
  <2>2. \A i \in 1..(1 - 1) : d.inflight[i].state \notin PublishStates
    OBVIOUS
  <2> QED BY <1>7, <2>1, <2>2, WriteFromSound, Zenon DEF db__message_write_inflight_out_all
<1> QED BY <1>3, <1>4, <1>5, <1>6, <1>7, Zenon

\* The writes that follow an insertion keep every handshake.
LEMMA UpdateSound ==
    ASSUME Counting, NEW d, NEW in, NEW phase \in {"live", "closed"}, NEW B,
           Sound(d, in, phase, B), OwedOK(B), NEW md, NEW s,
           phase = "closed" <=> s = "closed"
    PROVE  Sound(Update(d, md, s), in, phase, B)
<1> DEFINE w == db__message_write_inflight_out_latest(d, s)
           q == db__message_write_queued_out(w)
           t == db__message_write_storage_out(q, md)
<1>1. CASE s = "closed"
  BY <1>1, Zenon DEF Update
<1>2. CASE s # "closed"
  <2>1. phase = "live"
    BY <1>2, Zenon
  <2>2. Sound(w, in, "live", B)
    BY <2>1, WritesSound, Zenon
  <2> HIDE DEF w
  <2>3. Sound(q, in, "live", B)
    BY <2>2, WritesSound, Zenon
  <2> HIDE DEF q
  <2>4. Sound(t, in, "live", B)
    BY <2>3, WritesSound, Zenon
  <2> HIDE DEF t
  <2>5. Update(d, md, s) = w \/ Update(d, md, s) = t
    BY <1>2, Zenon DEF Update, w, q, t
  <2> QED BY <2>1, <2>2, <2>4, <2>5, Zenon
<1> QED BY <1>1, <1>2, Zenon

-----------------------------------------------------------------------------
(* Insertion                                                               *)

\* e has the messages of d and n, which is m, not yet sent.
Joined(d, e, n, m) ==
    /\ n.id = m.id /\ n.mid = m.mid /\ n.kind = m.kind
    /\ n.state \in {m.state, "storage"} \cup PublishStates
    /\ n.state \in PublishStates => n.state \in {m.state, PublishState(m.kind.qos)}
    /\ HeldIn(e) = HeldIn(d) \cup {n}
    /\ Late(e) \subseteq Late(d) \cup {n}
    /\ Elements(e.inflight) \subseteq Elements(d.inflight) \cup {n}
    /\ Unique(e) /\ e.out = d.out
    /\ UnsentLast(d.inflight) => UnsentLast(e.inflight)

\* A message of another name put at the end of a list leaves its names distinct.
LEMMA AppendMsg ==
    ASSUME NEW l \in Seq(Msg), NEW n \in Msg, Distinct(l),
           \A a \in Elements(l) : a.id # n.id
    PROVE  /\ Append(l, n) \in Seq(Msg) /\ Elements(Append(l, n)) = Elements(l) \cup {n}
           /\ Distinct(Append(l, n))
BY AppendIds, SMTT(20)

\* A message that db__message_insert puts on a list is one more message, not yet
\* sent; on the inflight list it is the last.
LEMMA EnlistLists ==
    ASSUME NEW d \in Data(Msg), NEW m \in Msg, m.age = 0,
           NEW place \in {"inflight", "queued", "storage"},
           Unique(d), \A x \in HeldIn(d) : x.id # m.id
    PROVE  \E n \in Msg : Joined(d, Enlist(d, m, place), n, m)
<1> DEFINE e       == Enlist(d, m, place)
           counted == IF m.kind.qos > 0 THEN 1 ELSE 0
           count   == d.msg_count12 + counted
           quota   == Spend(d.inflight_quota, counted)
           stored  == [m EXCEPT !.state = "storage"]
<1>1. /\ d \in MsgData /\ d.inflight \in Seq(Msg) /\ d.queued \in Seq(Msg)
      /\ d.storage \in Seq(Msg)
  BY DataFields, Zenon DEF Inflights
<1>2. PICK I \in Seq(Msg), Q \in Seq(Msg), S \in Seq(Msg) :
        I = d.inflight /\ Q = d.queued /\ S = d.storage
  BY <1>1, Zenon
<1>3. /\ Distinct(I) /\ Distinct(Q) /\ Distinct(S)
      /\ Apart(I, Q) /\ Apart(I, S) /\ Apart(Q, S)
  BY <1>2, Zenon DEF Unique
<1>4. /\ HeldIn(d) = Elements(I) \cup Elements(Q) \cup Elements(S)
      /\ Late(d) = Elements(Q) \cup Elements(S)
  BY <1>2, Zenon DEF HeldIn, Late
<1>5. CASE place = "inflight"
  <2> DEFINE n == ToPublish(m)
             A == Append(I, n)
  <2>1. /\ n \in Msg /\ n.id = m.id /\ n.mid = m.mid /\ n.kind = m.kind
        /\ n.state = PublishState(m.kind.qos) /\ n.state \in PublishStates
    BY PublishStateOf, Zenon
  <2>2. A \in Seq(Msg) /\ Elements(A) = Elements(I) \cup {n} /\ Distinct(A)
    <3>1. \A a \in Elements(I) : a.id # n.id
      BY <1>4, <2>1, Zenon
    <3> HIDE DEF n
    <3> QED BY <1>3, <2>1, <3>1, AppendMsg, Zenon
  <2>3. ASSUME UnsentLast(I) PROVE UnsentLast(A)
    <3> HIDE DEF n
    <3>1. A = I \o <<n>> /\ <<n>> \in Seq(Msg)
      BY <2>1
    <3>2. \A x \in Elements(<<n>>) : x.state \in PublishStates
      BY <2>1 DEF Elements
    <3> QED BY <2>3, <3>1, <3>2, UnsentAppended, Zenon
  <2>4. e = [d EXCEPT !.msg_count12 = count, !.inflight_quota = quota, !.inflight = A]
    BY <1>1, <1>2, <1>5, Zenon DEF Enlist, MsgData
  <2> HIDE DEF n, A, count, quota, e
  <2>5. e.inflight = A /\ e.queued = Q /\ e.storage = S /\ e.out = d.out
    BY <1>1, <1>2, <2>4, Zenon DEF MsgData
  <2>6. Unique(e)
    BY <1>3, <1>4, <2>1, <2>2, <2>5, ZenonT(40) DEF Unique, Apart
  <2>7. /\ HeldIn(e) = HeldIn(d) \cup {n} /\ Late(e) = Late(d)
        /\ Elements(e.inflight) = Elements(d.inflight) \cup {n}
    BY <1>2, <1>4, <2>2, <2>5, Zenon DEF HeldIn, Late
  <2> QED BY <1>2, <2>1, <2>3, <2>5, <2>6, <2>7, Zenon DEF Joined, e
<1>6. CASE place = "queued"
  <2> DEFINE A == Append(Q, m)
  <2>2. A \in Seq(Msg) /\ Elements(A) = Elements(Q) \cup {m} /\ Distinct(A)
    <3>1. \A a \in Elements(Q) : a.id # m.id
      BY <1>4, Zenon
    <3> QED BY <1>3, <3>1, AppendMsg, Zenon
  <2>4. e = [d EXCEPT !.msg_count12 = count, !.inflight_quota = quota, !.queued = A]
    BY <1>1, <1>2, <1>6, Zenon DEF Enlist, MsgData
  <2> HIDE DEF A, count, quota, e
  <2>5. e.inflight = I /\ e.queued = A /\ e.storage = S /\ e.out = d.out
    BY <1>1, <1>2, <2>4, Zenon DEF MsgData
  <2>6. Unique(e)
    BY <1>3, <1>4, <2>2, <2>5, Zenon DEF Unique, Apart
  <2>7. /\ HeldIn(e) = HeldIn(d) \cup {m} /\ Late(e) = Late(d) \cup {m}
        /\ Elements(e.inflight) = Elements(d.inflight)
    BY <1>2, <1>4, <2>2, <2>5, Zenon DEF HeldIn, Late
  <2> QED BY <1>2, <2>5, <2>6, <2>7, Zenon DEF Joined, e
<1>7. CASE place = "storage"
  <2> DEFINE A == Append(S, stored)
  <2>1. /\ stored \in Msg /\ stored.id = m.id /\ stored.mid = m.mid /\ stored.kind = m.kind
        /\ stored.state = "storage"
    BY Zenon DEF Msg, States
  <2> HIDE DEF stored
  <2>2. A \in Seq(Msg) /\ Elements(A) = Elements(S) \cup {stored} /\ Distinct(A)
    <3>1. \A a \in Elements(S) : a.id # stored.id
      BY <1>4, <2>1, Zenon
    <3> QED BY <1>3, <2>1, <3>1, AppendMsg, Zenon
  <2>4. e = [d EXCEPT !.msg_count12 = count, !.inflight_quota = quota, !.storage = A]
    BY <1>1, <1>2, <1>7, Zenon DEF Enlist, Store, MsgData, stored
  <2> HIDE DEF A, count, quota, e
  <2>5. e.inflight = I /\ e.queued = Q /\ e.storage = A /\ e.out = d.out
    BY <1>1, <1>2, <2>4, Zenon DEF MsgData
  <2>6. Unique(e)
    <3>1. \A x \in Elements(I) \cup Elements(Q) : x.id # stored.id
      BY <1>4, <2>1, Zenon
    <3>2. Apart(I, A) /\ Apart(Q, A)
      BY <1>3, <2>2, <3>1, Zenon DEF Apart
    <3> QED BY <1>3, <2>2, <2>5, <3>2, Zenon DEF Unique
  <2>7. /\ HeldIn(e) = HeldIn(d) \cup {stored} /\ Late(e) = Late(d) \cup {stored}
        /\ Elements(e.inflight) = Elements(d.inflight)
    BY <1>2, <1>4, <2>2, <2>5, Zenon DEF HeldIn, Late
  <2>8. stored.state \notin PublishStates
    BY <2>1, Zenon DEF PublishStates
  <2> QED BY <1>2, <2>1, <2>5, <2>6, <2>7, <2>8, Zenon DEF Joined, e
<1> QED BY <1>5, <1>6, <1>7, Zenon

\* What the book says of a message does not change when others are offered.
LEMMA ExtendSound ==
    ASSUME NEW d, NEW in, NEW phase, NEW B, NEW C, Sound(d, in, phase, B), Extends(C, B),
           C.owed \subseteq B.owed
    PROVE  Sound(d, in, phase, C)
<1>1. ASSUME NEW m, MsgOK(m, B) PROVE MsgOK(m, C)
  BY <1>1, Zenon DEF MsgOK, InBook, Extends
<1>2. ASSUME NEW t, TokenOK(t, B) PROVE TokenOK(t, C)
  BY <1>2, Zenon DEF TokenOK, InBook, Extends
<1>3. ListsOK(d, C)
  BY <1>1, Zenon DEF Sound, ListsOK
<1>4. WiresOK(d, in, phase # "closed", C)
  BY <1>2, Zenon DEF Sound, WiresOK
<1>5. Holds(d, C)
  BY Zenon DEF Sound, Holds
<1> QED BY <1>3, <1>4, <1>5, Zenon DEF Sound

\* A new message begins its handshake with nothing under way.
LEMMA EnlistSound ==
    ASSUME NEW d, NEW in, NEW phase, NEW B, NEW C, Sound(d, in, phase, B), Extends(C, B),
           NEW m \in Msg, m.age = 0, m.state = "queued", m.id \notin DOMAIN B.name,
           InBook(m, C), m.kind = C.name[m.id].kind, m.id \notin C.got,
           NEW place \in {"inflight", "queued", "storage"},
           C.owed \subseteq B.owed \cup {m.id}
    PROVE  Sound(Enlist(d, m, place), in, phase, C)
<1> DEFINE e == Enlist(d, m, place)
<1>1. d \in Data(Msg) /\ ListsOK(d, B) /\ WiresOK(d, in, phase # "closed", B)
  BY Zenon DEF Sound
<1>2. e \in Data(Msg)
  BY <1>1, EnlistType, Zenon DEF Inflights
<1>3. /\ \A x \in HeldIn(d) : MsgOK(x, B) /\ x.id # m.id
      /\ \A t \in Tokens(d, in) : TokenOK(t, B) /\ t.id # m.id
  BY <1>1, Zenon DEF ListsOK, WiresOK, MsgOK, TokenOK, InBook
<1>4. /\ \A x \in HeldIn(d) : MsgOK(x, C)
      /\ \A t \in Tokens(d, in) : TokenOK(t, C)
  <2>1. ASSUME NEW x, MsgOK(x, B) PROVE MsgOK(x, C)
    BY <2>1, Zenon DEF MsgOK, InBook, Extends
  <2>2. ASSUME NEW t, TokenOK(t, B) PROVE TokenOK(t, C)
    BY <2>2, Zenon DEF TokenOK, InBook, Extends
  <2> QED BY <1>3, <2>1, <2>2, Zenon
<1>5. Unique(d) /\ \A x \in Late(d) : x.state \in IdleStates
  BY <1>1, Zenon DEF ListsOK
<1>j. PICK n \in Msg : Joined(d, e, n, m)
  <2>1. d \in Data(Msg) /\ Unique(d) /\ \A x \in HeldIn(d) : x.id # m.id
    BY <1>1, <1>3, <1>5, Zenon
  <2> QED BY <2>1, EnlistLists, Zenon
<1>6. /\ n.id = m.id /\ n.mid = m.mid /\ n.kind = m.kind
      /\ n.state \in {m.state, "storage"} \cup PublishStates
      /\ n.state \in PublishStates => n.state \in {m.state, PublishState(m.kind.qos)}
      /\ HeldIn(e) = HeldIn(d) \cup {n}
      /\ Late(e) \subseteq Late(d) \cup {n}
      /\ Elements(e.inflight) \subseteq Elements(d.inflight) \cup {n}
      /\ Unique(e) /\ e.out = d.out
      /\ UnsentLast(d.inflight) => UnsentLast(e.inflight)
  BY <1>j, Zenon DEF Joined
<1> HIDE DEF e
<1>7. n.state \in IdleStates /\ "queued" \notin PublishStates
  BY <1>6, Zenon DEF IdleStates, PublishStates
<1>8. /\ n.state \notin Released /\ Expect(n.state) = {} /\ n.state # "resend_pubrel"
      /\ n.state # "wait_for_puback" /\ n.state # "wait_for_pubrec"
  BY <1>7, IdleExpects, Zenon
<1>9. MsgOK(n, C)
  BY <1>6, <1>7, <1>8, Zenon DEF MsgOK, InBook
<1>10. Tokens(e, in) = Tokens(d, in)
  BY <1>6, Zenon DEF Tokens
<1>11. ListsOK(e, C)
  BY <1>4, <1>5, <1>6, <1>7, <1>9, Zenon DEF ListsOK
<1>12. WiresOK(e, in, phase # "closed", C)
  <2>1. Distinct(e.out) /\ Distinct(in) /\ Apart(e.out, in)
    BY <1>1, <1>6, Zenon DEF WiresOK
  <2>2. \A x \in HeldIn(e), t \in Tokens(e, in) : Match(x, t)
    <3>1. \A x \in HeldIn(d), t \in Tokens(d, in) : Match(x, t)
      BY <1>1, Zenon DEF WiresOK
    <3>2. \A t \in Tokens(d, in) : Match(n, t)
      BY <1>3, <1>6, Zenon DEF Match
    <3> QED BY <1>6, <1>10, <3>1, <3>2, Zenon
  <2>3. ASSUME phase # "closed", NEW x \in Elements(e.inflight), Expect(x.state) # {}
        PROVE  \E t \in Tokens(e, in) : t.id = x.id
    <3>1. x \in Elements(d.inflight)
      BY <1>6, <1>8, <2>3, Zenon
    <3> QED BY <1>1, <1>10, <2>3, <3>1, Zenon DEF WiresOK
  <2> QED BY <1>4, <1>10, <2>1, <2>2, <2>3, Zenon DEF WiresOK
<1>13. phase # "resuming" => Rested(e)
  BY <1>6, <1>8, Zenon DEF Sound, Rested
<1>14. Holds(e, C)
  BY <1>6, Zenon DEF Sound, Holds
<1>15. phase = "live" => UnsentLast(e.inflight)
  BY <1>6, Zenon DEF Sound
<1> QED BY <1>2, <1>11, <1>12, <1>13, <1>14, <1>15, Zenon DEF Sound, e

-----------------------------------------------------------------------------
(* Answers and the end of a connection                                     *)

\* Find returns a message with the identifier asked for if there is one.
LEMMA FindEntry ==
    ASSUME Counting, NEW l \in Seq(Msg), NEW mid
    PROVE  /\ Find(l, mid) # 0 => Find(l, mid) \in DOMAIN l /\ l[Find(l, mid)].mid = mid
           /\ Find(l, mid) = 0 => \A i \in DOMAIN l : l[i].mid # mid
<1> DEFINE K == {i \in DOMAIN l : l[i].mid = mid}
           First(i) == l[i].mid = mid /\ \A j \in 1..(i - 1) : l[j].mid # mid
<1>0. Len(l) \in Nat /\ DOMAIN l = 1..Len(l)
  OBVIOUS
<1>1. CASE ~\E i \in DOMAIN l : l[i].mid = mid
  BY <1>1, Zenon DEF Find
<1>2. CASE \E i \in DOMAIN l : l[i].mid = mid
  <2>1. K # {} /\ K \in SUBSET (1..Len(l))
    BY <1>2
  <2>2. PICK k \in K : \A j \in K : k <= j
    BY <1>0, <2>1, FirstLastExist, ZenonT(40)
  <2>3. First(k)
    <3>1. ASSUME NEW j \in 1..(k - 1) PROVE l[j].mid # mid
      <4>1. j \in DOMAIN l /\ ~(k <= j)
        OBVIOUS
      <4>2. j \notin K
        BY <2>2, <4>1, Zenon
      <4> QED BY <4>1, <4>2, Zenon
    <3> QED BY <2>2, <3>1, Zenon
  <2> DEFINE c == CHOOSE i \in DOMAIN l : First(i)
  <2>4. c \in DOMAIN l /\ First(c)
    BY <2>2, <2>3, Zenon
  <2>5. Find(l, mid) = c
    BY <1>2, Zenon DEF Find
  <2>6. c # 0 /\ l[c].mid = mid
    BY <1>0, <2>4
  <2> HIDE DEF c
  <2> QED BY <2>4, <2>5, <2>6, Zenon
<1> QED BY <1>1, <1>2, Zenon

\* A list without one of its messages.
LEMMA WithoutEntries ==
    ASSUME NEW l \in Seq(Msg), NEW i \in DOMAIN l
    PROVE  /\ Without(l, i) \in Seq(Msg)
           /\ Elements(Without(l, i)) = {l[j] : j \in DOMAIN l \ {i}}
           /\ Distinct(l) => Distinct(Without(l, i))
           /\ UnsentLast(l) => UnsentLast(Without(l, i))
<1> DEFINE n == Len(l)
           a == TakeFirst(l, i - 1)
           b == DropFirst(l, i)
           w == Without(l, i)
           At(j) == IF j < i THEN j ELSE j + 1
<1>1. n \in Nat /\ DOMAIN l = 1..n /\ i \in 1..n /\ i - 1 \in 0..Len(l) /\ i \in 0..Len(l)
  OBVIOUS
<1>2. /\ a \in Seq(Msg) /\ Len(a) = i - 1 /\ \A j \in 1..(i - 1) : a[j] = l[j]
      /\ b \in Seq(Msg) /\ Len(b) = n - i /\ \A j \in 1..(n - i) : b[j] = l[i + j]
  <2>1. a \in Seq(Msg) /\ Len(a) = i - 1 /\ \A j \in 1..(i - 1) : a[j] = l[j]
    BY <1>1, TakeDropProperties, ZenonT(40)
  <2>2. b \in Seq(Msg) /\ Len(b) = n - i /\ \A j \in 1..(n - i) : b[j] = l[i + j]
    BY <1>1, TakeDropProperties, Zenon
  <2> QED BY <2>1, <2>2, Zenon
<1>a. w = a \o b
  BY Zenon DEF Without
<1>b. n \in Int /\ i \in Int /\ 1 <= i /\ i <= n
  BY <1>1
<1> HIDE DEF a, b, n, w
<1>c. /\ a \o b \in Seq(Msg) /\ DOMAIN (a \o b) = 1..((i - 1) + (n - i))
      /\ \A j \in 1..(i - 1) : (a \o b)[j] = a[j]
      /\ \A j \in 1..(n - i) : (a \o b)[(i - 1) + j] = b[j]
  <2>1. a \in Seq(Msg) /\ b \in Seq(Msg) /\ Len(a) = i - 1 /\ Len(b) = n - i
    BY <1>2, Zenon
  <2>2. /\ a \o b \in Seq(Msg) /\ DOMAIN (a \o b) = 1..(Len(a) + Len(b))
        /\ \A j \in 1..Len(a) : (a \o b)[j] = a[j]
        /\ \A j \in 1..Len(b) : (a \o b)[Len(a) + j] = b[j]
    <3>1. ASSUME NEW x \in Seq(Msg), NEW y \in Seq(Msg)
          PROVE  /\ x \o y \in Seq(Msg) /\ DOMAIN (x \o y) = 1..(Len(x) + Len(y))
                 /\ \A j \in 1..Len(x) : (x \o y)[j] = x[j]
                 /\ \A j \in 1..Len(y) : (x \o y)[Len(x) + j] = y[j]
      OBVIOUS
    <3> QED BY <2>1, <3>1, Zenon
  <2> QED BY <2>1, <2>2, Zenon
<1>3. /\ w \in Seq(Msg) /\ DOMAIN w = 1..(n - 1)
      /\ \A j \in 1..(i - 1) : w[j] = l[j]
      /\ \A j \in 1..(n - i) : w[(i - 1) + j] = l[i + j]
  <2>1. (i - 1) + (n - i) = n - 1
    BY <1>b
  <2> QED BY <1>2, <1>a, <1>c, <2>1, Zenon
<1>4. ASSUME NEW j \in DOMAIN w PROVE At(j) \in DOMAIN l \ {i} /\ w[j] = l[At(j)]
  <2>1. CASE j < i
    BY <1>1, <1>3, <1>b, <2>1, SMTT(30)
  <2>2. CASE ~(j < i)
    <3>1. /\ j - (i - 1) \in 1..(n - i) /\ i + (j - (i - 1)) = j + 1
          /\ (i - 1) + (j - (i - 1)) = j
      BY <1>3, <1>b, <2>2
    <3>2. w[j] = l[j + 1]
      BY <1>3, <3>1, Zenon
    <3> QED BY <1>1, <1>3, <1>b, <2>2, <3>2, SMTT(30)
  <2> QED BY <2>1, <2>2, Zenon
<1>5. ASSUME NEW h \in DOMAIN l \ {i} PROVE \E j \in DOMAIN w : h = At(j)
  <2>1. CASE h < i
    <3>1. h \in DOMAIN w /\ h = At(h)
      BY <1>1, <1>3, <1>b, <2>1
    <3> QED BY <3>1, Zenon
  <2>2. CASE ~(h < i)
    <3>1. h - 1 \in DOMAIN w /\ h = At(h - 1)
      BY <1>1, <1>3, <1>b, <2>2
    <3> QED BY <3>1, Zenon
  <2> QED BY <2>1, <2>2, Zenon
<1>6. \A j, k \in DOMAIN w : (At(j) = At(k) => j = k) /\ (j < k => At(j) < At(k))
  BY <1>3, <1>b
<1> HIDE DEF At
<1>7. Elements(w) = {l[j] : j \in DOMAIN l \ {i}}
  BY <1>4, <1>5 DEF Elements
<1>8. Distinct(l) => Distinct(w)
  BY <1>4, <1>6, Zenon DEF Distinct
<1>9. UnsentLast(l) => UnsentLast(w)
  BY <1>4, <1>6, Zenon DEF UnsentLast
<1> QED BY <1>3, <1>7, <1>8, <1>9, Zenon DEF w

\* A change outside the lists and the packets under way.
LEMMA SameLists ==
    ASSUME NEW d, NEW in, NEW phase, NEW B, Sound(d, in, phase, B), NEW e \in Data(Msg),
           e.inflight = d.inflight, e.queued = d.queued, e.storage = d.storage, e.out = d.out
    PROVE  Sound(e, in, phase, B)
<1>1. HeldIn(e) = HeldIn(d) /\ Late(e) = Late(d) /\ Tokens(e, in) = Tokens(d, in)
  BY Zenon DEF HeldIn, Late, Tokens
<1>2. ListsOK(e, B)
  BY <1>1, Zenon DEF Sound, ListsOK, Unique
<1>3. WiresOK(e, in, phase # "closed", B)
  BY <1>1, Zenon DEF Sound, WiresOK
<1> QED BY <1>1, <1>2, <1>3, Zenon DEF Sound, Rested, Holds

\* do_disconnect: the packets are lost, the lists stay.
LEMMA CloseSound ==
    ASSUME NEW d \in Data(Msg), NEW B, ListsOK(d, B), Rested(d), Holds(d, B)
    PROVE  Sound([d EXCEPT !.out = <<>>], <<>>, "closed", B)
<1> DEFINE none == <<>>
           e    == [d EXCEPT !.out = none]
<1>1. none \in Seq(Packet) /\ Elements(none) = {} /\ Distinct(none) /\ Apart(none, none)
  BY NoIds
<1> HIDE DEF none
<1>2. e \in Data(Msg)
  BY <1>1, Zenon DEF Data, MsgData
<1>3. d \in MsgData
  BY Zenon DEF Data
<1>4. /\ e.inflight = d.inflight /\ e.queued = d.queued /\ e.storage = d.storage
      /\ e.out = none
  BY <1>3, Zenon DEF MsgData
<1> HIDE DEF e
<1>5. HeldIn(e) = HeldIn(d) /\ Late(e) = Late(d) /\ Tokens(e, none) = {}
  BY <1>1, <1>4, Zenon DEF HeldIn, Late, Tokens
<1>6. ListsOK(e, B) /\ Rested(e) /\ Holds(e, B)
  BY <1>4, <1>5, Zenon DEF ListsOK, Unique, Rested, Holds
<1>7. WiresOK(e, none, FALSE, B)
  BY <1>1, <1>4, <1>5, Zenon DEF WiresOK
<1>8. Sound(e, none, "closed", B)
  BY <1>2, <1>6, <1>7, Zenon DEF Sound
<1> QED BY <1>8, Zenon DEF e, none

\* The message that an answer is for: it is on the inflight list, found by the
\* answer's identifier and waiting for this answer, or on no list.
LEMMA AnswerFinds ==
    ASSUME Counting, NEW d, NEW in \in Seq(Ack), in # <<>>, NEW phase, NEW B, Sound(d, in, phase, B),
           Naming(B.name)
    PROVE  LET h == Head(in)
               i == Find(d.inflight, h.mid)
           IN  /\ i # 0 => /\ i \in DOMAIN d.inflight /\ d.inflight[i].id = h.id
                           /\ h.type \in Expect(d.inflight[i].state)
               /\ i = 0 => \A m \in Elements(d.inflight) : m.id # h.id
               /\ \A m \in Late(d) : m.id # h.id
               /\ h \in Ack /\ h \in Tokens(d, in) /\ TokenOK(h, B)
<1> DEFINE h == Head(in)
           l == d.inflight
           i == Find(l, h.mid)
<1>1. d \in Data(Msg) /\ ListsOK(d, B) /\ WiresOK(d, in, phase # "closed", B)
  BY Zenon DEF Sound
<1>2. l \in Seq(Msg)
  BY <1>1, DataFields, Zenon DEF Inflights
<1>3. h \in Ack /\ Elements(in) = {h} \cup Elements(Tail(in))
  BY TailIds, Zenon
<1>4. h \in Tokens(d, in)
  BY <1>3, Zenon DEF Tokens
<1>5. TokenOK(h, B) /\ \A m \in HeldIn(d) : Match(m, h)
  BY <1>1, <1>4, Zenon DEF WiresOK
<1>6. h.type \in {"PUBACK", "PUBREC", "PUBREC_FAIL", "PUBCOMP"}
  BY <1>3, Zenon DEF Ack
<1>7. \A m \in HeldIn(d) : MsgOK(m, B)
  BY <1>1, Zenon DEF ListsOK
<1>8. /\ i # 0 => i \in DOMAIN l /\ l[i].mid = h.mid
      /\ i = 0 => \A j \in DOMAIN l : l[j].mid # h.mid
  BY <1>2, FindEntry, Zenon
<1>9. \A j \in DOMAIN l : l[j] \in HeldIn(d)
  BY Zenon DEF HeldIn, Elements
<1> HIDE DEF h, i, l
<1>10. ASSUME i # 0
       PROVE  i \in DOMAIN l /\ l[i].id = h.id /\ h.type \in Expect(l[i].state)
  <2>1. i \in DOMAIN l /\ l[i].mid = h.mid /\ MsgOK(l[i], B) /\ Match(l[i], h)
    BY <1>5, <1>7, <1>8, <1>9, <1>10, Zenon
  <2>2. /\ l[i].id \in DOMAIN B.name /\ h.id \in DOMAIN B.name
        /\ B.name[l[i].id].mid = B.name[h.id].mid
    BY <1>5, <2>1, Zenon DEF MsgOK, TokenOK, InBook
  <2>3. B.name[h.id].kind.qos # 0
    BY <1>5, <1>6, SMTT(20) DEF TokenOK
  <2>4. l[i].id = h.id
    BY <2>2, <2>3, Zenon DEF Naming
  <2> QED BY <2>1, <2>4, Zenon DEF Match
<1>11. ASSUME i = 0, NEW m \in Elements(l) PROVE m.id # h.id
  <2>1. PICK j \in DOMAIN l : m = l[j]
    BY <1>11, Zenon DEF Elements
  <2>2. m.mid # h.mid /\ MsgOK(m, B)
    BY <1>7, <1>8, <1>9, <1>11, <2>1, Zenon
  <2> QED BY <1>5, <2>2, Zenon DEF MsgOK, TokenOK, InBook
<1>12. ASSUME NEW m \in Late(d) PROVE m.id # h.id
  <2>1. Expect(m.state) = {} /\ Match(m, h)
    BY <1>1, <1>5, IdleExpects, Zenon DEF ListsOK, HeldIn
  <2> QED BY <2>1, Zenon DEF Match
<1> QED BY <1>3, <1>4, <1>5, <1>10, <1>11, <1>12, Zenon DEF h, i, l

\* The answer that ends a handshake removes its message.
LEMMA AcknowledgeSound ==
    ASSUME Counting, NEW d, NEW in \in Seq(Ack), in # <<>>, NEW B, Sound(d, in, "live", B),
           Naming(B.name), OwedOK(B),
           Head(in).type \in {"PUBACK", "PUBREC_FAIL", "PUBCOMP"}
    PROVE  LET i == Find(d.inflight, Head(in).mid)
           IN  Sound(IF i = 0 THEN d ELSE db__message_remove(d, i), Tail(in), "live", B)
<1> DEFINE h == Head(in)
           l == d.inflight
           i == Find(l, h.mid)
           r == Tail(in)
           e == IF i = 0 THEN d ELSE db__message_remove(d, i)
<1>1. /\ i # 0 => i \in DOMAIN l /\ l[i].id = h.id
      /\ i = 0 => \A m \in Elements(l) : m.id # h.id
      /\ \A m \in Late(d) : m.id # h.id
      /\ h \in Ack /\ TokenOK(h, B)
  BY AnswerFinds, Zenon
<1>2. /\ d \in Data(Msg) /\ ListsOK(d, B) /\ WiresOK(d, in, TRUE, B)
      /\ Rested(d) /\ UnsentLast(l) /\ Holds(d, B)
  BY Zenon DEF Sound
<1>3. l \in Seq(Msg) /\ d \in MsgData /\ d.msg_count12 - 1 \in Int
  BY <1>2, DataFields DEF Inflights
<1>4. Unique(d) /\ Distinct(l)
  BY <1>2, Zenon DEF ListsOK, Unique
<1>5. /\ r \in Seq(Ack) /\ Elements(in) = {h} \cup Elements(r)
      /\ Distinct(in) => Distinct(r) /\ \A a \in Elements(r) : a.id # h.id
  BY TailIds, Zenon
<1> HIDE DEF i, l, h, r
<1>6. /\ e \in Data(Msg) /\ e.queued = d.queued /\ e.storage = d.storage /\ e.out = d.out
      /\ Elements(e.inflight) = {m \in Elements(l) : m.id # h.id}
      /\ Distinct(e.inflight) /\ UnsentLast(e.inflight)
  <2>1. CASE i = 0
    BY <1>1, <1>2, <1>4, <2>1, Zenon DEF l
  <2>2. CASE i # 0
    <3> DEFINE w == Without(l, i)
    <3>1. /\ w \in Seq(Msg) /\ Elements(w) = {l[j] : j \in DOMAIN l \ {i}}
          /\ Distinct(w) /\ UnsentLast(w)
      BY <1>1, <1>2, <1>3, <1>4, <2>2, WithoutEntries, Zenon
    <3>2. {l[j] : j \in DOMAIN l \ {i}} = {m \in Elements(l) : m.id # h.id}
      BY <1>1, <1>4, <2>2, Zenon DEF Elements, Distinct
    <3>3. e = [d EXCEPT !.inflight = w, !.msg_count12 = d.msg_count12 - 1]
      BY <2>2, Zenon DEF db__message_remove, l
    <3> HIDE DEF w, e
    <3>4. e \in Data(Msg)
      BY <1>2, <1>3, <3>1, <3>3, Zenon DEF Data, MsgData
    <3>5. e.inflight = w /\ e.queued = d.queued /\ e.storage = d.storage /\ e.out = d.out
      BY <1>3, <3>3, Zenon DEF MsgData
    <3> QED BY <3>1, <3>2, <3>4, <3>5, Zenon
  <2> QED BY <2>1, <2>2, Zenon
<1> HIDE DEF e
<1>7. Elements(e.inflight) \subseteq Elements(l) /\ Late(e) = Late(d)
        /\ HeldIn(e) \subseteq HeldIn(d)
  BY <1>6, Zenon DEF HeldIn, Late, l
<1>8. Tokens(d, r) \subseteq Tokens(d, in) /\ Tokens(e, r) = Tokens(d, r)
        /\ \A t \in Tokens(d, in) : t.id # h.id => t \in Tokens(d, r)
  BY <1>5, <1>6, Zenon DEF Tokens
<1>9. ListsOK(e, B)
  <2>1. Unique(e)
    BY <1>4, <1>6, <1>7, Zenon DEF Unique, Apart, l
  <2> QED BY <1>2, <1>7, <2>1, Zenon DEF ListsOK
<1>10. WiresOK(e, r, TRUE, B)
  <2>1. Distinct(d.out) /\ Distinct(r) /\ Apart(d.out, r)
    BY <1>2, <1>5, Zenon DEF WiresOK, Apart
  <2>2. \A t \in Tokens(e, r) : TokenOK(t, B)
    BY <1>2, <1>8, Zenon DEF WiresOK
  <2>3. \A m \in HeldIn(e), t \in Tokens(e, r) : Match(m, t)
    BY <1>2, <1>7, <1>8, Zenon DEF WiresOK
  <2>4. ASSUME NEW m \in Elements(e.inflight), Expect(m.state) # {}
        PROVE  \E t \in Tokens(e, r) : t.id = m.id
    <3>1. m \in Elements(l) /\ m.id # h.id
      BY <1>6, Zenon
    <3>2. PICK t \in Tokens(d, in) : t.id = m.id
      BY <1>2, <2>4, <3>1, Zenon DEF WiresOK, l
    <3> QED BY <1>8, <3>1, <3>2, Zenon
  <2> QED BY <1>6, <2>1, <2>2, <2>3, <2>4, Zenon DEF WiresOK
<1>11. Rested(e)
  BY <1>2, <1>7, Zenon DEF Rested
<1>12. Holds(e, B)
  <2> SUFFICES ASSUME NEW x \in B.owed PROVE \E m \in HeldIn(e) : m.id = x
    BY Zenon DEF Holds
  <2>1. PICK m \in HeldIn(d) : m.id = x
    BY <1>2, Zenon DEF Holds
  <2>2. h.id \in B.got \cup B.refused
    BY <1>1, Zenon DEF TokenOK, h
  <2>3. m.id # h.id
    BY <2>1, <2>2, Zenon DEF OwedOK
  <2> QED BY <1>6, <1>7, <2>1, <2>3, Zenon DEF HeldIn, l
<1>13. Sound(e, r, "live", B)
  BY <1>6, <1>9, <1>10, <1>11, <1>12, Zenon DEF Sound
<1> QED BY <1>13, Zenon DEF e, i, l, h, r

\* handle__pubrec: the message is released and its PUBREL takes the place of the
\* PUBREC; when the message has gone, the PUBREL is sent for nothing.
LEMMA PubrecSound ==
    ASSUME Counting, NEW d, NEW in \in Seq(Ack), in # <<>>, NEW B, Sound(d, in, "live", B),
           Naming(B.name), Head(in).type = "PUBREC"
    PROVE  LET h      == Head(in)
               i      == Find(d.inflight, h.mid)
               u      == IF i = 0 THEN d
                         ELSE [d EXCEPT !.inflight[i].state = "wait_for_pubcomp"]
               pubrel == [type |-> "PUBREL", id |-> h.id, mid |-> h.mid,
                          qos |-> 2, dup |-> FALSE]
           IN  /\ u \in Data(Msg) /\ ListsOK(u, B) /\ Rested(u) /\ Holds(u, B)
               /\ Sound([u EXCEPT !.out = Append(u.out, pubrel)], Tail(in), "live", B)
<1> DEFINE h      == Head(in)
           l      == d.inflight
           i      == Find(l, h.mid)
           u      == IF i = 0 THEN d
                     ELSE [d EXCEPT !.inflight[i].state = "wait_for_pubcomp"]
           p      == [type |-> "PUBREL", id |-> h.id, mid |-> h.mid, qos |-> 2, dup |-> FALSE]
           r      == Tail(in)
           out    == Append(u.out, p)
           e      == [u EXCEPT !.out = out]
<1>1. /\ i # 0 => /\ i \in DOMAIN l /\ l[i].id = h.id
                  /\ h.type \in Expect(l[i].state)
      /\ i = 0 => \A m \in Elements(l) : m.id # h.id
      /\ \A m \in Late(d) : m.id # h.id
      /\ h \in Ack /\ h \in Tokens(d, in) /\ TokenOK(h, B)
  BY AnswerFinds, Zenon
<1>2. /\ d \in Data(Msg) /\ ListsOK(d, B) /\ WiresOK(d, in, TRUE, B)
      /\ Rested(d) /\ UnsentLast(l) /\ Holds(d, B)
  BY Zenon DEF Sound
<1>3. l \in Seq(Msg) /\ d \in MsgData /\ d.out \in Seq(Packet)
  BY <1>2, DataFields, Zenon DEF Inflights
<1>4. Unique(d) /\ Distinct(l) /\ \A m \in HeldIn(d) : MsgOK(m, B)
  BY <1>2, Zenon DEF ListsOK, Unique
<1>5. /\ r \in Seq(Ack) /\ Elements(in) = {h} \cup Elements(r)
      /\ Distinct(in) => Distinct(r) /\ \A a \in Elements(r) : a.id # h.id
  BY TailIds, Zenon
<1>6. /\ Distinct(d.out) /\ Distinct(in) /\ Apart(d.out, in)
      /\ \A t \in Tokens(d, in) : TokenOK(t, B)
      /\ \A m \in HeldIn(d), t \in Tokens(d, in) : Match(m, t)
      /\ \A m \in Elements(l) : Expect(m.state) # {} => \E t \in Tokens(d, in) : t.id = m.id
  BY <1>2, Zenon DEF WiresOK
<1>7. h.type = "PUBREC"
  BY Zenon
<1>8. p \in Packet /\ p.id = h.id /\ p.mid = h.mid /\ p.type = "PUBREL"
  BY <1>1 DEF Ack, Packet
<1>9. h.id \in DOMAIN B.name /\ h.mid = B.name[h.id].mid
        /\ B.name[h.id].kind.qos = 2 /\ h.id \in B.got
  BY <1>1, <1>7, Zenon DEF TokenOK, InBook
<1> HIDE DEF i, l, h, r, p
<1>10. /\ u \in Data(Msg) /\ u.queued = d.queued /\ u.storage = d.storage /\ u.out = d.out
       /\ SameIds(u.inflight, l) /\ UnsentLast(u.inflight)
       /\ \A n \in Elements(u.inflight) :
            \/ n \in Elements(l) /\ n.id # h.id
            \/ n.id = h.id /\ MsgOK(n, B) /\ n.state = "wait_for_pubcomp"
  <2>1. CASE i = 0
    BY <1>1, <1>2, <2>1, Zenon DEF SameIds, l
  <2>2. CASE i # 0
    <3> DEFINE x == [l[i] EXCEPT !.state = "wait_for_pubcomp"]
               y == [l EXCEPT ![i] = x]
    <3>1. /\ i \in DOMAIN l /\ l[i] \in Msg /\ l[i].id = h.id /\ l[i] \in HeldIn(d)
          /\ "PUBREC" \in Expect(l[i].state)
      BY <1>1, <1>3, <1>7, <2>2, SMTT(30) DEF HeldIn, Elements, l
    <3>2. l[i].state = "wait_for_pubrec" /\ MsgOK(l[i], B)
      BY <1>4, <3>1, Zenon DEF Expect
    <3>3. x \in Msg /\ x.id = l[i].id /\ x.mid = l[i].mid /\ x.kind = l[i].kind
            /\ x.state = "wait_for_pubcomp"
      BY <3>1, Zenon DEF Msg, States
    <3> HIDE DEF x
    <3>4. MsgOK(x, B)
      BY <1>9, <3>1, <3>2, <3>3, Zenon DEF MsgOK, InBook, Released, PublishStates
    <3>5. /\ y \in Seq(Msg) /\ DOMAIN y = DOMAIN l /\ y[i] = x
          /\ \A j \in DOMAIN l : j # i => y[j] = l[j]
      BY <1>3, <3>1, <3>3
    <3>6. u = [d EXCEPT !.inflight = y]
      BY <2>2, Zenon DEF x, l
    <3> HIDE DEF u, y
    <3>7. u \in Data(Msg)
      BY <1>2, <3>5, <3>6, Zenon DEF Data, MsgData
    <3>8. u.inflight = y /\ u.queued = d.queued /\ u.storage = d.storage /\ u.out = d.out
      BY <1>3, <3>6, Zenon DEF MsgData
    <3>9. SameIds(y, l)
      BY <3>3, <3>5, Zenon DEF SameIds
    <3>10. UnsentLast(y)
      <4>1. l[i].state \notin PublishStates /\ x.state \notin PublishStates
        BY <3>2, <3>3, Zenon DEF PublishStates
      <4> QED BY <1>2, <3>5, <4>1, SMTT(30) DEF UnsentLast
    <3>11. \A n \in Elements(y) :
             \/ n \in Elements(l) /\ n.id # h.id
             \/ n.id = h.id /\ MsgOK(n, B) /\ n.state = "wait_for_pubcomp"
      BY <1>4, <3>1, <3>3, <3>4, <3>5 DEF Elements, Distinct
    <3> QED BY <3>7, <3>8, <3>9, <3>10, <3>11, Zenon
  <2> QED BY <2>1, <2>2, Zenon
<1> HIDE DEF u
<1>11. Late(u) = Late(d) /\ HeldIn(u) = Elements(u.inflight) \cup Late(d)
         /\ HeldIn(d) = Elements(l) \cup Late(d)
  BY <1>10, Zenon DEF HeldIn, Late, l
<1>12. ListsOK(u, B) /\ Rested(u) /\ Holds(u, B)
  <2>1. Unique(u)
    BY <1>4, <1>10, SameIdsKeep, ZenonT(40) DEF Unique, l
  <2>2. \A n \in HeldIn(u) : MsgOK(n, B)
    BY <1>4, <1>10, <1>11, Zenon
  <2>3. ListsOK(u, B)
    BY <1>2, <1>11, <2>1, <2>2, Zenon DEF ListsOK
  <2>4. Rested(u)
    BY <1>2, <1>10, <1>11, Zenon DEF Rested
  <2>5. \A m \in Elements(l) : \E n \in Elements(u.inflight) : n.id = m.id
    BY <1>10, ZenonT(40) DEF SameIds, Elements
  <2>6. Holds(u, B)
    BY <1>2, <1>11, <2>5, Zenon DEF Holds
  <2> QED BY <2>3, <2>4, <2>6, Zenon
<1>13. out \in Seq(Packet) /\ Elements(out) = Elements(d.out) \cup {p}
         /\ (Distinct(d.out) /\ (\A a \in Elements(d.out) : a.id # p.id) => Distinct(out))
  BY <1>3, <1>8, <1>10, AppendIds
<1> HIDE DEF out
<1>14. /\ e \in Data(Msg) /\ e.inflight = u.inflight /\ e.queued = u.queued
       /\ e.storage = u.storage /\ e.out = out
  <2>1. e \in Data(Msg)
    BY <1>10, <1>13, Zenon DEF Data, MsgData
  <2>2. u \in MsgData
    BY <1>10, Zenon DEF Data
  <2> QED BY <2>1, <2>2, Zenon DEF MsgData
<1> HIDE DEF e
<1>15. \A t \in Tokens(d, r) : t \in Tokens(d, in) /\ t.id # h.id
  BY <1>5, <1>6, Zenon DEF Tokens, Apart
<1>16. Tokens(e, r) = Tokens(d, r) \cup {p}
         /\ \A t \in Tokens(d, in) : t.id # h.id => t \in Tokens(d, r)
  BY <1>5, <1>13, <1>14, Zenon DEF Tokens
<1>17. Late(e) = Late(u) /\ HeldIn(e) = HeldIn(u)
  BY <1>14, Zenon DEF HeldIn, Late
<1>18. ListsOK(e, B) /\ Rested(e) /\ Holds(e, B)
  BY <1>12, <1>14, <1>17, Zenon DEF ListsOK, Unique, Rested, Holds
<1>19. WiresOK(e, r, TRUE, B)
  <2>1. Distinct(e.out) /\ Distinct(r) /\ Apart(e.out, r)
    BY <1>5, <1>6, <1>8, <1>13, <1>14, <1>15, SMTT(30) DEF Apart, Tokens
  <2>2. TokenOK(p, B)
    BY <1>8, <1>9, Zenon DEF TokenOK, InBook
  <2>3. \A t \in Tokens(e, r) : TokenOK(t, B)
    BY <1>6, <1>15, <1>16, <2>2, Zenon
  <2>4. ASSUME NEW n \in HeldIn(e), NEW t \in Tokens(e, r) PROVE Match(n, t)
    <3>1. CASE n \in HeldIn(d) /\ n.id # h.id
      BY <1>6, <1>8, <1>15, <1>16, <3>1, Zenon DEF Match
    <3>2. CASE n.id = h.id /\ n.state = "wait_for_pubcomp"
      BY <1>8, <1>15, <1>16, <3>2, Zenon DEF Match, Expect
    <3> QED BY <1>1, <1>10, <1>11, <1>17, <3>1, <3>2, Zenon
  <2>5. ASSUME NEW n \in Elements(e.inflight), Expect(n.state) # {}
        PROVE  \E t \in Tokens(e, r) : t.id = n.id
    <3>1. CASE n.id = h.id
      BY <1>8, <1>16, <3>1, Zenon
    <3>2. CASE n.id # h.id
      <4>1. n \in Elements(l)
        BY <1>10, <1>14, <3>2, Zenon
      <4>2. PICK t \in Tokens(d, in) : t.id = n.id
        BY <1>6, <2>5, <4>1, Zenon
      <4> QED BY <1>16, <3>2, <4>2, Zenon
    <3> QED BY <3>1, <3>2, Zenon
  <2> QED BY <2>1, <2>3, <2>4, <2>5, Zenon DEF WiresOK
<1>20. Sound(e, r, "live", B)
  BY <1>10, <1>14, <1>18, <1>19, Zenon DEF Sound
<1> QED BY <1>10, <1>12, <1>20, Zenon DEF e, out, u, i, l, h, r, p

-----------------------------------------------------------------------------
(* Resumption                                                              *)

\* The reconnect reset of an inflight message: a released one will have its PUBREL
\* sent again, the others are published again.
LEMMA ResetOne ==
    ASSUME NEW m \in Msg, NEW B, MsgOK(m, B), m.state # "resend_pubrel"
    PROVE  LET n == ResetState(m)
           IN  /\ n \in Msg /\ n.id = m.id /\ MsgOK(n, B) /\ Expect(n.state) = {}
<1> DEFINE n == ResetState(m)
<1>1. n \in Msg
  BY ResetStateType, Zenon DEF LiveMsg
<1>2. CASE m.kind.qos = 2 /\ m.state = "wait_for_pubcomp"
  <2>1. n.id = m.id /\ n.mid = m.mid /\ n.kind = m.kind /\ n.state = "resend_pubrel"
    BY <1>2, Zenon DEF ResetState, Msg
  <2> HIDE DEF n
  <2>2. MsgOK(n, B)
    BY <1>2, <2>1, Zenon DEF MsgOK, InBook, Released, PublishStates
  <2> QED BY <1>1, <2>1, <2>2, IdleExpects, Zenon DEF n
<1>3. CASE ~(m.kind.qos = 2 /\ m.state = "wait_for_pubcomp")
  <2>1. /\ n.id = m.id /\ n.mid = m.mid /\ n.kind = m.kind
        /\ n.state = PublishState(m.kind.qos) /\ n.state \in PublishStates
    BY <1>3, PublishStateOf, Zenon DEF ResetState
  <2>2. n.state \in IdleStates
    BY <2>1, IdleExpects, Zenon
  <2>3. /\ n.state \notin Released /\ n.state # "wait_for_puback"
        /\ n.state # "wait_for_pubrec" /\ Expect(n.state) = {}
    BY <2>2, IdleExpects, Zenon
  <2>4. m.kind.qos = 2 => m.state \notin Released
    BY <1>3, Zenon DEF Released
  <2> HIDE DEF n
  <2>5. MsgOK(n, B)
    BY <2>1, <2>3, <2>4, Zenon DEF MsgOK, InBook
  <2> QED BY <1>1, <2>1, <2>3, <2>5, Zenon DEF n
<1> QED BY <1>2, <1>3, Zenon

\* A list of messages, each of which is reset or moved, in a form that the list
\* lemmas apply to.
LEMMA ResetList ==
    ASSUME NEW l \in Seq(Msg), NEW f, DOMAIN f = DOMAIN l,
           \A i \in DOMAIN l : f[i] \in Msg /\ f[i].id = l[i].id,
           f = [i \in DOMAIN l |-> f[i]]
    PROVE  f \in Seq(Msg) /\ Len(f) = Len(l) /\ SameIds(f, l)
<1>1. Len(l) \in Nat /\ DOMAIN l = 1..Len(l)
  OBVIOUS
<1>2. f \in [1..Len(l) -> Msg]
  BY <1>1, Zenon
<1> QED BY <1>1, <1>2, MappedList, Zenon

\* db__message_reconnect_reset_outgoing keeps each message's place in its handshake;
\* the packets of the old connection are gone.
LEMMA ResetSound ==
    ASSUME Counting, NEW d \in Data(Msg), NEW B, ListsOK(d, B), Rested(d), Holds(d, B), d.out = <<>>
    PROVE  Sound(db__message_reconnect_reset_outgoing(d), <<>>, "resuming", B)
<1>m. Msg \in Inflights
  BY Zenon DEF Inflights
<1>1. /\ d.inflight \in Seq(Msg) /\ d.queued \in Seq(Msg) /\ d.storage \in Seq(Msg)
      /\ d \in MsgData
  BY <1>m, DataFields, Zenon
<1>2. PICK I \in Seq(Msg), q \in Seq(Msg), S \in Seq(Msg) :
        I = d.inflight /\ q = d.queued /\ S = d.storage
  BY <1>1, Zenon
<1> DEFINE quota  == ResetQuota(d)
           Ready  == {i \in DOMAIN q : \/ InflightMax = 0
                                       \/ i <= quota
                                       \/ q[i].kind.qos = 0}
           marked == [i \in DOMAIN q |->
                        IF i \in Ready THEN ToPublish(q[i]) ELSE q[i]]
           moved  == Cardinality(Ready)
           old    == [i \in DOMAIN I |-> ResetState(I[i])]
           a      == TakeFirst(marked, moved)
           b      == DropFirst(marked, moved)
           left   == Spend(quota, moved)
           count  == ResetCount(d)
           e      == db__message_reconnect_reset_outgoing(d)
<1>3. e \in Data(Msg)
  BY <1>m, ResetType, Zenon
<1>4. e.inflight = old \o a /\ e.queued = b /\ e.storage = S /\ e.out = d.out
  <2>1. e = [d EXCEPT !.inflight = old \o a, !.queued = b,
                      !.inflight_quota = left, !.msg_count12 = count]
    BY <1>2, Zenon DEF db__message_reconnect_reset_outgoing
  <2> HIDE DEF e, old, a, b, left, count
  <2> QED BY <1>1, <1>2, <2>1, Zenon DEF MsgData
<1>5. moved \in Nat /\ moved <= Len(q)
  <2>1. Ready \in SUBSET (1..Len(q)) /\ Len(q) \in Nat
    OBVIOUS
  <2> QED BY <2>1, RankProperties, Zenon
<1>6. /\ Unique(d) /\ \A m \in HeldIn(d) : MsgOK(m, B) /\ m.state # "resend_pubrel"
      /\ \A m \in Late(d) : m.state \in IdleStates
      /\ HeldIn(d) = Elements(I) \cup Elements(q) \cup Elements(S)
      /\ Late(d) = Elements(q) \cup Elements(S)
  BY <1>2, Zenon DEF ListsOK, Rested, HeldIn, Late
<1> HIDE DEF Ready, moved, e
<1>7. \A i \in DOMAIN I : /\ old[i] \in Msg /\ old[i].id = I[i].id /\ MsgOK(old[i], B)
                          /\ Expect(old[i].state) = {}
  <2>1. \A i \in DOMAIN I : I[i] \in Msg /\ I[i] \in HeldIn(d)
    BY <1>6 DEF Elements
  <2>2. \A i \in DOMAIN I : old[i] = ResetState(I[i])
    BY Zenon
  <2> QED BY <1>6, <2>1, <2>2, ResetOne, Zenon
<1>8. \A i \in DOMAIN q : marked[i] \in Msg /\ Moved(marked[i], q[i]) /\ MsgOK(q[i], B)
                            /\ marked[i].id = q[i].id
  <2>1. \A i \in DOMAIN q : q[i] \in Msg /\ MsgOK(q[i], B) /\ q[i].state \in IdleStates
    BY <1>6 DEF Elements
  <2>2. \A i \in DOMAIN q : marked[i] = ToPublish(q[i]) \/ marked[i] = q[i]
    BY Zenon
  <2> HIDE DEF marked
  <2>3. ASSUME NEW i \in DOMAIN q PROVE marked[i] \in Msg /\ Moved(marked[i], q[i])
    <3>1. q[i] \in Msg /\ q[i].state \in IdleStates
      BY <2>1, Zenon
    <3>2. CASE marked[i] = ToPublish(q[i])
      BY <3>1, <3>2, PublishStateOf, Zenon DEF Moved
    <3>3. CASE marked[i] = q[i]
      BY <3>1, <3>3, Zenon DEF Moved
    <3> QED BY <2>2, <3>2, <3>3, Zenon
  <2> QED BY <2>1, <2>3, Zenon DEF Moved
<1>9. DOMAIN old = DOMAIN I /\ DOMAIN marked = DOMAIN q
        /\ old = [i \in DOMAIN I |-> old[i]] /\ marked = [i \in DOMAIN q |-> marked[i]]
  BY Zenon
<1> HIDE DEF old, marked
<1>10. /\ old \in Seq(Msg) /\ SameIds(old, I)
       /\ marked \in Seq(Msg) /\ SameIds(marked, q) /\ Len(marked) = Len(q)
  BY <1>7, <1>8, <1>9, ResetList, Zenon
<1>11. /\ marked = a \o b /\ a \in Seq(Msg) /\ b \in Seq(Msg)
  <2>1. moved \in 0..Len(marked)
    BY <1>5, <1>10
  <2> QED BY <1>10, <2>1, SplitList, Zenon
<1> HIDE DEF a, b
<1>12. Elements(old \o a) = Elements(old) \cup Elements(a)
         /\ Elements(marked) = Elements(a) \cup Elements(b)
  <2>1. Elements(old \o a) = Elements(old) \cup Elements(a)
    BY <1>10, <1>11, ConcatMsgs, Zenon
  <2>2. Elements(a \o b) = Elements(a) \cup Elements(b)
    BY <1>11, ConcatMsgs, Zenon
  <2> QED BY <1>11, <2>1, <2>2, Zenon
<1>13. /\ HeldIn(e) = Elements(old) \cup Elements(marked) \cup Elements(S)
       /\ Late(e) = Elements(b) \cup Elements(S)
       /\ Elements(e.inflight) = Elements(old) \cup Elements(a)
  BY <1>4, <1>12, Zenon DEF HeldIn, Late
<1>14. \A n \in Elements(old) : MsgOK(n, B) /\ Expect(n.state) = {}
  BY <1>7, <1>9, Zenon DEF Elements
<1>15. ASSUME NEW n \in Elements(marked)
       PROVE  MsgOK(n, B) /\ n.state \in IdleStates /\ Expect(n.state) = {}
  <2>1. PICK i \in DOMAIN q : n = marked[i]
    BY <1>9, Zenon DEF Elements
  <2>2. q[i] \in Msg
    OBVIOUS
  <2> QED BY <1>8, <2>1, <2>2, MovedOK, Zenon
<1>16. Unique(e)
  <2>1. /\ Distinct(I) /\ Distinct(q) /\ Distinct(S)
        /\ Apart(I, q) /\ Apart(I, S) /\ Apart(q, S)
    BY <1>2, <1>6, Zenon DEF Unique
  <2>2. /\ Distinct(old) /\ Apart(old, q) /\ Apart(old, S)
    BY <1>10, <2>1, SameIdsKeep, Zenon
  <2>3. Distinct(a \o b) /\ Apart(old, a \o b) /\ Apart(a \o b, S)
    BY <1>10, <1>11, <2>1, <2>2, SameIdsKeep, Zenon
  <2>4. SameIds(a, a)
    BY Zenon DEF SameIds
  <2>5. old \in Seq(Msg) /\ a \in Seq(Msg) /\ b \in Seq(Msg)
    BY <1>10, <1>11, Zenon
  <2>6. /\ Distinct(old \o a) /\ Distinct(b) /\ Apart(old \o a, b)
        /\ Apart(old \o a, S) /\ Apart(b, S)
    BY <2>2, <2>3, <2>4, <2>5, UniqueDequeue, SMTT(30)
  <2> QED BY <1>4, <2>1, <2>6, Zenon DEF Unique
<1>17. ListsOK(e, B)
  BY <1>6, <1>12, <1>13, <1>14, <1>15, <1>16, Zenon DEF ListsOK
<1>18. Holds(e, B)
  <2>1. ASSUME NEW m \in HeldIn(d) PROVE \E n \in HeldIn(e) : n.id = m.id
    <3>1. CASE m \in Elements(I)
      <4>1. PICK i \in DOMAIN I : m = I[i]
        BY <3>1, Zenon DEF Elements
      <4>2. old[i] \in Elements(old) /\ old[i].id = m.id
        BY <1>7, <1>9, <4>1, Zenon DEF Elements
      <4> QED BY <1>13, <4>2, Zenon
    <3>2. CASE m \in Elements(q)
      <4>1. PICK i \in DOMAIN q : m = q[i]
        BY <3>2, Zenon DEF Elements
      <4>2. marked[i] \in Elements(marked) /\ marked[i].id = m.id
        BY <1>8, <1>9, <4>1, Zenon DEF Elements
      <4> QED BY <1>13, <4>2, Zenon
    <3>3. CASE m \in Elements(S)
      BY <1>13, <3>3, Zenon
    <3> QED BY <1>6, <3>1, <3>2, <3>3, Zenon
  <2> QED BY <2>1, Zenon DEF Holds
<1> DEFINE none == <<>>
<1>19. /\ Elements(none) = {} /\ Distinct(none) /\ Apart(none, none)
       /\ d.out = none
  BY NoIds, Zenon
<1> HIDE DEF none
<1>20. Tokens(e, none) = {}
  BY <1>4, <1>19, Zenon DEF Tokens
<1>21. WiresOK(e, none, TRUE, B)
  BY <1>4, <1>12, <1>13, <1>14, <1>15, <1>19, <1>20, Zenon DEF WiresOK
<1>22. Sound(e, none, "resuming", B)
  BY <1>3, <1>17, <1>18, <1>21, Zenon DEF Sound
<1> QED BY <1>22, Zenon DEF e, none

\* context__init: a session without messages.
LEMMA FreshSound ==
    ASSUME NEW B, B.owed = {}
    PROVE  /\ Sound(FreshMsgData, <<>>, "resuming", B)
           /\ Sound(FreshMsgData, <<>>, "live", B)
<1> DEFINE none == <<>>
           e    == FreshMsgData
<1>1. e \in Data(Msg)
  BY FreshType, Zenon DEF Inflights
<1>2. e.inflight = none /\ e.queued = none /\ e.storage = none /\ e.out = none
  BY Zenon DEF FreshMsgData
<1>3. Elements(none) = {} /\ Distinct(none) /\ Apart(none, none) /\ UnsentLast(none)
  BY NoIds, Zenon
<1> HIDE DEF none, e
<1>4. HeldIn(e) = {} /\ Late(e) = {} /\ Tokens(e, none) = {}
  BY <1>2, <1>3, Zenon DEF HeldIn, Late, Tokens
<1>5. ListsOK(e, B) /\ WiresOK(e, none, TRUE, B) /\ Rested(e) /\ Holds(e, B)
  BY <1>2, <1>3, <1>4, Zenon DEF ListsOK, Unique, WiresOK, Rested, Holds
<1>6. Sound(e, none, "resuming", B) /\ Sound(e, none, "live", B)
  BY <1>1, <1>2, <1>3, <1>5, Zenon DEF Sound
<1> QED BY <1>6, Zenon DEF none, e

-----------------------------------------------------------------------------
(* The client's side                                                       *)

\* The client takes the packet p for a message and the handshake of that message
\* goes on with its answer, if it has one; no other message is concerned.
LEMMA ExchangeSound ==
    ASSUME NEW d, NEW in \in Seq(Ack), NEW B, Sound(d, in, "live", B), d.out # <<>>,
           NEW C, DiffersAt(C, B, Head(d.out).id), NEW a, NEW next,
           \/ next = in
           \/ next = Append(in, a) /\ a \in Ack /\ a.id = Head(d.out).id /\ TokenOK(a, C),
           \A m \in HeldIn(d) : m.id = Head(d.out).id =>
               MsgOK(m, C) /\ next = Append(in, a) /\ a.type \in Expect(m.state)
    PROVE  Sound([d EXCEPT !.out = Tail(d.out)], next, "live", C)
<1> DEFINE p == Head(d.out)
           r == Tail(d.out)
           e == [d EXCEPT !.out = r]
<1>1. /\ d \in Data(Msg) /\ ListsOK(d, B) /\ WiresOK(d, in, TRUE, B)
      /\ Rested(d) /\ UnsentLast(d.inflight) /\ Holds(d, B)
  BY Zenon DEF Sound
<1>2. d.out \in Seq(Packet) /\ d \in MsgData
  BY <1>1, DataFields, Zenon DEF Inflights
<1>3. /\ r \in Seq(Packet) /\ Elements(d.out) = {p} \cup Elements(r)
      /\ Distinct(d.out) => Distinct(r) /\ \A b \in Elements(r) : b.id # p.id
  BY <1>2, TailIds, Zenon
<1>4. /\ Distinct(d.out) /\ Distinct(in) /\ Apart(d.out, in)
      /\ \A t \in Tokens(d, in) : TokenOK(t, B)
      /\ \A m \in HeldIn(d), t \in Tokens(d, in) : Match(m, t)
      /\ \A m \in Elements(d.inflight) :
           Expect(m.state) # {} => \E t \in Tokens(d, in) : t.id = m.id
  BY <1>1, Zenon DEF WiresOK
<1>5. C.name = B.name /\ C.owed \subseteq B.owed
        /\ \A y : y # p.id => /\ y \in C.got <=> y \in B.got
                              /\ y \in C.open <=> y \in B.open
                              /\ y \in C.refused <=> y \in B.refused
  BY Zenon DEF DiffersAt
<1>6. /\ \/ next = in
         \/ next = Append(in, a) /\ a \in Ack /\ a.id = p.id /\ TokenOK(a, C)
      /\ \A m \in HeldIn(d) : m.id = p.id =>
           MsgOK(m, C) /\ next = Append(in, a) /\ a.type \in Expect(m.state)
  BY Zenon
<1> HIDE DEF p, r
<1>7. /\ e \in Data(Msg) /\ e.inflight = d.inflight /\ e.queued = d.queued
      /\ e.storage = d.storage /\ e.out = r
  <2>1. e \in Data(Msg)
    BY <1>1, <1>3, Zenon DEF Data, MsgData
  <2> QED BY <1>2, <2>1, Zenon DEF MsgData
<1> HIDE DEF e
<1>8. HeldIn(e) = HeldIn(d) /\ Late(e) = Late(d)
  BY <1>7, Zenon DEF HeldIn, Late
<1> DEFINE Others == Elements(r) \cup Elements(in)
<1>9. /\ \A t \in Others : t \in Tokens(d, in) /\ t.id # p.id
      /\ \A t \in Tokens(d, in) : t.id # p.id => t \in Others
  BY <1>3, <1>4, Zenon DEF Tokens, Apart
<1>10. ASSUME NEW m, MsgOK(m, B), m.id # p.id PROVE MsgOK(m, C)
  BY <1>5, <1>10, Zenon DEF MsgOK, InBook
<1>11. ASSUME NEW t, TokenOK(t, B), t.id # p.id PROVE TokenOK(t, C)
  BY <1>5, <1>11, Zenon DEF TokenOK, InBook
<1>12. ListsOK(e, C)
  <2>1. \A m \in HeldIn(d) : MsgOK(m, C)
    BY <1>1, <1>6, <1>10, Zenon DEF ListsOK
  <2>2. Unique(e)
    BY <1>1, <1>7, Zenon DEF ListsOK, Unique
  <2> QED BY <1>1, <1>8, <2>1, <2>2, Zenon DEF ListsOK
<1>13. /\ Distinct(next)
       /\ \/ next = in /\ Elements(next) = Elements(in)
          \/ next = Append(in, a) /\ Elements(next) = Elements(in) \cup {a}
               /\ a.id = p.id /\ TokenOK(a, C)
  <2>1. CASE next = in
    BY <1>4, <2>1, Zenon
  <2>2. CASE next = Append(in, a) /\ a \in Ack /\ a.id = p.id /\ TokenOK(a, C)
    <3>1. \A t \in Elements(in) : t.id # a.id
      BY <1>9, <2>2, Zenon
    <3> QED BY <1>4, <2>2, <3>1, AppendIds, SMTT(30)
  <2> QED BY <1>6, <2>1, <2>2, Zenon
<1>14. \/ Tokens(e, next) = Others /\ next = in
       \/ /\ Tokens(e, next) = Others \cup {a} /\ next = Append(in, a)
          /\ a.id = p.id /\ TokenOK(a, C)
  BY <1>7, <1>13, Zenon DEF Tokens
<1>15. WiresOK(e, next, TRUE, C)
  <2>1. Distinct(e.out) /\ Apart(e.out, next)
    BY <1>3, <1>4, <1>7, <1>13, Zenon DEF Apart
  <2>2. \A t \in Tokens(e, next) : TokenOK(t, C)
    BY <1>4, <1>9, <1>11, <1>14, Zenon
  <2>3. ASSUME NEW m \in HeldIn(e), NEW t \in Tokens(e, next) PROVE Match(m, t)
    <3>1. CASE t \in Others
      BY <1>4, <1>8, <1>9, <3>1, Zenon
    <3>2. CASE t = a /\ a.id = p.id
      <4>1. m.id = a.id => a.type \in Expect(m.state)
        BY <1>6, <1>8, <3>2, Zenon
      <4> QED BY <3>2, <4>1, Zenon DEF Match
    <3> QED BY <1>14, <3>1, <3>2, Zenon
  <2>4. ASSUME NEW m \in Elements(e.inflight), Expect(m.state) # {}
        PROVE  \E t \in Tokens(e, next) : t.id = m.id
    <3>1. m \in Elements(d.inflight) /\ m \in HeldIn(d)
      BY <1>7, Zenon DEF HeldIn
    <3>2. CASE m.id = p.id
      <4>1. next = Append(in, a)
        BY <1>6, <3>1, <3>2, Zenon
      <4>2. CASE a \in Tokens(e, next) /\ a.id = p.id
        BY <3>2, <4>2, Zenon
      <4>3. CASE next = in
        <5>1. Append(in, a) # in
          <6>1. Len(Append(in, a)) = Len(in) + 1 /\ Len(in) \in Nat
            OBVIOUS
          <6>2. Len(in) + 1 # Len(in)
            BY <6>1
          <6> QED BY <6>1, <6>2, Zenon
        <5> QED BY <4>1, <4>3, <5>1, Zenon
      <4> QED BY <1>14, <4>1, <4>2, <4>3, Zenon
    <3>3. CASE m.id # p.id
      BY <1>4, <1>9, <1>14, <2>4, <3>1, <3>3, Zenon
    <3> QED BY <3>2, <3>3, Zenon
  <2> QED BY <1>13, <2>1, <2>2, <2>3, <2>4, Zenon DEF WiresOK
<1>16. Rested(e) /\ Holds(e, C)
  BY <1>1, <1>5, <1>8, Zenon DEF Rested, Holds
<1>17. Sound(e, next, "live", C)
  BY <1>1, <1>7, <1>12, <1>15, <1>16, Zenon DEF Sound
<1> QED BY <1>17, Zenon DEF e, r

\* What the answers of the client mean for the message: each is one that its state
\* on the inflight list waits for, and agrees with the changed book.
LEMMA ClientAnswers ==
    ASSUME NEW d, NEW in, NEW B, Sound(d, in, "live", B), d.out # <<>>,
           NEW C, DiffersAt(C, B, Head(d.out).id)
    PROVE  LET p == Head(d.out)
               a(type) == [type |-> type, id |-> p.id, mid |-> p.mid]
               Reply(type) == /\ a(type) \in Ack /\ a(type).id = p.id /\ TokenOK(a(type), C)
                             /\ \A m \in HeldIn(d) : m.id = p.id =>
                                  MsgOK(m, C) /\ type \in Expect(m.state)
           IN  /\ p.type = "PUBLISH" /\ p.qos = 0 => \A m \in HeldIn(d) : m.id # p.id
               /\ p.type = "PUBLISH" /\ p.qos = 1 /\ p.id \in C.got => Reply("PUBACK")
               /\ p.type = "PUBLISH" /\ p.qos = 2 /\ p.id \in C.got /\ p.id \in C.open =>
                    Reply("PUBREC")
               /\ p.type = "PUBLISH" /\ p.qos = 2 /\ p.id \in C.refused
                    /\ C.got = B.got /\ C.open = B.open => Reply("PUBREC_FAIL")
               /\ p.type = "PUBREL" /\ C.got = B.got => Reply("PUBCOMP")
<1> DEFINE p == Head(d.out)
           a(type) == [type |-> type, id |-> p.id, mid |-> p.mid]
<1>1. d \in Data(Msg) /\ ListsOK(d, B) /\ WiresOK(d, in, TRUE, B)
  BY Zenon DEF Sound
<1>2. d.out \in Seq(Packet)
  BY <1>1, DataFields, Zenon DEF Inflights
<1>3. p \in Packet /\ p \in Tokens(d, in)
  BY <1>2, TailIds DEF Tokens
<1>4. TokenOK(p, B) /\ \A m \in HeldIn(d) : Match(m, p) /\ MsgOK(m, B)
  BY <1>1, <1>3, Zenon DEF WiresOK, ListsOK
<1> HIDE DEF p
<1>5. C.name = B.name
  BY Zenon DEF DiffersAt, p
<1>6. p.id \in DOMAIN C.name /\ p.mid = C.name[p.id].mid
  BY <1>4, <1>5, Zenon DEF TokenOK, InBook
<1>7. \A type \in {"PUBACK", "PUBREC", "PUBREC_FAIL", "PUBCOMP"} :
        a(type) \in Ack /\ a(type).id = p.id /\ a(type).mid = p.mid /\ a(type).type = type
  BY <1>3, Zenon DEF Packet, Ack
<1>8. ASSUME NEW m \in HeldIn(d), m.id = p.id
      PROVE  p.type \in Expect(m.state) /\ InBook(m, C) /\ m.kind = C.name[p.id].kind
               /\ MsgOK(m, B)
  BY <1>4, <1>5, <1>8, Zenon DEF Match, MsgOK, InBook
<1> HIDE DEF a
<1>9. ASSUME p.type = "PUBLISH"
      PROVE  /\ p.qos = C.name[p.id].kind.qos
             /\ \A m \in HeldIn(d) : m.id = p.id =>
                  /\ m.kind.qos = p.qos
                  /\ \/ m.state = "wait_for_puback" /\ p.qos = 1
                     \/ m.state = "wait_for_pubrec" /\ p.qos = 2
  <2>1. p.qos = C.name[p.id].kind.qos
    BY <1>4, <1>5, <1>9, Zenon DEF TokenOK
  <2>2. ASSUME NEW m \in HeldIn(d), m.id = p.id
        PROVE  /\ m.kind.qos = p.qos
               /\ \/ m.state = "wait_for_puback" /\ p.qos = 1
                  \/ m.state = "wait_for_pubrec" /\ p.qos = 2
    <3>1. "PUBLISH" \in Expect(m.state) /\ m.kind.qos = p.qos /\ MsgOK(m, B)
      BY <1>8, <1>9, <2>1, <2>2, Zenon
    <3>2. m.state = "wait_for_puback" \/ m.state = "wait_for_pubrec"
      BY <3>1, Zenon DEF Expect
    <3> QED BY <3>1, <3>2, Zenon DEF MsgOK
  <2> QED BY <2>1, <2>2, Zenon
<1>10. ASSUME p.type = "PUBLISH", p.qos = 0, NEW m \in HeldIn(d) PROVE m.id # p.id
  BY <1>9, <1>10
<1>11. ASSUME p.type = "PUBLISH", p.qos = 1, p.id \in C.got
       PROVE  /\ TokenOK(a("PUBACK"), C)
              /\ \A m \in HeldIn(d) : m.id = p.id => MsgOK(m, C) /\ "PUBACK" \in Expect(m.state)
  <2>1. TokenOK(a("PUBACK"), C)
    BY <1>6, <1>7, <1>9, <1>11, Zenon DEF TokenOK, InBook
  <2>2. ASSUME NEW m \in HeldIn(d), m.id = p.id
        PROVE  MsgOK(m, C) /\ "PUBACK" \in Expect(m.state)
    BY <1>8, <1>9, <1>11, <2>2, SMTT(30) DEF MsgOK, Expect, PublishStates, Released
  <2> QED BY <2>1, <2>2, Zenon
<1>12. ASSUME p.type = "PUBLISH", p.qos = 2, p.id \in C.got, p.id \in C.open
       PROVE  /\ TokenOK(a("PUBREC"), C)
              /\ \A m \in HeldIn(d) : m.id = p.id => MsgOK(m, C) /\ "PUBREC" \in Expect(m.state)
  <2>1. TokenOK(a("PUBREC"), C)
    BY <1>6, <1>7, <1>9, <1>12, Zenon DEF TokenOK, InBook
  <2>2. ASSUME NEW m \in HeldIn(d), m.id = p.id
        PROVE  MsgOK(m, C) /\ "PUBREC" \in Expect(m.state)
    BY <1>8, <1>9, <1>12, <2>2, SMTT(30) DEF MsgOK, Expect, PublishStates, Released
  <2> QED BY <2>1, <2>2, Zenon
<1>13. ASSUME p.type = "PUBLISH", p.qos = 2, p.id \in C.refused, C.got = B.got, C.open = B.open
       PROVE  /\ TokenOK(a("PUBREC_FAIL"), C)
              /\ \A m \in HeldIn(d) : m.id = p.id => MsgOK(m, C) /\ "PUBREC_FAIL" \in Expect(m.state)
  <2>1. TokenOK(a("PUBREC_FAIL"), C)
    BY <1>6, <1>7, <1>9, <1>13, Zenon DEF TokenOK, InBook
  <2>2. ASSUME NEW m \in HeldIn(d), m.id = p.id
        PROVE  MsgOK(m, C) /\ "PUBREC_FAIL" \in Expect(m.state)
    <3>1. MsgOK(m, C)
      BY <1>5, <1>8, <1>13, <2>2, Zenon DEF MsgOK, InBook
    <3> QED BY <1>9, <1>13, <2>2, <3>1, SMTT(30) DEF Expect
  <2> QED BY <2>1, <2>2, Zenon
<1>14. ASSUME p.type = "PUBREL", C.got = B.got
       PROVE  /\ TokenOK(a("PUBCOMP"), C)
              /\ \A m \in HeldIn(d) : m.id = p.id => MsgOK(m, C) /\ "PUBCOMP" \in Expect(m.state)
  <2>1. C.name[p.id].kind.qos = 2 /\ p.id \in C.got
    BY <1>4, <1>5, <1>14, Zenon DEF TokenOK
  <2>2. TokenOK(a("PUBCOMP"), C)
    BY <1>6, <1>7, <2>1, Zenon DEF TokenOK, InBook
  <2>3. ASSUME NEW m \in HeldIn(d), m.id = p.id
        PROVE  MsgOK(m, C) /\ "PUBCOMP" \in Expect(m.state)
    <3>1. m.state = "wait_for_pubcomp"
      BY <1>8, <1>14, <2>3, Zenon DEF Expect
    <3> QED BY <1>8, <2>1, <2>3, <3>1, Zenon DEF MsgOK, Expect, PublishStates, Released
  <2> QED BY <2>2, <2>3, Zenon
<1>15. \A type \in {"PUBACK", "PUBREC", "PUBREC_FAIL", "PUBCOMP"} :
         a(type) \in Ack /\ a(type).id = p.id
  BY <1>7, Zenon
<1> QED BY <1>10, <1>11, <1>12, <1>13, <1>14, <1>15, Zenon DEF p, a
=============================================================================
