------------------------------ MODULE Packets ------------------------------
(***************************************************************************)
(* Packets on a connection: the functions that put them together (send_*.c *)
(* and lib/property_mosq.c over lib/packet_datatypes.c), the queue and the *)
(* partial writes of packet__write(), the partial reads of packet__read(), *)
(* and the functions that take them apart again.  Bytes are numbers below  *)
(* 256; a string is a sequence of them.                                    *)
(*                                                                         *)
(* A PUBLISH packet does not hold the payload: it points to it, and        *)
(* packet__write() puts it behind the header when the packet is written.   *)
(***************************************************************************)
EXTENDS Integers, Sequences, FiniteSets, SequencesExt

CONSTANT Links      \* connections by name, each with the fields that Version ... MaxSent read

VARIABLES
    link,       \* the connection
    queue,      \* out_packet, the current one first
    pos,        \* bytes of the current packet already written
    pipe,       \* bytes on their way
    inp,        \* in_packet
    aliases,    \* topic aliases the reader has been given
    sent,       \* history: packets queued
    handled,    \* history: packets handled
    freed       \* sent packets whose payload its owner has freed

vars == <<link, queue, pos, pipe, inp, aliases, sent, handled, freed>>

Version    == Links[link].version       \* protocol version: 3, 4 or 5
Broker     == Links[link].broker        \* TRUE: the reader is the broker; FALSE: a client
Samples    == Links[link].samples       \* the packets sent
PeerMax    == Links[link].peer_max      \* maximum_packet_size the reader has announced, 0 for none
ReceiveMax == Links[link].receive_max   \* msgs_in.inflight_maximum of the sender
Chunks     == Links[link].chunks        \* the numbers of bytes a read or a write may transfer
MaxSent    == Links[link].max_sent      \* bound: packets

-----------------------------------------------------------------------------
(* lib/packet_datatypes.c: writing. *)

packet__varint_bytes(w) ==
    CASE w < 128 -> 1 [] w < 16384 -> 2 [] w < 2097152 -> 3 [] w < 268435456 -> 4 [] OTHER -> 5

packet__write_varint(w) ==
    LET n == packet__varint_bytes(w)
    IN  [i \in 1..n |-> ((w \div (128^(i - 1))) % 128) + (IF i < n THEN 128 ELSE 0)]

packet__write_uint16(w) == <<w \div 256, w % 256>>
packet__write_uint32(w) == <<w \div 16777216, (w \div 65536) % 256, (w \div 256) % 256, w % 256>>
packet__write_string(s) == packet__write_uint16(Len(s)) \o s

(* Reading: what was read and the bytes after it, or a failure. *)
Fail == [ok |-> FALSE, v |-> 0, rest |-> <<>>]
Take(s, n, v) == [ok |-> TRUE, v |-> v, rest |-> SubSeq(s, n + 1, Len(s))]
Then(r, F(_)) == IF r.ok THEN F(r) ELSE Fail

packet__read_byte(s) == IF Len(s) < 1 THEN Fail ELSE Take(s, 1, s[1])
packet__read_uint16(s) == IF Len(s) < 2 THEN Fail ELSE Take(s, 2, 256 * s[1] + s[2])
packet__read_uint32(s) ==
    IF Len(s) < 4 THEN Fail
    ELSE Take(s, 4, 16777216 * s[1] + 65536 * s[2] + 256 * s[3] + s[4])
packet__read_bytes(s, n) == IF Len(s) < n THEN Fail ELSE Take(s, n, SubSeq(s, 1, n))

packet__read_binary(s) ==
    Then(packet__read_uint16(s), LAMBDA n : packet__read_bytes(n.rest, n.v))

(* Strings are UTF-8 (module Utf8); no string here has a zero byte. *)
packet__read_string(s) ==
    Then(packet__read_binary(s), LAMBDA b : IF \E i \in DOMAIN b.v : b.v[i] = 0 THEN Fail ELSE b)

(* Overlong forms are refused, and so are more than four bytes. *)
packet__read_varint(s) ==
    LET ends == {i \in 1..4 : i <= Len(s) /\ s[i] < 128 /\ \A j \in 1..(i - 1) : s[j] >= 128}
        n    == CHOOSE i \in ends : TRUE
        part == [i \in 1..n |-> (s[i] % 128) * 128^(i - 1)]
    IN  IF ends = {} \/ (n > 1 /\ s[n] = 0) THEN Fail
        ELSE Take(s, n, FoldLeft(+, 0, part))

-----------------------------------------------------------------------------
(* lib/property_mosq.c.  A property has an identifier and a number n or a  *)
(* string s; a user property has a name too.                               *)

NumberProp(id, n)  == [id |-> id, n |-> n, s |-> <<>>, name |-> <<>>]
TextProp(id, s)    == [id |-> id, n |-> 0, s |-> s, name |-> <<>>]
UserProp(name, s)  == [id |-> 38, n |-> 0, s |-> s, name |-> name]

ByteProps   == {1, 23, 25, 36, 37, 40, 41, 42}
Int16Props  == {19, 33, 34, 35}
Int32Props  == {2, 17, 24, 39}
VarintProps == {11}
StringProps == {3, 8, 18, 21, 26, 28, 31}
BinaryProps == {9, 22}
PairProps   == {38}

property__get_length(p) ==
    CASE p.id \in ByteProps   -> 2
      [] p.id \in Int16Props  -> 3
      [] p.id \in Int32Props  -> 5
      [] p.id \in VarintProps -> 1 + packet__varint_bytes(p.n)
      [] p.id \in StringProps \cup BinaryProps -> 3 + Len(p.s)
      [] p.id \in PairProps   -> 5 + Len(p.name) + Len(p.s)

property__get_length_all(ps) == FoldLeft(LAMBDA n, p : n + property__get_length(p), 0, ps)

property__get_remaining_length(ps) ==
    property__get_length_all(ps) + packet__varint_bytes(property__get_length_all(ps))

property__write(p) ==
    <<p.id>> \o
    CASE p.id \in ByteProps   -> <<p.n>>
      [] p.id \in Int16Props  -> packet__write_uint16(p.n)
      [] p.id \in Int32Props  -> packet__write_uint32(p.n)
      [] p.id \in VarintProps -> packet__write_varint(p.n)
      [] p.id \in StringProps \cup BinaryProps -> packet__write_string(p.s)
      [] p.id \in PairProps   -> packet__write_string(p.name) \o packet__write_string(p.s)

property__write_all(ps, write_len) ==
    (IF write_len THEN packet__write_varint(property__get_length_all(ps)) ELSE <<>>)
    \o FlattenSeq([i \in DOMAIN ps |-> property__write(ps[i])])

ReadPair(s) ==
    Then(packet__read_string(s), LAMBDA name :
        Then(packet__read_string(name.rest), LAMBDA value : [value EXCEPT !.v = UserProp(name.v, value.v)]))

ReadNumber(id, r) == IF r.ok THEN [r EXCEPT !.v = NumberProp(id, @)] ELSE r
ReadText(id, r)   == IF r.ok THEN [r EXCEPT !.v = TextProp(id, @)] ELSE r

ReadValue(id, s) ==
    CASE id \in ByteProps   -> ReadNumber(id, packet__read_byte(s))
      [] id \in Int16Props  -> ReadNumber(id, packet__read_uint16(s))
      [] id \in Int32Props  -> ReadNumber(id, packet__read_uint32(s))
      [] id \in VarintProps -> ReadNumber(id, packet__read_varint(s))
      [] id \in StringProps -> ReadText(id, packet__read_string(s))
      [] id \in BinaryProps -> ReadText(id, packet__read_binary(s))
      [] id \in PairProps   -> ReadPair(s)
      [] OTHER              -> Fail

property__read(s) == Then(packet__read_varint(s), LAMBDA id : ReadValue(id.v, id.rest))

(* The commands a property may come with (mosquitto_property_check_command).*)
mosquitto_property_check_command(command, id) ==
    CASE id \in {1, 2, 3, 8, 9}                  -> command \in {"PUBLISH", "WILL"}
      [] id = 11                                 -> command \in {"PUBLISH", "SUBSCRIBE"}
      [] id = 17                                 -> command \in {"CONNECT", "CONNACK", "DISCONNECT"}
      [] id \in {21, 22}                         -> command \in {"CONNECT", "CONNACK", "AUTH"}
      [] id \in {18, 19, 26, 36, 37, 40, 41, 42} -> command = "CONNACK"
      [] id = 24                                 -> command = "WILL"
      [] id \in {23, 25}                         -> command = "CONNECT"
      [] id = 28                                 -> command \in {"CONNACK", "DISCONNECT"}
      [] id = 31 -> command \notin {"CONNECT", "PUBLISH", "SUBSCRIBE", "UNSUBSCRIBE"}
      [] id \in {33, 34, 39}                     -> command \in {"CONNECT", "CONNACK"}
      [] id = 35                                 -> command = "PUBLISH"
      [] id = 38                                 -> TRUE
      [] OTHER                                   -> FALSE

mosquitto_property_check_all(command, ps) ==
    /\ \A i \in DOMAIN ps :
        /\ ps[i].id \in ByteProps => ps[i].n <= 1
        /\ ps[i].id \in {33, 35, 39} => ps[i].n # 0
        /\ mosquitto_property_check_command(command, ps[i].id)
    /\ \A i, j \in DOMAIN ps : i < j /\ ps[i].id = ps[j].id => ps[i].id = 38

(* The loop of property__read_all(): left is the 32 bit count of property  *)
(* bytes still to come.  A property that runs past the count makes it wrap,*)
(* and the loop goes on to the end of the packet, where it fails.          *)
RECURSIVE ReadProps(_, _)
ReadProps(s, left) ==
    IF left = 0 THEN [ok |-> TRUE, v |-> <<>>, rest |-> s]
    ELSE Then(property__read(s), LAMBDA p :
            Then(ReadProps(p.rest, left - (Len(s) - Len(p.rest))), LAMBDA more :
                [more EXCEPT !.v = <<p.v>> \o more.v]))

property__read_all(command, s) ==
    Then(packet__read_varint(s), LAMBDA n :
        Then(ReadProps(n.rest, n.v), LAMBDA ps :
            IF mosquitto_property_check_all(command, ps.v) THEN ps ELSE Fail))

(* mosquitto_property_add_*(): the property goes last, unless its type is  *)
(* not the one of its identifier.  mosquitto_property_read_*(): the first. *)
PropertyAddNumber(ps, id, v) ==
    IF id \in ByteProps \cup Int16Props \cup Int32Props \cup VarintProps
    THEN Append(ps, NumberProp(id, v)) ELSE ps

PropertyAddText(ps, id, v) ==
    IF id \in StringProps \cup BinaryProps THEN Append(ps, TextProp(id, v)) ELSE ps

HasProperty(ps, id) == \E i \in DOMAIN ps : ps[i].id = id
PropertyRead(ps, id) ==
    ps[CHOOSE i \in DOMAIN ps : ps[i].id = id /\ \A j \in 1..(i - 1) : ps[j].id # id]

-----------------------------------------------------------------------------
(* The functions that put packets together (send_*.c).  Each works out the *)
(* remaining length first and writes the bytes afterwards; the result has  *)
(* both, and the payload of a PUBLISH, which is not copied.                *)

V5 == Version = 5
Flag(b, n) == IF b THEN n ELSE 0
Made(cmd, len, head) == [cmd |-> cmd, len |-> len, head |-> head, payload |-> <<>>]

PublishProps(p) == IF p.expiry > 0 THEN PropertyAddNumber(p.props, 2, p.expiry) ELSE p.props

send__real_publish(p) ==
    LET proplen == property__get_length_all(PublishProps(p))
    IN  [cmd  |-> 48 + Flag(p.dup, 8) + 2 * p.qos + Flag(p.retain, 1),
         len  |-> 2 + Len(p.topic) + Len(p.payload) + Flag(p.qos > 0, 2)
                  + Flag(V5, proplen + packet__varint_bytes(proplen)),
         head |-> packet__write_string(p.topic)
                  \o (IF p.qos > 0 THEN packet__write_uint16(p.mid) ELSE <<>>)
                  \o (IF V5 THEN packet__write_varint(proplen)
                                 \o property__write_all(PublishProps(p), FALSE) ELSE <<>>),
         payload |-> p.payload]

(* An absent will, user name or password is the empty sequence, a present  *)
(* one a sequence of one.                                                  *)
Opt(s, Write(_)) == IF s = <<>> THEN <<>> ELSE Write(s[1])

ConnectProps(p) ==
    IF HasProperty(p.props, 33) THEN p.props ELSE PropertyAddNumber(p.props, 33, ReceiveMax)

ConnectFlags(p) ==
    Flag(p.clean, 2) + Flag(p.username # <<>>, 128) + Flag(p.password # <<>>, 64)
    + Flag(p.threshold > 0, 1)
    + (IF p.will = <<>> THEN 0 ELSE 4 + 8 * p.will[1].qos + Flag(p.will[1].retain, 32))

ConnectLength(p) ==
    LET proplen == property__get_length_all(ConnectProps(p))
        w       == p.will[1]
    IN  (IF Version = 3 THEN 12 ELSE 10) + Flag(V5, proplen + packet__varint_bytes(proplen))
        + 2 + Len(p.id)
        + (IF p.will = <<>> THEN 0
           ELSE 4 + Len(w.topic) + Len(w.payload) + Flag(V5, property__get_remaining_length(w.props)))
        + (IF p.username = <<>> THEN 0 ELSE 2 + Len(p.username[1]))
        + (IF p.password = <<>> THEN 0 ELSE 2 + Len(p.password[1]))
        + Flag(p.threshold > 0, 4)

ProtocolName == IF Version = 3 THEN <<77, 81, 73, 115, 100, 112>> ELSE <<77, 81, 84, 84>>

send__connect(p) ==
    LET proplen == property__get_length_all(ConnectProps(p))
        WriteWill(w) == (IF V5 THEN property__write_all(w.props, TRUE) ELSE <<>>)
                        \o packet__write_string(w.topic) \o packet__write_string(w.payload)
    IN  Made(16, ConnectLength(p),
             packet__write_string(ProtocolName) \o <<Version, ConnectFlags(p)>>
             \o packet__write_uint16(p.keepalive)
             \o (IF V5 THEN packet__write_varint(proplen)
                            \o property__write_all(ConnectProps(p), FALSE) ELSE <<>>)
             \o packet__write_string(p.id)
             \o Opt(p.will, WriteWill)
             \o Opt(p.username, packet__write_string)
             \o Opt(p.password, packet__write_string)
             \o (IF p.threshold > 0 THEN packet__write_uint32(p.threshold) ELSE <<>>))

PropsLength(p) == Flag(V5, property__get_remaining_length(p.props))
PropsBytes(p)  == IF V5 THEN property__write_all(p.props, TRUE) ELSE <<>>

send__subscribe(p) ==
    Made(130, FoldLeft(LAMBDA n, t : n + 3 + Len(t), 2 + PropsLength(p), p.topics),
         packet__write_uint16(p.mid) \o PropsBytes(p)
         \o FlattenSeq([i \in DOMAIN p.topics |-> packet__write_string(p.topics[i]) \o <<p.options>>]))

send__unsubscribe(p) ==
    Made(162, FoldLeft(LAMBDA n, t : n + 2 + Len(t), 2 + PropsLength(p), p.topics),
         packet__write_uint16(p.mid) \o PropsBytes(p)
         \o FlattenSeq([i \in DOMAIN p.topics |-> packet__write_string(p.topics[i])]))

AckCommand == [PUBACK |-> 64, PUBREC |-> 80, PUBREL |-> 98, PUBCOMP |-> 112]

(* PUBACK, PUBREC, PUBREL and PUBCOMP: in version 5, with a reason code    *)
(* other than 0 and properties.                                            *)
send__command_with_mid(p) ==
    LET more == V5 /\ (p.reason # 0 \/ p.props # <<>>)
    IN  Made(AckCommand[p.type], 2 + Flag(more, 1)
                 + Flag(V5 /\ p.props # <<>>, property__get_remaining_length(p.props)),
             packet__write_uint16(p.mid) \o (IF more THEN <<p.reason>> ELSE <<>>)
             \o (IF V5 /\ p.props # <<>> THEN property__write_all(p.props, TRUE) ELSE <<>>))

send__simple_command(p) == Made(IF p.type = "PINGREQ" THEN 192 ELSE 208, 0, <<>>)

send__disconnect(p) ==
    LET more == V5 /\ (p.reason # 0 \/ p.props # <<>>)
    IN  Made(224, Flag(more, 1)
                  + Flag(more /\ p.props # <<>>, property__get_remaining_length(p.props)),
             (IF more THEN <<p.reason>> ELSE <<>>)
             \o (IF more /\ p.props # <<>> THEN property__write_all(p.props, TRUE) ELSE <<>>))

(* The broker adds what it is limited to; here, the number of messages in  *)
(* flight.                                                                 *)
ConnackProps(p) ==
    IF p.reason < 128 /\ ReceiveMax > 0 THEN PropertyAddNumber(p.props, 33, ReceiveMax) ELSE p.props

send__connack(p) ==
    LET q == [p EXCEPT !.props = ConnackProps(p)]
    IN  Made(32, 2 + PropsLength(q), <<p.ack, p.reason>> \o PropsBytes(q))

send__suback(p) ==
    Made(144, 2 + Len(p.codes) + PropsLength(p),
         packet__write_uint16(p.mid) \o PropsBytes(p) \o p.codes)

send__unsuback(p) ==
    Made(176, 2 + PropsLength(p) + Flag(V5, Len(p.codes)),
         packet__write_uint16(p.mid) \o PropsBytes(p) \o (IF V5 THEN p.codes ELSE <<>>))

AuthProps(p) ==
    LET method == PropertyAddText(<<>>, 21, p.method)
    IN  IF p.data = <<>> THEN method ELSE PropertyAddText(method, 22, p.data)

send__auth(p) ==
    Made(240, 1 + property__get_remaining_length(AuthProps(p)),
         <<p.reason>> \o property__write_all(AuthProps(p), TRUE))

Make(p) ==
    CASE p.type = "PUBLISH"     -> send__real_publish(p)
      [] p.type = "CONNECT"     -> send__connect(p)
      [] p.type = "SUBSCRIBE"   -> send__subscribe(p)
      [] p.type = "UNSUBSCRIBE" -> send__unsubscribe(p)
      [] p.type \in DOMAIN AckCommand -> send__command_with_mid(p)
      [] p.type \in {"PINGREQ", "PINGRESP"} -> send__simple_command(p)
      [] p.type = "DISCONNECT"  -> send__disconnect(p)
      [] p.type = "CONNACK"     -> send__connack(p)
      [] p.type = "SUBACK"      -> send__suback(p)
      [] p.type = "UNSUBACK"    -> send__unsuback(p)
      [] p.type = "AUTH"        -> send__auth(p)

-----------------------------------------------------------------------------
(* The functions that take packets apart (handle_*.c).  Each gets the first*)
(* byte and the bytes after the fixed header and gives the packet or Bad.  *)

Bad == [type |-> "BAD"]

(* Properties, in version 5 only. *)
ReadV5(command, s) == IF V5 THEN property__read_all(command, s) ELSE [ok |-> TRUE, v |-> <<>>, rest |-> s]

(* handle__publish(), in the library and in the broker, to the payload. *)
handle__publish(cmd, s) ==
    LET qos   == (cmd \div 2) % 4
        topic == packet__read_string(s)
        mid   == IF qos > 0 THEN packet__read_uint16(topic.rest)
                 ELSE [ok |-> TRUE, v |-> 0, rest |-> topic.rest]
        props == ReadV5("PUBLISH", mid.rest)
    IN  IF \/ qos = 3 \/ (qos = 0 /\ (cmd \div 8) % 2 = 1)
           \/ ~topic.ok \/ (~V5 /\ topic.v = <<>>)
           \/ ~mid.ok \/ (qos > 0 /\ mid.v = 0) \/ ~props.ok
        THEN Bad
        ELSE [type |-> "PUBLISH", dup |-> (cmd \div 8) % 2 = 1, qos |-> qos, retain |-> cmd % 2 = 1,
              topic |-> topic.v, mid |-> mid.v, props |-> props.v, payload |-> props.rest]

will__read(s, qos, retain) ==
    Then(ReadV5("WILL", s), LAMBDA props : Then(packet__read_string(props.rest), LAMBDA topic :
        IF topic.v = <<>> THEN Fail
        ELSE Then(packet__read_binary(topic.rest), LAMBDA payload :
                [payload EXCEPT !.v = [qos |-> qos, retain |-> retain, topic |-> topic.v,
                                       payload |-> payload.v, props |-> props.v]])))

(* Something optional: present when its flag is set. *)
ReadOpt(flag, s, ReadField(_)) ==
    IF ~flag THEN [ok |-> TRUE, v |-> <<>>, rest |-> s]
    ELSE Then(ReadField(s), LAMBDA r : [r EXCEPT !.v = <<r.v>>])

handle__connect(cmd, s) ==
    LET name  == packet__read_binary(s)
        vers  == packet__read_byte(name.rest)
        flags == packet__read_byte(vers.rest)
        Bit(n) == (flags.v \div n) % 2 = 1
        qos   == (flags.v \div 8) % 4
        alive == packet__read_uint16(flags.rest)
        props == ReadV5("CONNECT", alive.rest)
        id    == packet__read_string(props.rest)
        will  == ReadOpt(Bit(4), id.rest, LAMBDA t : will__read(t, qos, Bit(32)))
        user  == ReadOpt(Bit(128), will.rest, packet__read_string)
        pass  == ReadOpt(Bit(64), user.rest, packet__read_binary)
        thres == ReadOpt(Bit(1), pass.rest, packet__read_uint32)
    IN  IF \/ cmd # 16 \/ ~name.ok \/ name.v # ProtocolName \/ ~vers.ok \/ vers.v # Version
           \/ ~flags.ok \/ qos = 3 \/ ~alive.ok \/ ~props.ok \/ ~id.ok
           \/ (id.v = <<>> /\ (Version = 3 \/ (Version = 4 /\ ~Bit(2))))
           \/ ~will.ok \/ (~Bit(4) /\ Version # 3 /\ (qos # 0 \/ Bit(32)))
           \/ ~user.ok \/ (Bit(64) /\ ~Bit(128) /\ ~V5) \/ ~pass.ok
           \/ ~thres.ok \/ thres.rest # <<>>
        THEN Bad
        ELSE [type |-> "CONNECT", clean |-> Bit(2), keepalive |-> alive.v, id |-> id.v,
              will |-> will.v, username |-> user.v, password |-> pass.v,
              threshold |-> IF Bit(1) THEN thres.v[1] ELSE 0, props |-> props.v]

(* The topics of SUBSCRIBE, each with its options, or of UNSUBSCRIBE. *)
RECURSIVE ReadTopics(_, _)
ReadTopics(s, options) ==
    IF s = <<>> THEN [ok |-> TRUE, v |-> <<>>, o |-> {}]
    ELSE LET t    == packet__read_string(s)
             o    == packet__read_byte(t.rest)
             more == ReadTopics(IF options THEN o.rest ELSE t.rest, options)
         IN  IF \/ ~t.ok \/ t.v = <<>> \/ (options /\ ~o.ok) \/ ~more.ok
                \/ (options /\ IF V5 THEN o.v % 4 > 2 \/ o.v \div 16 > 2 ELSE o.v > 2)
             THEN [ok |-> FALSE, v |-> <<>>, o |-> {}]
             ELSE [ok |-> TRUE, v |-> <<t.v>> \o more.v,
                   o |-> more.o \cup (IF options THEN {o.v} ELSE {})]

handle__subscribe(cmd, s) ==
    LET mid    == packet__read_uint16(s)
        props  == ReadV5("SUBSCRIBE", mid.rest)
        topics == ReadTopics(props.rest, TRUE)
    IN  IF \/ cmd # 130 \/ ~mid.ok \/ mid.v = 0 \/ ~props.ok \/ ~topics.ok
           \/ (HasProperty(props.v, 11) /\ PropertyRead(props.v, 11).n = 0)
           \/ (topics.v = <<>> /\ Version # 3)
        THEN Bad
        ELSE [type |-> "SUBSCRIBE", mid |-> mid.v, props |-> props.v, topics |-> topics.v,
              options |-> CHOOSE o \in topics.o : TRUE]

handle__unsubscribe(cmd, s) ==
    LET mid    == packet__read_uint16(s)
        props  == ReadV5("UNSUBSCRIBE", mid.rest)
        topics == ReadTopics(props.rest, FALSE)
    IN  IF \/ cmd # 162 \/ ~mid.ok \/ mid.v = 0 \/ ~props.ok \/ ~topics.ok
           \/ (topics.v = <<>> /\ Version # 3)
        THEN Bad
        ELSE [type |-> "UNSUBSCRIBE", mid |-> mid.v, props |-> props.v, topics |-> topics.v]

(* The reason code and the properties may be left out. *)
ReadReason(s, command) ==
    LET reason == packet__read_byte(s)
        props  == property__read_all(command, reason.rest)
    IN  IF ~V5 \/ s = <<>> THEN [ok |-> TRUE, reason |-> 0, props |-> <<>>]
        ELSE IF reason.rest = <<>> THEN [ok |-> reason.ok, reason |-> reason.v, props |-> <<>>]
        ELSE [ok |-> reason.ok /\ props.ok, reason |-> reason.v, props |-> props.v]

ReasonCodes ==
    LET received == {0, 16, 128, 131, 135, 144, 145, 151}
    IN  [PUBACK  |-> received \cup {153}, PUBREC |-> received,
         PUBREL  |-> {0, 146}, PUBCOMP |-> {0, 146}]

handle__ack(type, cmd, s) ==
    LET mid  == packet__read_uint16(s)
        more == ReadReason(mid.rest, type)
    IN  IF \/ (cmd # AckCommand[type] /\ (type # "PUBREL" \/ Version # 3))
           \/ ~mid.ok \/ mid.v = 0 \/ ~more.ok \/ more.reason \notin ReasonCodes[type]
        THEN Bad
        ELSE [type |-> type, mid |-> mid.v, reason |-> more.reason, props |-> more.props]

handle__disconnect(cmd, s) ==
    LET more == ReadReason(s, "DISCONNECT")
    IN  IF cmd # 224 \/ ~more.ok THEN Bad
        ELSE [type |-> "DISCONNECT", reason |-> more.reason, props |-> more.props]

handle__connack(cmd, s) ==
    LET ack    == packet__read_byte(s)
        reason == packet__read_byte(ack.rest)
        props  == ReadV5("CONNACK", reason.rest)
    IN  IF cmd # 32 \/ ~ack.ok \/ ~reason.ok \/ ~props.ok THEN Bad
        ELSE [type |-> "CONNACK", ack |-> ack.v, reason |-> reason.v, props |-> props.v]

handle__suback(cmd, s) ==
    LET mid   == packet__read_uint16(s)
        props == ReadV5("SUBACK", mid.rest)
    IN  IF cmd # 144 \/ ~mid.ok \/ mid.v = 0 \/ ~props.ok THEN Bad
        ELSE [type |-> "SUBACK", mid |-> mid.v, props |-> props.v, codes |-> props.rest]

(* The client does not read the reason codes of UNSUBACK. *)
handle__unsuback(cmd, s) ==
    LET mid   == packet__read_uint16(s)
        props == ReadV5("UNSUBACK", mid.rest)
    IN  IF cmd # 176 \/ ~mid.ok \/ mid.v = 0 \/ ~props.ok THEN Bad
        ELSE [type |-> "UNSUBACK", mid |-> mid.v, props |-> props.v]

handle__auth(cmd, s) ==
    LET reason == packet__read_byte(s)
        props  == property__read_all("AUTH", reason.rest)
    IN  IF cmd # 240 \/ ~reason.ok \/ ~props.ok \/ ~HasProperty(props.v, 21) THEN Bad
        ELSE [type |-> "AUTH", reason |-> reason.v, method |-> PropertyRead(props.v, 21).s,
              data |-> IF HasProperty(props.v, 22) THEN PropertyRead(props.v, 22).s ELSE <<>>]

handle__packet(cmd, s) ==
    LET kind == cmd \div 16
    IN  CASE kind = 1  -> handle__connect(cmd, s)
          [] kind = 2  -> handle__connack(cmd, s)
          [] kind = 3  -> handle__publish(cmd, s)
          [] kind = 4  -> handle__ack("PUBACK", cmd, s)
          [] kind = 5  -> handle__ack("PUBREC", cmd, s)
          [] kind = 6  -> handle__ack("PUBREL", cmd, s)
          [] kind = 7  -> handle__ack("PUBCOMP", cmd, s)
          [] kind = 8  -> handle__subscribe(cmd, s)
          [] kind = 9  -> handle__suback(cmd, s)
          [] kind = 10 -> handle__unsubscribe(cmd, s)
          [] kind = 11 -> handle__unsuback(cmd, s)
          [] kind = 12 -> [type |-> "PINGREQ"]
          [] kind = 13 -> [type |-> "PINGRESP"]
          [] kind = 14 -> handle__disconnect(cmd, s)
          [] kind = 15 -> handle__auth(cmd, s)
          [] OTHER     -> Bad

-----------------------------------------------------------------------------
(* Topic aliases (lib/alias_mosq.c): the last topic given for a number. *)

alias__add(table, topic, alias) ==
    {a \in table : a.alias # alias} \cup {[alias |-> alias, topic |-> topic]}
alias__find(table, alias) == {a \in table : a.alias = alias}

(* The reader replaces an empty topic by that of the alias. *)
Aliased(p) == p.type = "PUBLISH" /\ HasProperty(p.props, 35)

Learn(table, p) ==
    IF Aliased(p) /\ p.topic # <<>> THEN alias__add(table, p.topic, PropertyRead(p.props, 35).n) ELSE table

Resolve(table, p) ==
    LET found == alias__find(table, PropertyRead(p.props, 35).n)
    IN  IF ~Aliased(p) \/ p.topic # <<>> THEN p
        ELSE IF found = {} THEN Bad ELSE [p EXCEPT !.topic = (CHOOSE a \in found : TRUE).topic]

-----------------------------------------------------------------------------
(* packet__write(): everything queued, as far as the socket takes it.  The *)
(* payload of a PUBLISH is fetched when the packet is written: if its owner*)
(* has freed it by then, the bytes are any bytes (Unknown).                *)

Unknown == 256

packet__check_oversize(len) == PeerMax > 0 /\ len + packet__varint_bytes(len) > PeerMax

packet__alloc(e) == <<e.cmd>> \o packet__write_varint(e.len)

WireBytes(e) ==
    packet__alloc(e) \o e.head
    \o (IF e.n \in freed THEN [i \in DOMAIN e.payload |-> Unknown] ELSE e.payload)

Size(e) == 1 + packet__varint_bytes(e.len) + e.len

Left(q, at) == FoldLeft(LAMBDA t, e : t + Size(e), 0, q) - at

\* Mutant: a packet is begun again when it could not be written whole.
RestartPacket(q, at, n) ==
    /\ pipe' = pipe \o SubSeq(FlattenSeq([i \in DOMAIN q |-> WireBytes(q[i])]), at + 1, at + n)
    /\ queue' = IF n = Left(q, at) THEN <<>> ELSE q
    /\ pos' = 0

(* n bytes of the packets q leave, the first having lost at bytes already. *)
packet__write(q, at, n) ==
    LET Total(k) == FoldLeft(LAMBDA t, e : t + Size(e), 0, SubSeq(q, 1, k))
        done     == CHOOSE k \in 0..Len(q) :
                        Total(k) <= at + n /\ (k = Len(q) \/ at + n < Total(k + 1))
        stream   == FlattenSeq([i \in DOMAIN q |-> WireBytes(q[i])])
    IN  /\ pipe' = pipe \o SubSeq(stream, at + 1, at + n)
        /\ queue' = SubSeq(q, done + 1, Len(q))
        /\ pos' = at + n - Total(done)

(* What one call may transfer, of t bytes that could be. *)
Amounts(t) == {n \in Chunks : n < t} \cup {t}

(* A connection starts with CONNECT or CONNACK and has one of them. *)
Legal(p) ==
    /\ (sent = <<>>) = (p.type \in {"CONNECT", "CONNACK"})
    /\ Aliased(p) /\ p.topic = <<>> =>
        \E i \in DOMAIN sent : Aliased(sent[i]) /\ sent[i].topic # <<>>
                              /\ PropertyRead(sent[i].props, 35).n = PropertyRead(p.props, 35).n

(* send__*() and packet__queue(), which calls packet__write(). *)
Send ==
    /\ Len(sent) < MaxSent
    /\ \E p \in Samples : \E e \in {Make(p)} :
        /\ Legal(p)
        /\ ~packet__check_oversize(e.len)
        /\ sent' = Append(sent, p)
        /\ \E q \in {Append(queue, [cmd |-> e.cmd, len |-> e.len, head |-> e.head,
                                     payload |-> e.payload, n |-> Len(sent) + 1])} :
            \E n \in Amounts(Left(q, pos)) : packet__write(q, pos, n)
    /\ UNCHANGED <<inp, aliases, handled, freed>>

(* The socket is writable again. *)
Write ==
    /\ queue # <<>>
    /\ \E n \in Amounts(Left(queue, pos)) : n > 0 /\ packet__write(queue, pos, n)
    /\ UNCHANGED <<inp, aliases, sent, handled, freed>>

(* The owner of a payload frees it: the message has been acknowledged, or  *)
(* is one of QoS 0 that nobody else holds.                                 *)
FreePayload ==
    /\ \E i \in DOMAIN queue :
        /\ queue[i].payload # <<>> /\ queue[i].n \notin freed
        /\ freed' = freed \cup {queue[i].n}
    /\ UNCHANGED <<queue, pos, pipe, inp, aliases, sent, handled>>

-----------------------------------------------------------------------------
(* packet__read() *)

packet__cleanup == [cmd |-> 0, count |-> 0, length |-> 0, mult |-> 1, got |-> <<>>, todo |-> 0]

Complete(in) == in.count > 0 /\ in.todo = 0

(* A byte of the fixed header. *)
ReadByte(in, b) ==
    IF in.cmd = 0 THEN [in EXCEPT !.cmd = b]
    ELSE LET length == in.length + (b % 128) * in.mult
         IN  [in EXCEPT !.length = length, !.mult = @ * 128,
                        !.count = IF b < 128 THEN 1 - @ ELSE @ - 1,
                        !.todo = IF b < 128 THEN length ELSE 0]

ReadHeader(in, bytes) ==
    FoldLeft(LAMBDA a, b : IF a.in.count > 0 THEN a
                           ELSE [in |-> ReadByte(a.in, b), used |-> a.used + 1],
             [in |-> in, used |-> 0], bytes)

(* Up to one packet, of the bytes there are. *)
Absorb(in, bytes) ==
    LET h == ReadHeader(in, SubSeq(bytes, 1, IF Len(bytes) < 6 THEN Len(bytes) ELSE 6))
        n == IF h.in.todo < Len(bytes) - h.used THEN h.in.todo ELSE Len(bytes) - h.used
    IN  [in   |-> [h.in EXCEPT !.got = @ \o SubSeq(bytes, h.used + 1, h.used + n), !.todo = @ - n],
         used |-> h.used + n]

(* The lengths the broker refuses. *)
Refused(in) ==
    LET kind == in.cmd \div 16
    IN  \/ in.count < -4
        \/ /\ Broker /\ in.count > 0
           /\ \/ kind = 1 /\ in.length > 100000
              \/ kind \in {4, 5, 6, 7, 11} /\ ~V5 /\ in.length # 2
              \/ kind \in {12, 13} /\ in.length # 0
              \/ kind = 14 /\ ~V5 /\ in.length # 0
              \/ PeerMax > 0 /\ in.length + 1 > PeerMax

packet__read(n) ==
    \E a \in {Absorb(inp, SubSeq(pipe, 1, n))} :
        /\ pipe' = SubSeq(pipe, a.used + 1, Len(pipe))
        /\ IF Complete(a.in) \/ Refused(a.in)
           THEN \E p \in {IF Refused(a.in) THEN Bad ELSE handle__packet(a.in.cmd, a.in.got)} :
                    /\ handled' = Append(handled, Resolve(Learn(aliases, p), p))
                    /\ aliases' = Learn(aliases, p)
                    /\ inp' = packet__cleanup
           ELSE inp' = a.in /\ UNCHANGED <<handled, aliases>>

Read ==
    /\ pipe # <<>>
    /\ \E n \in Amounts(Len(pipe)) : n > 0 /\ packet__read(n)
    /\ UNCHANGED <<queue, pos, sent, freed>>

Init ==
    /\ link \in DOMAIN Links
    /\ queue = <<>> /\ pos = 0 /\ pipe = <<>> /\ inp = packet__cleanup
    /\ aliases = {} /\ sent = <<>> /\ handled = <<>> /\ freed = {}

Next == UNCHANGED link /\ (Send \/ Write \/ FreePayload \/ Read)

Spec == Init /\ [][Next]_vars

-----------------------------------------------------------------------------
(* The length every packet announces, worked out before its bytes are      *)
(* written (send__real_publish(), send__connect(), ... and                 *)
(* property__get_length_all()), is exactly the number of bytes behind the  *)
(* fixed header: one too few would corrupt every later packet.             *)
LengthExact ==
    \A i \in DOMAIN queue : queue[i].len = Len(queue[i].head) + Len(queue[i].payload)

(* What the reader makes of a packet: the properties its sender added, the *)
(* topic its alias stands for, no reason codes of UNSUBACK.                *)
SeenAs(p, before) ==
    CASE p.type = "PUBLISH" ->
            LET topics == {i \in DOMAIN before : /\ Aliased(before[i]) /\ before[i].topic # <<>>
                                                 /\ PropertyRead(before[i].props, 35).n = PropertyRead(p.props, 35).n}
                last   == CHOOSE i \in topics : \A j \in topics : j <= i
            IN  [type |-> "PUBLISH", dup |-> p.dup, qos |-> p.qos, retain |-> p.retain,
                 topic |-> IF Aliased(p) /\ p.topic = <<>> THEN before[last].topic ELSE p.topic,
                 mid |-> IF p.qos > 0 THEN p.mid ELSE 0,
                 props |-> IF V5 THEN PublishProps(p) ELSE <<>>, payload |-> p.payload]
      [] p.type = "CONNECT"  -> [p EXCEPT !.props = IF V5 THEN ConnectProps(p) ELSE <<>>]
      [] p.type = "CONNACK"  -> [p EXCEPT !.props = IF V5 THEN ConnackProps(p) ELSE <<>>]
      [] p.type = "UNSUBACK" -> [type |-> "UNSUBACK", mid |-> p.mid, props |-> p.props]
      [] OTHER -> p

(* However the bytes are cut up on their way (packet__write() and          *)
(* packet__read()), the packets handled are those sent, in order and with  *)
(* every field as it was; only the payload of a PUBLISH whose owner freed  *)
(* it before it was written may differ.                                    *)
StreamIntact ==
    /\ Len(handled) <= Len(sent)
    /\ \A i \in DOMAIN handled :
        LET want == SeenAs(sent[i], SubSeq(sent, 1, i - 1))
        IN  handled[i] = want
            \/ (i \in freed /\ handled[i].type = "PUBLISH"
                /\ [handled[i] EXCEPT !.payload = <<>>] = [want EXCEPT !.payload = <<>>])
    /\ queue = <<>> /\ pipe = <<>> => Len(handled) = Len(sent) /\ inp = packet__cleanup
=============================================================================
