------------------------------- MODULE Bridge -------------------------------
(***************************************************************************)
(* One bridge: the connection that the broker itself makes to a remote     *)
(* broker (src/bridge.c, src/handle_connack.c, the keepalive of            *)
(* lib/util_mosq.c and the epoll registration of src/mux_epoll.c), in the  *)
(* default build without WITH_ADNS and without TLS.                        *)
(*                                                                         *)
(* s is the broker's state: the context and bridge structs, the local      *)
(* retained status message, the messages waiting for the remote broker,    *)
(* and the socket with what is under way in either direction.  bridge_check*)
(* runs in every turn of the main loop (its last_check is never set).      *)
(* Timers count the seconds that are left.  The remote broker accepts what *)
(* its version and options allow, and answers in order.                    *)
(***************************************************************************)
EXTENDS Integers, Sequences, FiniteSets

CONSTANTS
    Confs,          \* bridge configurations, with the remote broker's abilities
    PrimaryWait,    \* seconds between attempts on the first address (5)
    MaxFaults       \* bound on failures of addresses and connections

VARIABLES
    conf,           \* the configuration, one of Confs
    s,              \* the broker
    up,             \* addresses that answer
    faults          \* failures so far

vars == <<conf, s, up, faults>>

Unset == -1
Absent == 3         \* no maximum QoS property
Addresses == 0..(conf.count - 1)
Least(a, b) == IF a < b THEN a ELSE b

\* Mutant: a failed address is tried again.
SameAddress(x) == x

NextAddress(x) == [x EXCEPT !.cur = (@ + 1) % conf.count]

(* A context for the bridge as context__init and bridge__new leave it.     *)
Idle(c) ==
    [state |-> "unborn", sock |-> FALSE, out |-> <<>>, events |-> "none", reg |-> "none", ping |-> FALSE,
     max_qos |-> 2, v5 |-> c.v5, retain |-> TRUE, will |-> FALSE, keepalive |-> c.keepalive,
     next_out |-> 0, last_in |-> 0,
     cur |-> 0, restart |-> Unset, timeout |-> c.timeout, retry |-> Unset, probe |-> "none", lazy |-> FALSE,
     told |-> FALSE, private |-> TRUE, status |-> "none", queue |-> <<>>,
     st |-> "none", err |-> "0", wire |-> <<>>, reply |-> <<>>, since |-> 0]

-----------------------------------------------------------------------------
(* Sockets.  events is what the context believes, reg what epoll has: it   *)
(* forgets a socket when the socket is closed.  Packets and times that     *)
(* bridge__connect resets before they are used again are forgotten here.   *)

mux__add_out(x) == IF x.events = "inout" THEN x ELSE [x EXCEPT !.events = "inout", !.reg = "inout"]

mux__remove_out(x) == IF x.events = "inout" THEN [x EXCEPT !.events = "in", !.reg = "in"] ELSE x

NotAdded(x) == x

mux__add_in(x) == [x EXCEPT !.events = "in", !.reg = IF @ = "none" THEN "in" ELSE @]

net__socket_close(x) ==
    [x EXCEPT !.sock = FALSE, !.reg = "none", !.st = "none", !.err = "0", !.wire = <<>>, !.reply = <<>>,
              !.out = <<>>, !.ping = FALSE, !.next_out = 0, !.last_in = 0]

(* Until the connection is known to be made nothing is written; on one     *)
(* that is still being made send() says EAGAIN.                            *)
WriteFails(x) == x.state # "connect_pending" /\ x.out # <<>> /\ x.st = "closed"
packet__write(x) ==
    LET y == IF x.out # <<>> THEN mux__add_out(x) ELSE x
    IN  IF ~x.sock \/ x.state = "connect_pending" \/ (x.out # <<>> /\ x.st \in {"connecting", "closed"}) THEN y
        ELSE mux__remove_out([y EXCEPT !.out = <<>>,
                                       !.wire = IF x.st = "open" THEN @ \o x.out ELSE @,
                                       !.next_out = IF x.out # <<>> THEN x.keepalive ELSE @])

packet__queue(x, p) == packet__write([x EXCEPT !.out = Append(@, p)])

(* The local status message follows the will. *)
context__send_will(x) == [x EXCEPT !.status = IF x.will THEN "0" ELSE @, !.will = FALSE]

do_disconnect(x) ==
    IF x.state = "disconnected" THEN x
    ELSE [context__send_will(net__socket_close(x)) EXCEPT !.state = "disconnected"]

-----------------------------------------------------------------------------
(* Connecting. *)

rand_between(low, high) ==
    LET n == IF high > low THEN high - low ELSE low - high
    IN  low..(low + n - 1)

NotCapped(x) ==
    IF conf.cap = 0 THEN {x}
    ELSE {[x EXCEPT !.timeout = t] : t \in rand_between(conf.base - 1, x.timeout * 3)}

bridge__backoff_step(x) ==
    IF conf.cap = 0 THEN {x}
    ELSE {[x EXCEPT !.timeout = Least(t, conf.cap)] : t \in rand_between(conf.base, x.timeout * 3)}

bridge__backoff_reset(x) == IF conf.cap = 0 THEN x ELSE [x EXCEPT !.timeout = conf.base]

StatusQos(x) == Least(1, x.max_qos)

send__connect(x) ==
    LET will == x.will /\ conf.notify = "both"
    IN  packet__queue(x, [kind |-> "connect", v5 |-> x.v5, private |-> ~x.v5 /\ conf.private /\ x.private,
                          qos |-> IF will THEN StatusQos(x) ELSE 0, retain |-> will /\ x.retain])

(* What net__socket_connect can come to. *)
Tries(a) ==
    IF conf.instant THEN {IF a \in up THEN "made" ELSE "failed"} ELSE {"pending"}

(* The result, and whether it is an error. *)
bridge__connect(x) ==
    LET fresh == [x EXCEPT !.state = "new", !.sock = FALSE, !.next_out = conf.keepalive, !.last_in = 0,
                           !.keepalive = conf.keepalive, !.ping = FALSE, !.lazy = FALSE, !.out = <<>>,
                           !.queue = IF conf.clean_local THEN <<>> ELSE @, !.since = 0]
        Notified(y) == IF conf.notify = "none" THEN y
                       ELSE [y EXCEPT !.status = IF y.told THEN @ ELSE "0", !.told = TRUE, !.will = TRUE]
        Made(y, how) ==
            LET z == [y EXCEPT !.sock = TRUE, !.st = IF how = "made" THEN "open" ELSE "connecting"]
            IN  send__connect(IF how = "made" THEN z ELSE mux__add_out([z EXCEPT !.state = "connect_pending"]))
    IN  {[x |-> IF how = "failed" THEN Notified(y) ELSE Made(Notified(y), how), ok |-> how # "failed"] :
            y \in bridge__backoff_step(fresh), how \in Tries(x.cur)}

(* bridge__new, and the registration once the main loop starts. *)
bridge__start_all ==
    /\ s.state = "unborn"
    /\ \E r \in bridge__connect(s) :
          s' = IF r.ok THEN mux__add_out(mux__add_in(r.x)) ELSE r.x
    /\ UNCHANGED <<conf, up, faults>>

-----------------------------------------------------------------------------
(* bridge_check, in its four parts. *)

(* A lazy bridge that was idle is stopped; otherwise a ping, or the end of *)
(* a connection on which the last ping was not answered.                   *)
mosquitto__check_keepalive(x) ==
    IF conf.start = "lazy" /\ -x.next_out - x.keepalive >= conf.idle THEN net__socket_close(x)
    ELSE IF x.keepalive = 0 \/ (x.next_out > 0 /\ x.last_in < x.keepalive) THEN x
    ELSE IF x.state = "active" /\ ~x.ping
    THEN [packet__queue(x, [kind |-> "ping"]) EXCEPT !.ping = TRUE, !.last_in = 0, !.next_out = x.keepalive]
    ELSE net__socket_close(x)

(* getsockopt() reads and clears the error; it fails without a socket.     *)
bridge_check_pending(x) ==
    IF x.state # "connect_pending" THEN x
    ELSE IF ~x.sock \/ x.err = "refused" THEN do_disconnect(x)
    ELSE IF x.err = "0" THEN [x EXCEPT !.state = "new"]
    ELSE [x EXCEPT !.err = "0"]

(* While connected elsewhere, try the first address every few seconds.  A  *)
(* connection still being made has no error either.                        *)
CheckPrimary(x) ==
    IF conf.round_robin \/ x.cur = 0 \/ x.retry # 0 THEN {x}
    ELSE IF x.probe = "none"
    THEN {IF how = "made" THEN [net__socket_close(x) EXCEPT !.retry = Unset, !.cur = 0]
          ELSE IF how = "pending" THEN [x EXCEPT !.probe = "connecting"] ELSE x : how \in Tries(0)}
    ELSE {IF x.probe = "refused" THEN [x EXCEPT !.probe = "none", !.retry = PrimaryWait + 1]
          ELSE [net__socket_close(x) EXCEPT !.probe = "none", !.retry = Unset, !.cur = conf.count - 1]}

Due(x) ==
    \/ conf.start = "lazy" /\ x.lazy
    \/ conf.start = "automatic" /\ x.restart = 0

\* Mutant: the next attempt is made at once.
NotWaiting(x) ==
    IF x.restart = Unset THEN {NextAddress([x EXCEPT !.restart = 0])}
    ELSE IF ~Due(x) THEN {x}
    ELSE {IF r.ok THEN mux__add_out(mux__add_in([r.x EXCEPT !.restart = Unset]))
          ELSE NextAddress([r.x EXCEPT !.restart = Unset]) : r \in bridge__connect(x)}

CheckRestart(x) ==
    LET Tried(r) ==
            LET y == [r.x EXCEPT !.restart = Unset]
                z == mux__add_in([y EXCEPT !.retry = IF ~conf.round_robin /\ y.cur # 0 THEN PrimaryWait + 1 ELSE @])
            IN  IF ~r.ok THEN NextAddress(y) ELSE IF z.out # <<>> THEN mux__add_out(z) ELSE z
    IN  IF x.restart = Unset THEN {NextAddress([x EXCEPT !.restart = x.timeout + 1])}
        ELSE IF Due(x) THEN {Tried(r) : r \in bridge__connect(x)}
        ELSE {x}

Checked ==
    UNION {IF x.sock THEN {x} ELSE CheckRestart(x) :
             x \in IF s.sock THEN CheckPrimary(bridge_check_pending(mosquitto__check_keepalive(s))) ELSE {s}}

bridge_check ==
    /\ s.state # "unborn"
    /\ s' \in Checked
    /\ UNCHANGED <<conf, up, faults>>

-----------------------------------------------------------------------------
(* Events on the socket: loop_handle_reads_writes. *)

Writable == s.sock /\ s.reg = "inout" /\ s.st # "connecting"
Readable == s.sock /\ s.reg # "none" /\ s.state # "connect_pending" /\ (s.reply # <<>> \/ s.st = "closed")

HandleWrite ==
    /\ Writable
    /\ LET y == IF s.state # "connect_pending" THEN s
                ELSE IF s.err = "0" THEN [s EXCEPT !.state = "new"] ELSE [s EXCEPT !.err = "0"]
       IN  s' = IF WriteFails(y) THEN do_disconnect(y) ELSE packet__write(y)
    /\ UNCHANGED <<conf, up, faults>>

(* The status 1, to both brokers.  Subscriptions, of which the remote      *)
(* broker thinks nothing special, are left out.                            *)
bridge__on_connect(x) ==
    LET told == IF conf.notify = "both"
                THEN packet__queue(x, [kind |-> "status", qos |-> StatusQos(x), retain |-> x.retain]) ELSE x
    IN  bridge__backoff_reset([told EXCEPT !.status = IF conf.notify = "none" THEN @ ELSE "1"])

RECURSIVE Published(_, _)
Published(x, k) ==
    IF k > Len(x.queue) THEN x
    ELSE Published(packet__queue(x, [kind |-> "publish", qos |-> x.queue[k]]), k + 1)

(* QoS 0 is done with when it is sent. *)
Sent(x) == [Published(x, 1) EXCEPT !.queue = SelectSeq(@, LAMBDA q : q > 0)]

NotTold(x, p) == [Sent([x EXCEPT !.state = "active"]) EXCEPT !.timeout = conf.base]

handle__connack(x, p) ==
    LET props == IF ~x.v5 THEN x
                 ELSE [x EXCEPT !.retain = @ /\ p.retain, !.keepalive = IF p.keepalive = Unset THEN @ ELSE p.keepalive]
        lower == IF p.max_qos # Absent THEN p.max_qos ELSE IF x.max_qos > 0 THEN x.max_qos - 1 ELSE 0
    IN  CASE p.code = "ok" /\ x.st = "closed" /\ x.state # "connect_pending" -> do_disconnect(props)
          [] p.code = "ok" /\ x.st # "closed" ->
                Sent([bridge__on_connect(props) EXCEPT !.max_qos = IF p.max_qos # Absent THEN p.max_qos ELSE @,
                                                       !.state = "active"])
          [] p.code = "version" /\ x.v5 -> do_disconnect([x EXCEPT !.v5 = FALSE])
          [] p.code = "version" /\ ~x.v5 -> do_disconnect([x EXCEPT !.private = FALSE])
          [] p.code = "qos" -> do_disconnect([props EXCEPT !.max_qos = lower])
          [] p.code = "retain" -> do_disconnect([props EXCEPT !.retain = FALSE])

(* A packet is read, unless the connection is not known to be made; at the *)
(* end of the stream the connection is lost.                               *)
HandleRead ==
    /\ Readable
    /\ LET p == Head(s.reply)
           x == [s EXCEPT !.reply = Tail(@), !.last_in = 0]
       IN  \/ s.reply = <<>> /\ s' = do_disconnect(s)
           \/ s.reply # <<>> /\ s' = CASE p.kind = "connack" -> handle__connack(x, p)
                                       [] p.kind = "pingresp" -> [x EXCEPT !.ping = FALSE]
                                       [] p.kind = "puback" -> [x EXCEPT !.queue = IF @ = <<>> THEN @ ELSE Tail(@)]
    /\ UNCHANGED <<conf, up, faults>>

(* A local client publishes on a topic of the bridge: db__message_insert.  *)
db__message_insert ==
    /\ s.state # "unborn"
    /\ Len(s.queue) + Len(SelectSeq(s.out \o s.wire, LAMBDA p : p.kind = "publish" /\ p.qos = 0)) < conf.queue
    /\ LET qos == Least(1, s.max_qos)
           x == [s EXCEPT !.queue = Append(@, qos)]
       IN  s' = IF s.sock
                THEN IF s.state # "active" THEN x
                     ELSE packet__queue(IF qos = 0 THEN s ELSE x, [kind |-> "publish", qos |-> qos])
                ELSE IF conf.clean_local \/ (qos = 0 /\ conf.start # "lazy") THEN s
                ELSE [x EXCEPT !.lazy = @ \/ (conf.start = "lazy" /\ Len(x.queue) >= conf.threshold)]
    /\ UNCHANGED <<conf, up, faults>>

-----------------------------------------------------------------------------
(* The network and the remote broker. *)

Answer(p) ==
    LET code == IF (p.v5 /\ ~conf.remote.v5) \/ (p.private /\ ~conf.remote.private) THEN "version"
                ELSE IF p.v5 /\ p.qos > conf.remote.max_qos THEN "qos"
                ELSE IF p.v5 /\ p.retain /\ ~conf.remote.retain THEN "retain" ELSE "ok"
    IN  [kind |-> "connack", code |-> code, retain |-> conf.remote.retain, keepalive |-> conf.remote.keepalive,
         max_qos |-> IF p.v5 /\ conf.remote.max_qos < 2 THEN conf.remote.max_qos ELSE Absent]

Offends(p) == p.qos > conf.remote.max_qos \/ (p.kind = "status" /\ p.retain /\ ~conf.remote.retain)

Remote ==
    /\ s.st = "open" /\ s.wire # <<>>
    /\ LET p == Head(s.wire)
           x == [s EXCEPT !.wire = Tail(@)]
           Reply(a) == [x EXCEPT !.reply = Append(@, a)]
       IN  s' = CASE p.kind = "connect" -> [Reply(Answer(p)) EXCEPT !.st = IF Answer(p).code = "ok" THEN @ ELSE "closed"]
                  [] p.kind \in {"status", "publish"} /\ Offends(p) -> [x EXCEPT !.st = "closed"]
                  [] p.kind = "publish" /\ ~Offends(p) /\ p.qos > 0 -> Reply([kind |-> "puback"])
                  [] p.kind = "ping" -> Reply([kind |-> "pingresp"])
                  [] OTHER -> x
    /\ UNCHANGED <<conf, up, faults>>

(* A connection being made is made, or refused, or times out. *)
TcpResult ==
    \/ /\ s.sock /\ s.st = "connecting"
       /\ \/ s.cur \in up /\ s' = [s EXCEPT !.st = "open"]
          \/ s.cur \notin up /\ \E e \in {"refused", "other"} : s' = [s EXCEPT !.st = "closed", !.err = e]
       /\ UNCHANGED <<conf, up, faults>>
    \/ /\ s.probe = "connecting"
       /\ s' = [s EXCEPT !.probe = IF 0 \in up THEN "open" ELSE "refused"]
       /\ UNCHANGED <<conf, up, faults>>

(* An address stops or starts answering; a connection is reset or cut.     *)
Fault ==
    /\ faults < MaxFaults /\ faults' = faults + 1
    /\ \/ \E a \in Addresses : up' = (up \ {a}) \cup ({a} \ up) /\ s' = s
       \/ s.st = "open" /\ up' = up /\ \E st \in {"closed", "mute"} : s' = [s EXCEPT !.st = st]
    /\ UNCHANGED conf

(* The main loop turns more often than once a second; so do the network    *)
(* and the remote broker, unless it is one of the faults that they do not. *)
Tick ==
    /\ s.state # "unborn" /\ Checked = {s} /\ ~Writable /\ ~Readable
    /\ faults' = IF s.st = "connecting" \/ s.probe = "connecting" \/ (s.st = "open" /\ s.wire # <<>>)
                 THEN faults + 1 ELSE faults
    /\ faults' <= MaxFaults
    /\ LET Down(t) == IF t > 0 THEN t - 1 ELSE t
       IN  s' = [s EXCEPT !.restart = Down(@), !.retry = Down(@),
                          !.next_out = IF s.sock THEN @ - 1 ELSE @,
                          !.last_in = IF s.sock THEN Least(@ + 1, conf.keepalive) ELSE @, !.since = Least(@ + 1, conf.base + 1)]
    /\ UNCHANGED <<conf, up>>

Init ==
    /\ conf \in Confs
    /\ s = Idle(conf)
    /\ up \in (SUBSET Addresses) \ {{}}
    /\ faults = 0

Work == bridge__start_all \/ bridge_check \/ HandleWrite \/ HandleRead \/ Remote \/ TcpResult \/ Tick

Next == Work \/ db__message_insert \/ Fault

Spec == Init /\ [][Next]_vars

(* As long as the main loop, the network, the remote broker or the clock   *)
(* can do something, one of them does.                                     *)
FairSpec == Spec /\ WF_vars(Work)

-----------------------------------------------------------------------------
Connected == s.sock /\ s.state = "active"

(* While the bridge is connected the retained status message on the local  *)
(* broker says so, whatever wills of earlier connections were published    *)
(* meanwhile (bridge__on_connect, context__send_will).                     *)
ConnectedIsTold == Connected /\ conf.notify # "none" => s.status = "1"

(* A socket with something to write, or whose connection is being made, is *)
(* watched for output, also after connections that were closed without     *)
(* mux__delete and left context->events behind (mux_epoll__add_out).       *)
Watched ==
    s.sock => s.reg # "none" /\ (s.state = "connect_pending" \/ s.out # <<>> => s.reg = "inout")

PacedRetry ==
    s.restart # Unset /\ s'.restart = Unset =>
        IF conf.start = "automatic" THEN s.since > conf.base ELSE Len(s.queue) >= conf.threshold

(* A remote broker that fails is not hammered: a bridge that is started    *)
(* automatically waits at least backoff_base seconds from one attempt to   *)
(* the next, and a lazy one begins only when enough messages wait          *)
(* (bridge_check, bridge__backoff_step).                                   *)
RetriesPaced == [][PacedRetry]_vars

(* As long as some address answers, an automatic bridge is connected again *)
(* and again, however its connections break, and whatever version, will or *)
(* QoS the remote broker refuses at first (bridge_check, handle__connack). *)
Reconnects ==
    conf.start = "automatic" /\ [](up # {}) => []<>Connected
=============================================================================
