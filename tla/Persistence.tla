----------------------------- MODULE Persistence -----------------------------
(***************************************************************************)
(* The message store with its reference counts, and the file that carries  *)
(* sessions, subscriptions, retained and unfinished messages over a        *)
(* restart: src/database.c (the db__msg_store functions), src/persist_*.c, *)
(* and apps/db_dump, which reads the same file.                            *)
(*                                                                         *)
(* A stored message is known by its db_id; clients' lists and the retained *)
(* tree refer to it.  The main loop is one thread, so nothing else happens *)
(* during persist__backup, but the process or the machine may stop between *)
(* any two of its system calls.  The file system has two names, db and     *)
(* new, for numbered files; what was not synced may be cut short when the  *)
(* machine stops, and an interrupted rename may leave both names for one   *)
(* file.  Which messages are sent when is the subject of OutgoingMessages  *)
(* and IncomingMessages: here a message for an online client is sent as    *)
(* soon as it is in flight, QoS is 1 or 2, and send quota is counted by    *)
(* the messages in flight.                                                 *)
(***************************************************************************)
EXTENDS Integers, Sequences, FiniteSets, SequencesExt

CONSTANTS
    Clients,        \* client ids
    Connects,       \* what CONNECTs ask for: [user, clean, interval]
    Publications,   \* what is published: [topic, qos, retain, life, empty, props]
    InflightMax,    \* max_inflight_messages, 0 for no limit
    MaySlow,        \* whether online clients can be in slow mode
    MayShare,       \* whether clients make shared subscriptions
    FullAt,         \* chunk kinds at which the disk may be full
    OldVersions,    \* formats (2..6) of a file left by an earlier broker
    MaxMsgs,        \* bound on db_id
    MaxOps,         \* bound on the broker's operations
    MaxStarts,      \* bound on restarts
    Horizon         \* bound on the clock

VARIABLES
    db,             \* the broker's memory (struct mosquitto_db)
    phase,          \* "run", a step of persist__backup, "down" or "refused"
    disk,           \* the names db and new, and the files' contents
    now,            \* time(NULL)
    saved,          \* history: what the last completed save described
    pending,        \* history: what the save under way describes
    ops, starts     \* operations, starts

vars == <<db, phase, disk, now, saved, pending, ops, starts>>

-----------------------------------------------------------------------------
(* Memory. *)

EmptyDb ==
    [last |-> 0, store |-> <<>>, order |-> <<>>, ctx |-> <<>>, subs |-> {}, retains |-> <<>>]

Topics == {p.topic : p \in Publications}
IsSys(t) == t = "$SYS"

Without(f, k) == [j \in DOMAIN f \ {k} |-> f[j]]
With(f, k, v) == [j \in DOMAIN f \cup {k} |-> IF j = k THEN v ELSE f[j]]

(* context__init, for a connection or for a session read from the file.    *)
NewContext(clean, sock, user) ==
    [clean |-> clean, sock |-> sock, user |-> user, last_mid |-> 0, interval |-> 0,
     in |-> <<>>, inq |-> <<>>, out |-> <<>>, outq |-> <<>>, storage |-> <<>>]

db__message_store(d, m, id, life) ==
    LET new == IF id = 0 THEN d.last + 1 ELSE id
    IN  [d EXCEPT !.last = IF id = 0 THEN @ + 1 ELSE @,
                  !.store = With(@, new,
                       [topic |-> m.topic, retain |-> m.retain, empty |-> m.empty, props |-> m.props,
                        refs |-> 0, dests |-> {}, expiry |-> IF life > 0 THEN now + life ELSE 0])]

db__msg_store_ref_inc(d, id) == [d EXCEPT !.store[id].refs = @ + 1]

db__msg_store_remove(d, id) == [d EXCEPT !.store = Without(@, id)]

RefDecForgotten(d, id) ==
    IF d.store[id].refs = 1 THEN d ELSE [d EXCEPT !.store[id].refs = @ - 1]

db__msg_store_ref_dec(d, id) ==
    IF d.store[id].refs = 1 THEN db__msg_store_remove(d, id)
    ELSE [d EXCEPT !.store[id].refs = @ - 1]

Ready(list) == InflightMax = 0 \/ Len(list) < InflightMax

Waiting(m) ==
    [m EXCEPT !.dup = 1,
              !.state = CASE m.qos = 1 -> "wait_for_puback"
                          [] m.qos = 2 /\ m.state = "wait_for_pubcomp" -> m.state
                          [] OTHER -> "wait_for_pubrec"]

(* The head of a queue goes in flight, and is sent again from the start.   *)
Dequeued(x) ==
    [x EXCEPT !.out = Append(@, Waiting([Head(x.outq) EXCEPT !.state = "publish"])), !.outq = Tail(@)]

db__message_insert(d, c, id, qos, retain, slow) ==
    LET x == d.ctx[c]
        list == IF x.sock /\ c \in slow THEN "storage"
                ELSE IF x.sock /\ Ready(x.out) THEN "out" ELSE "outq"
        m == [store |-> id, mid |-> x.last_mid + 1, qos |-> qos, retain |-> retain, dup |-> 0,
              state |-> IF list = "storage" THEN "storage" ELSE "queued"]
        e == db__msg_store_ref_inc(d, id)
    IN  IF ~retain /\ c \in d.store[id].dests THEN d
        ELSE [e EXCEPT !.store[id].dests = IF retain THEN @ ELSE @ \cup {c},
                       !.ctx[c] = [x EXCEPT !.last_mid = @ + 1,
                                            ![list] = Append(@, IF list = "out" THEN Waiting(m) ELSE m)]]

db__message_remove(d, c, list) ==
    db__msg_store_ref_dec([d EXCEPT !.ctx[c][list] = Tail(@)], Head(d.ctx[c][list]).store)

(* The storage list is not among the lists that are deleted. *)
db__messages_delete(d, c) ==
    LET x == d.ctx[c]
        gone == x.in \o x.inq \o x.out \o x.outq
    IN  FoldLeft(LAMBDA e, m : db__msg_store_ref_dec(e, m.store),
                 [d EXCEPT !.ctx[c] = [x EXCEPT !.in = <<>>, !.inq = <<>>, !.out = <<>>, !.outq = <<>>]], gone)

retain__store(d, t, id) ==
    LET e == IF t \in DOMAIN d.retains THEN db__msg_store_ref_dec(d, d.retains[t]) ELSE d
    IN  IF e.store[id].empty
        THEN [e EXCEPT !.retains = Without(@, t)]
        ELSE [db__msg_store_ref_inc(e, id) EXCEPT !.retains = With(@, t, id)]

(* sub__messages_queue holds a reference of its own until all have theirs. *)
sub__messages_queue(d, id, to, qos, slow) ==
    LET s == d.store[id]
        queued == FoldLeft(LAMBDA e, c : db__message_insert(e, c, id, qos, FALSE, slow),
                           db__msg_store_ref_inc(d, id), to)
    IN  db__msg_store_ref_dec(IF s.retain THEN retain__store(queued, s.topic, id) ELSE queued, id)

(* Everybody with a subscription of their own, and one member of a group.  *)
Receivers(d, t) ==
    LET own == {s.id : s \in {s \in d.subs : s.topic = t /\ ~s.shared}}
        group == {s.id : s \in {s \in d.subs : s.topic = t /\ s.shared}}
    IN  {SetToSeq(own) \o pick : pick \in IF group = {} THEN {<<>>} ELSE {<<c>> : c \in group}}

Slow(d) == IF MaySlow THEN SUBSET {c \in DOMAIN d.ctx : d.ctx[c].sock} ELSE {{}}

-----------------------------------------------------------------------------
(* Saving: persist__backup writes a header, the cfg chunk, stored          *)
(* messages, clients with their messages, subscriptions, retained messages.*)
(* A chunk says how long it is.  The length of the fixed part of a record  *)
(* and of the strings does not matter: take 8 and 1, and 2 for properties. *)

Fixed == 8
Flag(b, n) == IF b THEN n ELSE 0

persist__chunk_cfg_write_v6(last) == [kind |-> "cfg", length |-> Fixed, last |-> last]

persist__chunk_message_store_write_v6(i, s) ==
    [kind |-> "store", length |-> Fixed + 1 + Flag(~s.empty, 1) + Flag(s.props, 2),
     id |-> i, topic |-> s.topic, payloadlen |-> Flag(~s.empty, 1), expiry |-> s.expiry, retain |-> s.retain]

persist__chunk_client_msg_write_v6(c, dir, m) ==
    [kind |-> "msg", length |-> Fixed + 1, id |-> c, dir |-> dir, store |-> m.store, mid |-> m.mid, qos |-> m.qos,
     retain_dup |-> 16 * Flag(m.retain, 1) + m.dup, state |-> m.state]

persist__chunk_sub_write_v6(s) ==
    [kind |-> "sub", length |-> Fixed + 2, id |-> s.id, topic |-> s.topic, qos |-> s.qos,
     options |-> Flag(s.no_local, 4) + Flag(s.as_published, 8)]

persist__chunk_retain_write_v6(id) == [kind |-> "retain", length |-> Fixed, store |-> id]

(* A $SYS message that nothing but the retained tree refers to. *)
OnlySys(s) == IsSys(s.topic) /\ s.refs <= 1 /\ s.dests = {}

persist__message_store_save(d) ==
    LET Kept(i) == d.store[i].refs >= 1 /\ ~OnlySys(d.store[i])
        Plain(s) == [s EXCEPT !.retain = @ /\ ~IsSys(s.topic)]
    IN  SetToSeq({persist__chunk_message_store_write_v6(i, Plain(d.store[i])) : i \in {i \in DOMAIN d.store : Kept(i)}})

persist__client_messages_save(d, c, list, dir) ==
    LET kept == SelectSeq(d.ctx[c][list], LAMBDA m : ~OnlySys(d.store[m.store]))
    IN  [k \in 1..Len(kept) |-> persist__chunk_client_msg_write_v6(c, dir, kept[k])]

(* One chunk variable serves all clients, and its username is set only for *)
(* a client that has one.  Otherwise the length left by an earlier client, *)
(* already in network byte order, decides how much of that client's name   *)
(* is written: the chunk is spoilt, what follows it is out of step.        *)
persist__chunk_client_write_v6(c, x, name, left) ==
    [kind |-> "client", length |-> Fixed + 1 + Flag(name # "none", 1), id |-> c, last_mid |-> x.last_mid,
     interval |-> x.interval, user |-> name, spoilt |-> left]

persist__client_save(d) ==
    LET durable == SelectSeq(d.order, LAMBDA c : ~d.ctx[c].clean)
        Names(k) == SelectSeq(SubSeq(durable, 1, k), LAMBDA c : d.ctx[c].user # "none")
        Name(k) == IF Names(k) = <<>> THEN "none" ELSE d.ctx[Last(Names(k))].user
        All(k) ==
            LET c == durable[k]
            IN  <<persist__chunk_client_write_v6(c, d.ctx[c], Name(k), d.ctx[c].user = "none" /\ Names(k) # <<>>)>>
                   \o persist__client_messages_save(d, c, "in", "in")
                   \o persist__client_messages_save(d, c, "inq", "in")
                   \o persist__client_messages_save(d, c, "out", "out")
                   \o persist__client_messages_save(d, c, "outq", "out")
    IN  FlattenSeq([k \in 1..Len(durable) |-> All(k)])

(* A node's list of shared subscriptions is not visited. *)
persist__subs_save(d) ==
    SetToSeq({persist__chunk_sub_write_v6(s) : s \in {s \in d.subs : ~s.shared /\ ~d.ctx[s.id].clean}})

persist__retain_save(d) ==
    SetToSeq({persist__chunk_retain_write_v6(d.retains[t]) : t \in {t \in DOMAIN d.retains : ~IsSys(t)}})

Chunks(d) ==
    <<persist__chunk_cfg_write_v6(d.last)>> \o persist__message_store_save(d) \o persist__client_save(d)
        \o persist__subs_save(d) \o persist__retain_save(d)

-----------------------------------------------------------------------------
(* Restoring.  What the records of an older version do not hold is zero.   *)

(* Whether there are properties is seen from the length that is left. *)
persist__chunk_msg_store_read_v56(ch) ==
    [topic |-> ch.topic, empty |-> ch.payloadlen = 0, retain |-> ch.retain, expiry |-> ch.expiry,
     props |-> ch.length - (Fixed + 1 + ch.payloadlen) > 0]
persist__chunk_msg_store_read_v234(ch) ==
    [topic |-> ch.topic, empty |-> ch.payloadlen = 0, retain |-> ch.retain, expiry |-> 0, props |-> FALSE]

persist__chunk_client_read_v56(v, ch) ==
    [last_mid |-> ch.last_mid, interval |-> ch.interval, user |-> IF v = 6 THEN ch.user ELSE "none"]
persist__chunk_client_read_v234(ch) == [last_mid |-> ch.last_mid, interval |-> 0, user |-> "none"]

persist__chunk_client_msg_read(ch) ==
    [store |-> ch.store, mid |-> ch.mid, qos |-> ch.qos, retain |-> ch.retain_dup \div 16 = 1,
     dup |-> ch.retain_dup % 16, state |-> ch.state]

persist__chunk_sub_read_v56(ch) ==
    [id |-> ch.id, topic |-> ch.topic, qos |-> ch.qos, shared |-> FALSE,
     no_local |-> (ch.options \div 4) % 2 = 1, as_published |-> ch.options \div 8 = 1]
persist__chunk_sub_read_v234(ch) ==
    [id |-> ch.id, topic |-> ch.topic, qos |-> ch.qos, shared |-> FALSE, no_local |-> FALSE, as_published |-> FALSE]

persist__find_or_add_context(d, c, last_mid) ==
    LET e == IF c \in DOMAIN d.ctx THEN d
             ELSE [d EXCEPT !.order = Append(@, c), !.ctx = With(@, c, NewContext(FALSE, FALSE, "none"))]
    IN  IF last_mid > 0 THEN [e EXCEPT !.ctx[c].last_mid = last_mid] ELSE e

(* A message whose life ends in this very second gets an interval of zero, *)
(* which db__message_store takes for no expiry.                            *)
persist__msg_store_chunk_restore(d, v, ch) ==
    LET m == IF v >= 5 THEN persist__chunk_msg_store_read_v56(ch) ELSE persist__chunk_msg_store_read_v234(ch)
    IN  IF m.expiry > 0 /\ m.expiry < now THEN d
        ELSE db__message_store(d, m, ch.id, IF m.expiry > 0 THEN m.expiry - now ELSE 0)

persist__client_chunk_restore(d, v, ch) ==
    LET r == IF v >= 5 THEN persist__chunk_client_read_v56(v, ch) ELSE persist__chunk_client_read_v234(ch)
        e == persist__find_or_add_context(d, ch.id, r.last_mid)
    IN  [e EXCEPT !.ctx[ch.id].interval = r.interval,
                  !.ctx[ch.id].user = IF @ = "none" THEN r.user ELSE @]

(* In flight as long as there is quota, which starts at the limit: with a  *)
(* limit of zero there is none.                                            *)
RestoreTo(d, ch, limit) ==
    LET e == persist__find_or_add_context(d, ch.id, 0)
        flight == IF ch.dir = "in" THEN "in" ELSE "out"
        queue == IF ch.dir = "in" THEN "inq" ELSE "outq"
        list == IF ch.state = "queued" \/ limit - Len(e.ctx[ch.id][flight]) <= 0 THEN queue ELSE flight
    IN  IF ch.store \notin DOMAIN d.store THEN d
        ELSE [db__msg_store_ref_inc(e, ch.store) EXCEPT
                 !.ctx[ch.id][list] = Append(@, persist__chunk_client_msg_read(ch))]

OneShort(d, ch) == RestoreTo(d, ch, InflightMax - 1)

persist__client_msg_restore(d, ch) == RestoreTo(d, ch, InflightMax)

persist__sub_chunk_restore(d, v, ch) ==
    [persist__find_or_add_context(d, ch.id, 0) EXCEPT
        !.subs = @ \cup {IF v >= 5 THEN persist__chunk_sub_read_v56(ch) ELSE persist__chunk_sub_read_v234(ch)}]

persist__retain_chunk_restore(d, ch) ==
    IF ch.store \notin DOMAIN d.store THEN d ELSE retain__store(d, d.store[ch.store].topic, ch.store)

RestoreChunk(d, v, ch) ==
    CASE ch.kind = "cfg" -> [d EXCEPT !.last = ch.last]
      [] ch.kind = "store" -> persist__msg_store_chunk_restore(d, v, ch)
      [] ch.kind = "client" -> persist__client_chunk_restore(d, v, ch)
      [] ch.kind = "msg" -> persist__client_msg_restore(d, ch)
      [] ch.kind = "sub" -> persist__sub_chunk_restore(d, v, ch)
      [] ch.kind = "retain" -> persist__retain_chunk_restore(d, ch)

(* What can come of reading a file: what follows a spoilt chunk, and the   *)
(* remains of a chunk that was cut off, either end the loop or make it     *)
(* return an error, so that the broker does not start.                     *)
persist__restore(f) ==
    LET bad == {k \in 1..Len(f.chunks) : f.chunks[k].kind = "client" /\ f.chunks[k].spoilt}
        upto == IF bad = {} THEN Len(f.chunks) ELSE CHOOSE k \in bad : \A j \in bad : k <= j
        result == [ok |-> TRUE, db |-> FoldLeft(LAMBDA d, ch : RestoreChunk(d, f.ver, ch), EmptyDb,
                                                SubSeq(f.chunks, 1, upto))]
    IN  IF bad = {} /\ ~f.torn THEN {result} ELSE {result, [ok |-> FALSE, db |-> EmptyDb]}

NoFile == [ver |-> 6, chunks |-> <<>>, torn |-> FALSE, synced |-> TRUE]

(* A missing or an empty file is a start with nothing. *)
Readable(dk) == IF dk.db = 0 THEN {[ok |-> TRUE, db |-> EmptyDb]} ELSE persist__restore(dk.data[dk.db])

(* apps/db_dump reads the same chunks and counts them, by kind and, with   *)
(* --client-stats, for each client seen: its messages, those of them whose *)
(* stored message was seen too (their size is added), its subscriptions.   *)
DumpStart ==
    [count |-> [k \in {"cfg", "store", "client", "msg", "sub", "retain"} |-> 0], msgs |-> {}, clients |-> <<>>]

dump__client_chunk_process(st, ch) ==
    [st EXCEPT !.clients = With(@, ch.id, [messages |-> 0, sized |-> 0, subscriptions |-> 0])]

AnyClient(st, ch) ==
    [st EXCEPT !.clients = [i \in DOMAIN @ |-> [@[i] EXCEPT !.messages = @ + 1, !.sized = @ + 1]]]

dump__client_msg_chunk_process(st, ch) ==
    IF ch.id \notin DOMAIN st.clients THEN st
    ELSE [st EXCEPT !.clients[ch.id].messages = @ + 1,
                    !.clients[ch.id].sized = @ + Flag(ch.store \in st.msgs, 1)]

dump__msg_store_chunk_process(st, ch) == [st EXCEPT !.msgs = @ \cup {ch.id}]

dump__sub_chunk_process(st, ch) ==
    IF ch.id \notin DOMAIN st.clients THEN st ELSE [st EXCEPT !.clients[ch.id].subscriptions = @ + 1]

Dump(f) ==
    LET Process(st, ch) ==
            LET c == [st EXCEPT !.count[ch.kind] = @ + 1]
            IN  CASE ch.kind = "store" -> dump__msg_store_chunk_process(c, ch)
                  [] ch.kind = "client" -> dump__client_chunk_process(c, ch)
                  [] ch.kind = "msg" -> dump__client_msg_chunk_process(c, ch)
                  [] ch.kind = "sub" -> dump__sub_chunk_process(c, ch)
                  [] OTHER -> c
    IN  FoldLeft(Process, DumpStart, f.chunks)

-----------------------------------------------------------------------------
(* What a restart is meant to keep of a memory d, stated on the memory.    *)

Content(d, id) ==
    [id |-> id, topic |-> d.store[id].topic, props |-> d.store[id].props, expiry |-> d.store[id].expiry]

Listed(d, list) ==
    [k \in 1..Len(list) |->
        [m |-> Content(d, list[k].store), mid |-> list[k].mid, qos |-> list[k].qos, state |-> list[k].state,
         dup |-> list[k].dup, retain |-> list[k].retain]]

Durable(d) ==
    [last |-> d.last,
     sessions |-> [c \in {c \in DOMAIN d.ctx : ~d.ctx[c].clean} |->
        [last_mid |-> d.ctx[c].last_mid, interval |-> d.ctx[c].interval, user |-> d.ctx[c].user,
         in |-> Listed(d, d.ctx[c].in \o d.ctx[c].inq), out |-> Listed(d, d.ctx[c].out \o d.ctx[c].outq),
         subs |-> {s \in d.subs : s.id = c /\ ~s.shared}]],
     retains |-> {Content(d, d.retains[t]) : t \in {t \in DOMAIN d.retains : ~IsSys(t)}}]

(* Reports that only one client waits for are not saved. *)
Saveable(d) ==
    LET Kept(list) == SelectSeq(list, LAMBDA m : ~OnlySys(d.store[m.store]))
    IN  [d EXCEPT !.ctx = [c \in DOMAIN @ |-> [@[c] EXCEPT !.in = Kept(@), !.inq = Kept(@),
                                                         !.out = Kept(@), !.outq = Kept(@)]]]

(* Of that, what has not expired by now. *)
Alive(m) == m.expiry = 0 \/ m.expiry >= now
Aged(m) == [m EXCEPT !.expiry = IF @ = now THEN 0 ELSE @]
AliveIn(list) ==
    LET kept == SelectSeq(list, LAMBDA e : Alive(e.m))
    IN  [k \in 1..Len(kept) |-> [kept[k] EXCEPT !.m = Aged(@)]]
Today(s) ==
    [s EXCEPT !.sessions = [c \in DOMAIN @ |-> [@[c] EXCEPT !.in = AliveIn(@), !.out = AliveIn(@)]],
              !.retains = {Aged(m) : m \in {m \in @ : Alive(m)}}]

-----------------------------------------------------------------------------
(* The broker's operations. *)

Operation == phase = "run" /\ ops < MaxOps /\ ops' = ops + 1
Idle == UNCHANGED <<phase, disk, now, saved, pending, starts>>

(* The session that a connection replaces is freed, with its subscriptions *)
(* and messages, unless the connection takes them over.                    *)
context__cleanup(d, c) ==
    [db__messages_delete(d, c) EXCEPT !.order = SelectSeq(@, LAMBDA i : i # c), !.ctx = Without(@, c),
                                      !.subs = {s \in @ : s.id # c}]

(* The queue goes in flight as far as the limit allows: reconnect_reset.   *)
Resent(x) ==
    LET room == IF InflightMax = 0 THEN Len(x.outq)
                ELSE IF InflightMax > Len(x.out) THEN InflightMax - Len(x.out) ELSE 0
        n == IF room < Len(x.outq) THEN room ELSE Len(x.outq)
    IN  FoldLeft(LAMBDA y, k : Dequeued(y), [x EXCEPT !.out = [k \in 1..Len(@) |-> Waiting(@[k])]],
                 [k \in 1..n |-> k])

connect__on_authorised(c, h) ==
    LET found == c \in DOMAIN db.ctx
        old == db.ctx[c]
        taken == found /\ ~h.clean /\ old.interval > 0
        fresh == [NewContext(h.clean, TRUE, h.user) EXCEPT !.interval = h.interval]
        lists == [fresh EXCEPT !.in = old.in, !.inq = old.inq, !.out = old.out, !.outq = old.outq,
                               !.storage = old.storage]
        any == old.in \o old.inq \o old.out \o old.outq # <<>>
        new == IF taken THEN [(IF any THEN Resent(lists) ELSE fresh) EXCEPT !.last_mid = old.last_mid] ELSE fresh
        d == IF found /\ ~taken THEN context__cleanup(db, c) ELSE db
    IN  /\ Operation /\ Idle
        /\ db' = [d EXCEPT !.order = Append(SelectSeq(@, LAMBDA i : i # c), c), !.ctx = With(@, c, new)]

context__disconnect(c) ==
    /\ Operation /\ Idle
    /\ c \in DOMAIN db.ctx /\ db.ctx[c].sock
    /\ db' = IF db.ctx[c].interval = 0 THEN context__cleanup(db, c) ELSE [db EXCEPT !.ctx[c].sock = FALSE]

(* One of the options is enough to tell subscriptions apart. *)
Subscription(c, t, shared) ==
    [id |-> c, topic |-> t, qos |-> 1, shared |-> shared, no_local |-> TRUE, as_published |-> FALSE]

(* A new subscription brings the retained message. *)
Subscribe(c, t, shared) ==
    LET d == [db EXCEPT !.subs = @ \cup {Subscription(c, t, shared)}]
        id == db.retains[t]
    IN  /\ Operation /\ Idle
        /\ c \in DOMAIN db.ctx /\ db.ctx[c].sock /\ db # d
        /\ db' = IF shared \/ t \notin DOMAIN db.retains THEN d
                 ELSE IF d.store[id].expiry > 0 /\ now >= d.store[id].expiry
                 THEN db__msg_store_ref_dec([d EXCEPT !.retains = Without(@, t)], id)
                 ELSE db__message_insert(d, c, id, 1, TRUE, {})

Unsubscribe(c, t) ==
    /\ Operation /\ Idle
    /\ c \in DOMAIN db.ctx /\ db.ctx[c].sock
    /\ \E s \in db.subs : s.id = c /\ s.topic = t
    /\ db' = [db EXCEPT !.subs = {s \in @ : ~(s.id = c /\ s.topic = t)}]

(* A message of QoS 1, a will, or the broker's own report. *)
db__messages_easy_queue(p) ==
    /\ Operation /\ Idle
    /\ db.last < MaxMsgs
    /\ \E slow \in Slow(db), to \in Receivers(db, p.topic) :
          LET d == db__message_store(db, p, 0, p.life)
          IN  db' = sub__messages_queue(d, d.last, to, p.qos, slow)

(* A publication of QoS 2 is kept for its sender until the PUBREL. *)
handle__publish(c, p) ==
    /\ Operation /\ Idle
    /\ db.last < MaxMsgs /\ p.qos = 2 /\ ~IsSys(p.topic)
    /\ c \in DOMAIN db.ctx /\ db.ctx[c].sock
    /\ LET d == db__message_store(db, p, 0, p.life)
           x == d.ctx[c]
           list == IF Ready(x.in) THEN "in" ELSE "inq"
           m == [store |-> d.last, mid |-> d.last, qos |-> 2, retain |-> p.retain, dup |-> 0,
                 state |-> IF list = "in" THEN "wait_for_pubrel" ELSE "queued"]
       IN  db' = [db__msg_store_ref_inc(d, d.last) EXCEPT !.ctx[c][list] = Append(@, m)]

db__message_release_incoming(c) ==
    /\ Operation /\ Idle
    /\ c \in DOMAIN db.ctx /\ db.ctx[c].sock /\ db.ctx[c].in # <<>>
    /\ LET id == Head(db.ctx[c].in).store
       IN  \E slow \in Slow(db), to \in Receivers(db, db.store[id].topic) :
              LET d == db__message_remove(sub__messages_queue(db, id, to, 2, slow), c, "in")
                  x == d.ctx[c]
                  more == x.inq # <<>> /\ Ready(x.in)
              IN  db' = IF more
                        THEN [d EXCEPT !.ctx[c].in = Append(@, [Head(x.inq) EXCEPT !.state = "wait_for_pubrel"]),
                                       !.ctx[c].inq = Tail(@)]
                        ELSE d

(* PUBACK, PUBREC or PUBCOMP for the oldest message in flight. *)
Acknowledge(c) ==
    /\ Operation /\ Idle
    /\ c \in DOMAIN db.ctx /\ db.ctx[c].sock /\ db.ctx[c].out # <<>>
    /\ db' = IF Head(db.ctx[c].out).state = "wait_for_pubrec"
             THEN [db EXCEPT !.ctx[c].out[1].state = "wait_for_pubcomp"]
             ELSE LET d == db__message_remove(db, c, "out")
                  IN  IF d.ctx[c].outq # <<>> /\ Ready(d.ctx[c].out)
                      THEN [d EXCEPT !.ctx[c] = Dequeued(@)] ELSE d

Tick ==
    /\ phase \in {"run", "down"} /\ now < Horizon
    /\ now' = now + 1
    /\ UNCHANGED <<db, phase, disk, saved, pending, ops, starts>>

-----------------------------------------------------------------------------
(* persist__backup, system call by system call. *)

(* After the save at shutdown the process ends, and its memory is gone as  *)
(* in a crash at this point.                                               *)
Return == phase' = "run" /\ UNCHANGED db

(* Only the file that has the name db is ever read: forget what is in the  *)
(* others.                                                                 *)
Tidy(dk) == [dk EXCEPT !.data = [i \in {1, 2} |-> IF i = dk.db THEN @[i] ELSE NoFile]]

NotUnlinked ==
    /\ phase = "run"
    /\ phase' = "unlinked"
    /\ pending' = Durable(Saveable(db))
    /\ UNCHANGED <<db, disk, now, saved, ops, starts>>

(* Autosave, SIGUSR1, or the end of the main loop.  A file left under the  *)
(* new name is unlinked first.                                             *)
BeginBackup ==
    /\ phase = "run"
    /\ phase' = "unlinked"
    /\ disk' = Tidy([disk EXCEPT !.new = 0])
    /\ pending' = Durable(Saveable(db))
    /\ UNCHANGED <<db, now, saved, ops, starts>>

(* fopen for writing makes a file, or empties the one that has the name.   *)
OpenNew ==
    /\ phase = "unlinked"
    /\ LET file == IF disk.new # 0 THEN disk.new ELSE CHOOSE i \in {1, 2} : i # disk.db
       IN  disk' = [disk EXCEPT !.new = file,
                                !.data[file] = [ver |-> 6, chunks |-> <<>>, torn |-> FALSE, synced |-> FALSE]]
    /\ phase' = "opened"
    /\ UNCHANGED <<db, now, saved, pending, ops, starts>>

(* The disk may be full from some chunk on, of which a part may have been  *)
(* written.  Only a failure up to the stored messages is noticed.          *)
WriteChunks ==
    /\ phase = "opened"
    /\ \E chunks \in {Chunks(db)} : \E n \in 0..Len(chunks), torn \in BOOLEAN :
          LET full == n < Len(chunks)
          IN  /\ IF full THEN chunks[n + 1].kind \in FullAt ELSE ~torn
              /\ IF full /\ chunks[n + 1].kind \in {"cfg", "store"}
                 THEN Return /\ disk' = Tidy(disk) /\ pending' = saved
                 ELSE /\ disk' = [disk EXCEPT !.data[disk.new].chunks = SubSeq(chunks, 1, n),
                                              !.data[disk.new].torn = torn]
                      /\ phase' = "written" /\ UNCHANGED <<db, pending>>
    /\ UNCHANGED <<now, saved, ops, starts>>

SyncNew ==
    /\ phase = "written"
    /\ disk' = [disk EXCEPT !.data[disk.new].synced = TRUE]
    /\ phase' = "synced"
    /\ UNCHANGED <<db, now, saved, pending, ops, starts>>

RenameNew ==
    /\ phase = "synced"
    /\ disk' = Tidy([disk EXCEPT !.db = disk.new, !.new = 0])
    /\ saved' = pending
    /\ Return
    /\ UNCHANGED <<now, pending, ops, starts>>

(* unlink, fopen or rename fails: the save is given up. *)
BackupFails ==
    /\ phase \in {"unlinked", "synced"}
    /\ Return
    /\ disk' = Tidy(disk) /\ pending' = saved
    /\ UNCHANGED <<now, saved, ops, starts>>

(* The machine stops.  Of a file that was not synced a part remains.       *)
Cuts(f) ==
    IF f.synced THEN {f}
    ELSE {[f EXCEPT !.chunks = SubSeq(@, 1, n), !.torn = n < Len(f.chunks) /\ t, !.synced = TRUE] :
             n \in 0..Len(f.chunks), t \in BOOLEAN}

Left(dk) == IF dk.db = 0 THEN {Tidy(dk)} ELSE {Tidy([dk EXCEPT !.data[dk.db] = f]) : f \in Cuts(dk.data[dk.db])}

Crash ==
    /\ phase \notin {"down", "refused"}
    /\ phase' = "down" /\ db' = EmptyDb
    /\ \/ disk' \in Left(disk) /\ saved' = saved
       \/ phase = "synced" /\ disk' \in Left([disk EXCEPT !.db = disk.new]) /\ saved' = pending
    /\ pending' = saved'
    /\ UNCHANGED <<now, ops, starts>>

(* db__open *)
Start ==
    /\ phase = "down" /\ starts < MaxStarts
    /\ \E r \in Readable(disk) :
          /\ db' = r.db
          /\ phase' = IF r.ok THEN "run" ELSE "refused"
    /\ starts' = starts + 1
    /\ UNCHANGED <<disk, now, saved, pending, ops>>

-----------------------------------------------------------------------------
(* The broker starts with no file, or with one left by a broker of the     *)
(* same or an older version: c has a QoS 2 message in flight that it has   *)
(* confirmed with PUBREC; a second message is retained, waits for c and d, *)
(* and expires at 1.                                                       *)
OldMsg(id, qos, state) ==
    [store |-> id, mid |-> id, qos |-> qos, retain |-> FALSE, dup |-> 0, state |-> state]
OldDb ==
    LET Stored(refs, retain, expiry) ==
            [topic |-> "t", retain |-> retain, empty |-> FALSE, props |-> FALSE, refs |-> refs, dests |-> {},
             expiry |-> expiry]
        session == [NewContext(FALSE, FALSE, "none") EXCEPT !.last_mid = 2, !.interval = 1,
                                                            !.outq = <<OldMsg(2, 1, "queued")>>]
    IN  [last |-> 2, order |-> <<"c", "d">>, retains |-> [t |-> 2],
         store |-> <<Stored(1, FALSE, 0), Stored(3, TRUE, 1)>>,
         ctx |-> [c |-> [session EXCEPT !.out = <<OldMsg(1, 2, "wait_for_pubcomp")>>], d |-> session],
         subs |-> {Subscription(i, "t", FALSE) : i \in {"c", "d"}}]

(* What a file of version v says of d: sessions, messages and options in   *)
(* the terms of that version.                                              *)
AsOf(v, d) ==
    IF v >= 5 THEN d
    ELSE [d EXCEPT !.ctx = [c \in DOMAIN @ |-> [@[c] EXCEPT !.interval = 0]],
                   !.store = [i \in DOMAIN @ |-> [@[i] EXCEPT !.expiry = 0]],
                   !.subs = {[s EXCEPT !.no_local = FALSE] : s \in @}]

Init ==
    /\ db = EmptyDb /\ phase = "down"
    /\ now = 1 /\ ops = 0 /\ starts = 0
    /\ \/ disk = [db |-> 0, new |-> 0, data |-> <<NoFile, NoFile>>] /\ saved = Durable(EmptyDb)
       \/ \E v \in OldVersions :
             /\ disk = [db |-> 1, new |-> 0, data |-> <<[NoFile EXCEPT !.ver = v, !.chunks = Chunks(OldDb)], NoFile>>]
             /\ saved = Durable(AsOf(v, OldDb))
    /\ pending = saved

Next ==
    \/ \E c \in Clients, h \in Connects : connect__on_authorised(c, h)
    \/ \E c \in Clients : \/ context__disconnect(c)
                          \/ db__message_release_incoming(c)
                          \/ Acknowledge(c)
    \/ \E c \in Clients, t \in Topics : \/ Unsubscribe(c, t)
                                       \/ \E shared \in MayShare : Subscribe(c, t, shared)
    \/ \E p \in Publications : db__messages_easy_queue(p) \/ \E c \in Clients : handle__publish(c, p)
    \/ Tick
    \/ BeginBackup \/ OpenNew \/ WriteChunks \/ SyncNew \/ RenameNew \/ BackupFails
    \/ Crash \/ Start

Spec == Init /\ [][Next]_vars

-----------------------------------------------------------------------------
(* Wherever the machine stops, the file under the name db can be read and  *)
(* gives back what the last completed save described: every saved session  *)
(* with its last message id, its subscriptions and its unfinished messages *)
(* in their order and their state, the retained messages and the last      *)
(* db_id, less what has expired in the meantime (persist__backup,          *)
(* persist__restore).                                                      *)
CrashSafe ==
    phase = "down" => \A r \in Readable(disk) : r.ok /\ Durable(r.db) = Today(saved)

(* A stored message's reference count is the number of list entries and    *)
(* retained topics that refer to it, no reference is to a message that was *)
(* freed, and no db_id above the last one is in use, over any number of    *)
(* restarts (db__msg_store_ref_inc, db__msg_store_ref_dec).                *)
References(id) ==
    LET In(c, list) == Cardinality({k \in 1..Len(db.ctx[c][list]) : db.ctx[c][list][k].store = id})
        Of(c) == In(c, "in") + In(c, "inq") + In(c, "out") + In(c, "outq") + In(c, "storage")
    IN  FoldLeft(LAMBDA n, c : n + Of(c), 0, db.order)
          + Cardinality({t \in DOMAIN db.retains : db.retains[t] = id})
RefsExact ==
    /\ \A id \in DOMAIN db.store : id <= db.last /\ db.store[id].refs = References(id)
    /\ \A id \in 1..MaxMsgs : References(id) > 0 => id \in DOMAIN db.store

(* A message in a client's queue has not been sent: what was in flight,    *)
(* above all a QoS 2 message that the client has confirmed with PUBREC, is *)
(* in flight again after a restart and is not published a second time      *)
(* (persist__client_msg_restore; the limit on messages in flight is not    *)
(* zero and is the same as before).                                        *)
QueuedUnsent ==
    \A c \in DOMAIN db.ctx : \A k \in 1..Len(db.ctx[c].outq) : db.ctx[c].outq[k].state = "queued"

(* The file is complete in itself: when db_dump reads it, every client's   *)
(* message and every subscription comes after its client, every message    *)
(* after its stored message, and db_dump counts for each client exactly    *)
(* what the broker would restore if nothing had expired                    *)
(* (dump__client_msg_chunk_process).                                       *)
DumpAgrees ==
    phase = "down" /\ disk.db # 0 =>
        LET f == disk.data[disk.db]
            stats == Dump(f)
            fresh == \A k \in 1..Len(f.chunks) : f.chunks[k].kind = "store" => f.chunks[k].expiry \in {0} \cup (now..Horizon)
        IN  \A r \in persist__restore(f) :
              /\ DOMAIN stats.clients = DOMAIN r.db.ctx
              /\ stats.count["client"] = Cardinality(DOMAIN stats.clients)
              /\ fresh => stats.count["retain"] = Cardinality(DOMAIN r.db.retains)
              /\ \A c \in DOMAIN stats.clients :
                    LET x == r.db.ctx[c]
                        st == stats.clients[c]
                    IN  /\ st.sized = st.messages
                        /\ fresh => st.messages = Len(x.in \o x.inq \o x.out \o x.outq)
                        /\ st.subscriptions = Cardinality({s \in r.db.subs : s.id = c})
=============================================================================
