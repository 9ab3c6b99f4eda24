------------------------------ MODULE Sessions ------------------------------
(***************************************************************************)
(* The life of a client's context: accepting a connection, CONNECT with    *)
(* the takeover of an older context of the same identifier, extended       *)
(* authentication, DISCONNECT, lost connections, keepalive, session expiry,*)
(* delayed wills and the deferred release of contexts, in the order of the *)
(* main loop (context.c, handle_connect.c, handle_auth.c,                  *)
(* handle_disconnect.c, session_expiry.c, will_delay.c, loop.c).           *)
(*                                                                         *)
(* The functions of the source that work on the global db and a context    *)
(* are operators from a state of db to a state of db.  Times are the       *)
(* seconds left; below zero something is due.                              *)
(***************************************************************************)
EXTENDS Integers, Sequences, FiniteSets, SequencesExt

CONSTANTS
    Slots,          \* 1..n, the contexts there can be at a time
    Ids,            \* client identifiers
    Scenarios,      \* sets of CONNECT packets: [id, v5, clean, expiry, will, delay, auth]
    Never,          \* UINT32_MAX, greater than every expiry in use
    GlobalExpiry,   \* persistent_client_expiration, 0 for none
    MaxConnections, \* of the listener, 0 for no limit
    KickOffline     \* TRUE: plugins kick clients that are not connected

VARIABLES
    db,         \* [ctx, byid, expiring, delayed, disused, wild, stolen]
    batch,      \* contexts whose epoll events are still to be handled
    phase,      \* "top", "events" or "down" after a shutdown
    ticked,     \* a second has passed since the last checks
    use         \* the CONNECT packets that clients send

vars == <<db, batch, phase, ticked, use>>

NoId == "none"
Unused == [state |-> "free", id |-> NoId, sock |-> FALSE, v5 |-> FALSE, clean |-> TRUE,
           expiry |-> 0, left |-> 0, will |-> FALSE, delay |-> 0, wait |-> 0,
           subs |-> FALSE, method |-> FALSE, removed |-> FALSE, sent |-> 0, fate |-> "none"]

(* fate and sent are a history: what became of the will of the connection  *)
(* ("owed" while nothing has happened to it), and how often it was sent.   *)

-----------------------------------------------------------------------------
Smaller(list, Key(_), i) == Len(SelectSeq(list, LAMBDA j : Key(j) < Key(i)))
InOrder(list, Key(_), i) == InsertAt(list, Smaller(list, Key, i) + 1, i)

will__clear(s, i) ==
    IF s.ctx[i].will THEN [s EXCEPT !.ctx[i].will = FALSE, !.ctx[i].delay = 0] ELSE s

(* The list is ordered by the length of the delay, not by when it ends. *)
will_delay__add(s, i) ==
    IF i \in Range(s.delayed) THEN s
    ELSE [s EXCEPT !.ctx[i].wait = s.ctx[i].delay,
                   !.delayed = InOrder(@, LAMBDA j : s.ctx[j].delay, i)]

will_delay__remove(s, i) == [s EXCEPT !.ctx[i].wait = 0, !.delayed = SelectSeq(@, LAMBDA j : j # i)]

\* Mutant: a delayed will is queued at once as well.
SendAndDelay(s, i) ==
    LET c == s.ctx[i]
        due == c.state # "disconnecting" /\ c.will
        told == IF due THEN [s EXCEPT !.ctx[i].sent = @ + 1] ELSE s
    IN  IF due /\ c.delay > 0 THEN will_delay__add(told, i) ELSE will__clear(told, i)

context__send_will(s, i) ==
    LET c == s.ctx[i]
        due == c.state # "disconnecting" /\ c.will
    IN  IF due /\ c.delay > 0 THEN will_delay__add(s, i)
        ELSE will__clear(IF due THEN [s EXCEPT !.ctx[i].sent = @ + 1] ELSE s, i)

(* The context under this identifier goes, whichever it is. *)
context__remove_from_by_id(s, i) ==
    LET id == s.ctx[i].id
    IN  IF s.ctx[i].removed \/ id = NoId THEN s
        ELSE [s EXCEPT !.byid[id] = 0, !.ctx[i].removed = TRUE,
                       !.stolen = @ \/ s.byid[id] \notin {0, i}]

\* Mutant: the context stays in the table of identifiers.
DisusedButListed(s, i) ==
    IF s.ctx[i].state = "disused" THEN s
    ELSE [s EXCEPT !.ctx[i].state = "disused", !.ctx[i].id = NoId, !.disused = <<i>> \o @]

context__add_to_disused(s, i) ==
    IF s.ctx[i].state = "disused" THEN s
    ELSE LET r == context__remove_from_by_id([s EXCEPT !.ctx[i].state = "disused"], i)
         IN  [r EXCEPT !.ctx[i].id = NoId, !.disused = <<i>> \o @,
                       !.wild = @ \/ i \in Range(s.disused)]

session_expiry__add(s, i) ==
    LET e == s.ctx[i].expiry
        t == IF GlobalExpiry # 0 /\ GlobalExpiry < e THEN GlobalExpiry ELSE e
        r == [s EXCEPT !.ctx[i].left = t]
    IN  IF GlobalExpiry = 0 /\ e = Never THEN s
        ELSE [r EXCEPT !.expiring = InOrder(@, LAMBDA j : r.ctx[j].left, i),
                       !.wild = @ \/ i \in Range(s.expiring)]

session_expiry__remove(s, i) == [s EXCEPT !.ctx[i].left = 0, !.expiring = SelectSeq(@, LAMBDA j : j # i)]

net__socket_close(s, i) == [s EXCEPT !.ctx[i].sock = FALSE]

context__disconnect(s, i) ==
    IF s.ctx[i].state = "disconnected" THEN s
    ELSE LET r == context__send_will(net__socket_close(s, i), i)
             t == IF r.ctx[i].expiry > 0 THEN session_expiry__add(r, i)
                  ELSE IF r.ctx[i].delay = 0 THEN context__add_to_disused(r, i)
                  ELSE r
         IN  [t EXCEPT !.ctx[i].state = "disconnected"]

do_disconnect(s, i) == context__disconnect(s, i)

(* With force_free: the end of a context. *)
context__cleanup(s, i) ==
    LET r == context__remove_from_by_id(
                context__send_will([net__socket_close(s, i) EXCEPT !.ctx[i].subs = FALSE], i), i)
    IN  [r EXCEPT !.ctx[i] = Unused, !.wild = @ \/ s.ctx[i].state = "free"]

context__free_disused(s) ==
    FoldLeft(context__cleanup, [s EXCEPT !.disused = <<>>], s.disused)

-----------------------------------------------------------------------------
(* Connecting. *)

\* Mutant: only a client that had left gets its session back.
ResumesOffline(new, old) == ~new.clean /\ old.expiry > 0 /\ ~old.sock

Resumes(new, old) == ~new.clean /\ old.expiry > 0

(* The context found under the identifier hands its session over, or loses *)
(* it, and is disconnected.                                                *)
Supersede(s, i, f) ==
    LET new    == s.ctx[i]
        old    == s.ctx[f]
        moved  == IF Resumes(new, old) THEN [s EXCEPT !.ctx[i].subs = old.subs, !.ctx[f].subs = FALSE]
                  ELSE IF new.clean THEN [s EXCEPT !.ctx[f].subs = FALSE] ELSE s
        told   == IF (old.v5 /\ old.expiry = 0) \/ (~old.v5 /\ old.clean) \/ new.clean
                  THEN context__send_will(moved, f) ELSE moved
        bare   == will__clear(will_delay__remove(session_expiry__remove(told, f), f), f)
    IN  do_disconnect([bare EXCEPT !.ctx[f].clean = TRUE, !.ctx[f].expiry = 0,
                                   !.ctx[f].state = "duplicate",
                                   !.ctx[f].fate = IF @ = "owed" /\ told.ctx[f].sent = 0 THEN "taken over" ELSE @], f)

(* end is "ok", or "keepalive" for one too long for max_keepalive. *)
connect__on_authorised(s, i, end) ==
    LET id == s.ctx[i].id
        f  == s.byid[id]
        r  == IF f = 0 THEN s ELSE Supersede(s, i, f)
        t  == [r EXCEPT !.byid[id] = i]
    IN  IF end = "ok" THEN [t EXCEPT !.ctx[i].state = "active"] ELSE do_disconnect(t, i)

(* handle_connect_error: the will is let go, the session ends. *)
Refuse(s, i) ==
    do_disconnect([s EXCEPT !.ctx[i].will = FALSE, !.ctx[i].delay = 0, !.ctx[i].clean = TRUE,
                            !.ctx[i].expiry = 0, !.ctx[i].fate = "refused"], i)

(* p.auth: how the security check ends, or "named" for a refusal after the *)
(* identifier has been taken (no certificate, or no user name to take it   *)
(* from).  A second CONNECT on a connection is an error.                   *)
handle__connect(s, i, p) ==
    LET c == [s.ctx[i] EXCEPT !.id = p.id, !.v5 = p.v5, !.clean = p.clean,
                 !.expiry = IF p.v5 THEN p.expiry ELSE IF p.clean THEN 0 ELSE Never,
                 !.will = p.will, !.delay = IF p.will THEN p.delay ELSE 0,
                 !.method = p.auth = "continue", !.fate = IF p.will THEN "owed" ELSE "none"]
        r == [s EXCEPT !.ctx[i] = c]
    IN  IF s.ctx[i].state # "new" THEN Refuse(s, i)
        ELSE CASE p.auth \in {"ok", "keepalive"} -> connect__on_authorised(r, i, p.auth)
               [] p.auth = "refused"  -> Refuse([r EXCEPT !.ctx[i].id = NoId], i)
               [] p.auth = "named"    -> Refuse(r, i)
               [] p.auth = "continue" -> [r EXCEPT !.ctx[i].state = "authenticating"]

(* AUTH with a reason code: again for a client that asks to authenticate   *)
(* again.                                                                  *)
handle__auth(s, i, again, end) ==
    LET c == s.ctx[i]
        first == c.state = "authenticating"
        fits == c.method /\ IF again THEN c.state = "active" ELSE c.state \in {"authenticating", "reauthenticating"}
    IN  IF ~fits THEN do_disconnect(s, i)
        ELSE CASE end = "ok" /\ first  -> connect__on_authorised(s, i, "ok")
               [] end = "ok" /\ ~first -> [s EXCEPT !.ctx[i].state = "active"]
               [] end = "continue" -> [s EXCEPT !.ctx[i].state = IF again THEN "reauthenticating" ELSE @]
               [] end = "refused" /\ first ->
                    do_disconnect([will__clear(s, i) EXCEPT !.ctx[i].id = NoId, !.ctx[i].fate = "refused"], i)
               [] end = "refused" /\ ~first -> do_disconnect(s, i)

(* DISCONNECT, with the session expiry interval it may carry. *)
handle__disconnect(s, i, expiry, withWill) ==
    LET c == s.ctx[i]
        r == [s EXCEPT !.ctx[i].expiry = expiry]
    IN  IF c.expiry = 0 /\ expiry # 0 THEN do_disconnect(s, i)
        ELSE IF withWill THEN do_disconnect([r EXCEPT !.ctx[i].state = "disconnect_with_will"], i)
        ELSE do_disconnect([will__clear(r, i) EXCEPT !.ctx[i].state = "disconnecting",
                                                     !.ctx[i].fate = IF @ = "owed" THEN "withdrawn" ELSE @], i)

handle__subscribe(s, i) ==
    IF s.ctx[i].state = "active" THEN [s EXCEPT !.ctx[i].subs = TRUE] ELSE do_disconnect(s, i)

(* A plugin removes a client; its subscriptions are checked again when the *)
(* session outlives the connection.                                        *)
disconnect_client(s, i, withWill, allowed) ==
    LET r == IF withWill THEN s
             ELSE [s EXCEPT !.ctx[i].state = "disconnecting", !.ctx[i].fate = IF @ = "owed" THEN "withdrawn" ELSE @]
    IN  do_disconnect([r EXCEPT !.ctx[i].subs = @ /\ (allowed \/ s.ctx[i].expiry = 0)], i)

-----------------------------------------------------------------------------
(* The checks at the end of a round. *)

\* Mutant: what is due is left for the next round.
SkipExpired(s) == s

RECURSIVE session_expiry__check(_)
session_expiry__check(s) ==
    IF s.expiring = <<>> \/ s.ctx[Head(s.expiring)].left >= 0 THEN s
    ELSE LET i == Head(s.expiring)
             r == [session_expiry__remove(s, i) EXCEPT !.ctx[i].expiry = 0, !.ctx[i].delay = 0]
         IN  session_expiry__check(context__add_to_disused(context__send_will(will_delay__remove(r, i), i), i))

RECURSIVE will_delay__check(_)
will_delay__check(s) ==
    IF s.delayed = <<>> \/ s.ctx[Head(s.delayed)].wait >= 0 THEN s
    ELSE LET i == Head(s.delayed)
             r == context__send_will([will_delay__remove(s, i) EXCEPT !.ctx[i].delay = 0], i)
         IN  will_delay__check(IF r.ctx[i].expiry = 0 THEN context__add_to_disused(r, i) ELSE r)

(* One second less for everything that waits. *)
Pass(s) ==
    [s EXCEPT !.ctx = [i \in Slots |->
        [s.ctx[i] EXCEPT !.left = IF i \in Range(s.expiring) /\ @ >= 0 THEN @ - 1 ELSE @,
                         !.wait = IF i \in Range(s.delayed) /\ @ >= 0 THEN @ - 1 ELSE @]]]

Online(s) == {i \in Slots : s.ctx[i].sock}

keepalive__check(s, quiet) == FoldLeft(do_disconnect, s, SetToSeq(quiet \cap Online(s)))

(* The top of a round up to epoll_wait(): contexts given up are freed,     *)
(* clients that were quiet for too long are dropped, some have events.     *)
MainLoopTop(quiet, elapsed) ==
    LET k == keepalive__check(context__free_disused(db), quiet)
    IN  /\ phase = "top"
        /\ \E ready \in SUBSET Online(k) : batch' = ready
        /\ db' = IF elapsed THEN Pass(k) ELSE k
        /\ ticked' = (ticked \/ elapsed)
        /\ phase' = "events"

net__socket_accept(s) ==
    LET free == {i \in Slots : s.ctx[i].state = "free"}
    IN  [s EXCEPT !.ctx[CHOOSE i \in free : \A j \in free : i <= j] =
            [Unused EXCEPT !.state = "new", !.sock = TRUE]]

(* A connection beyond the limit is closed at once. *)
Accept ==
    /\ phase = "events"
    /\ \E i \in Slots : db.ctx[i].state = "free"
    /\ MaxConnections = 0 \/ Cardinality(Online(db)) < MaxConnections
    /\ db' = net__socket_accept(db)
    /\ UNCHANGED <<batch, phase, ticked>>

(* What a packet or the end of a connection does; a context that was       *)
(* closed since epoll_wait() is passed over, other packets than CONNECT    *)
(* end a new connection.                                                   *)
Packet(i) ==
    LET new == db.ctx[i].state = "new"
    IN  IF ~db.ctx[i].sock THEN {db}
        ELSE {do_disconnect(db, i)}
             \cup {handle__connect(db, i, p) : p \in use}
             \cup IF new THEN {}
                  ELSE {handle__auth(db, i, again, end) : again \in BOOLEAN, end \in {"ok", "continue", "refused"}}
                       \cup {handle__disconnect(db, i, e, w) :
                                e \in IF db.ctx[i].v5 THEN {0, 1, db.ctx[i].expiry} ELSE {db.ctx[i].expiry},
                                w \in IF db.ctx[i].v5 THEN BOOLEAN ELSE {FALSE}}
                       \cup {handle__subscribe(db, i)}

loop_handle_reads_writes(i) ==
    /\ phase = "events"
    /\ batch' = batch \ {i}
    /\ db' \in Packet(i)
    /\ UNCHANGED <<phase, ticked>>

mosquitto_kick_client_by_clientid(id) ==
    LET i == db.byid[id]
    IN  /\ phase = "events"
        /\ i # 0 /\ (KickOffline \/ db.ctx[i].sock)
        /\ \E w, allowed \in BOOLEAN : db' = disconnect_client(db, i, w, allowed)
        /\ UNCHANGED <<batch, phase, ticked>>

MainLoopEnd ==
    /\ phase = "events" /\ batch = {}
    /\ db' = IF ticked THEN will_delay__check(session_expiry__check(db)) ELSE db
    /\ ticked' = FALSE /\ phase' = "top"
    /\ UNCHANGED batch

(* The end of main(): wills are sent, and every context is freed. *)
Named(s) == {i \in Slots : \E id \in Ids : s.byid[id] = i}
Shutdown ==
    LET told == FoldLeft(context__send_will, db, SetToSeq(Named(db)))
        late == FoldLeft(LAMBDA s, i : context__send_will([s EXCEPT !.ctx[i].delay = 0], i),
                         [told EXCEPT !.delayed = <<>>], told.delayed)
        quit == FoldLeft(LAMBDA s, i : [s EXCEPT !.ctx[i].expiry = 0, !.ctx[i].delay = 0],
                         [late EXCEPT !.expiring = <<>>], late.expiring)
        gone == FoldLeft(context__cleanup, quit, SetToSeq(Named(quit)))
        shut == FoldLeft(context__cleanup, gone, SetToSeq(Online(gone)))
    IN  /\ phase = "events" /\ batch = {}
        /\ db' = context__free_disused(shut)
        /\ phase' = "down"
        /\ UNCHANGED <<batch, ticked>>

Init ==
    /\ db = [ctx |-> [i \in Slots |-> Unused], byid |-> [id \in Ids |-> 0], expiring |-> <<>>,
             delayed |-> <<>>, disused |-> <<>>, wild |-> FALSE, stolen |-> FALSE]
    /\ batch = {} /\ phase = "top" /\ ticked = FALSE /\ use \in Scenarios

Running == ~db.wild /\ ~db.stolen

Next ==
    /\ Running /\ UNCHANGED use
    /\ \/ \E quiet \in SUBSET Online(db), elapsed \in BOOLEAN : MainLoopTop(quiet, elapsed)
       \/ Accept
       \/ \E i \in batch : loop_handle_reads_writes(i)
       \/ \E id \in Ids : mosquitto_kick_client_by_clientid(id)
       \/ MainLoopEnd
       \/ Shutdown

Spec == Init /\ [][Next]_vars

(* The loop goes round and time passes, until the broker stops: every      *)
(* event of a round is handled and epoll_wait() returns after 100 ms.      *)
FairSpec == Spec /\ []<>(phase = "top" \/ phase = "down" \/ ~Running)
                 /\ []<>(ticked \/ phase = "down" \/ ~Running)

-----------------------------------------------------------------------------
(* No list, table or pending event of a round leads to a context that has  *)
(* been freed, no context is in a list twice or freed twice, and every     *)
(* context that has no connection is in a list that will free it one day   *)
(* or belongs to a session that never expires.                             *)
ListsExact ==
    ~db.stolen /\ phase # "down" =>
        /\ ~db.wild
        /\ \A i \in batch \cup Range(db.expiring) \cup Range(db.delayed) \cup Range(db.disused) :
                db.ctx[i].state # "free"
        /\ \A list \in {db.expiring, db.delayed, db.disused} : IsInjective(list)
        /\ \A i \in Slots : db.ctx[i].state # "free" /\ ~db.ctx[i].sock =>
                \/ i \in Range(db.expiring) \cup Range(db.delayed) \cup Range(db.disused)
                \/ db.ctx[i].expiry = Never /\ GlobalExpiry = 0

(* The table of identifiers (contexts_by_id) holds exactly the clients that*)
(* have been let in and the sessions that are kept.                        *)
ByIdExact ==
    Running =>
        /\ \A id \in Ids : db.byid[id] # 0 => db.ctx[db.byid[id]].id = id
        /\ \A i \in Slots : db.ctx[i].state \in {"active", "reauthenticating"} => db.byid[db.ctx[i].id] = i

(* The broker's tables lead to the contexts that are there, and to all of  *)
(* them, between any two handlers of a round of events.                    *)
TablesExact == ListsExact /\ ByIdExact

(* A context that is given up has not taken another client's entry in the  *)
(* table of identifiers with it.  The code does not keep to this (README,  *)
(* Deviations).                                                            *)
NothingStolen == ~db.stolen

(* A will is sent at most once, and not at all when it was withdrawn or    *)
(* the client came back in time; when a context is given up its will has   *)
(* been sent, unless one of these or a refusal is the reason.              *)
WillFate ==
    Running => \A i \in Slots :
        LET c == db.ctx[i]
        IN  /\ c.sent <= 1
            /\ c.fate \in {"withdrawn", "taken over", "refused"} => c.sent = 0
            /\ i \in Range(db.disused) /\ c.fate = "owed" => c.sent = 1

(* A session with subscriptions goes on, through lost connections and      *)
(* takeovers, until its client asks for a new one or lets it end with the  *)
(* connection, its time is over, or a plugin disconnects the client and    *)
(* forbids its subscriptions.                                              *)
Kept(f, g, old, new) ==
    \/ g # 0 /\ (new[g].subs \/ new[g].clean)
    \/ old[f].expiry = 0 \/ old[f].left < 0
    \/ old[f].sock /\ (IF g = 0 THEN new[f].expiry = 0 ELSE g = f /\ ~new[f].sock)
SessionKept ==
    [][Running' /\ phase' # "down" => \A id \in Ids :
        db.byid[id] # 0 /\ db.ctx[db.byid[id]].subs =>
            Kept(db.byid[id], db'.byid[id], db.ctx, db'.ctx)]_vars

(* A session whose client stays away ends: it leaves the list of sessions  *)
(* to expire, however many others are added before it is due.              *)
SessionsEnd == \A i \in Slots : (i \in Range(db.expiring)) ~> (i \notin Range(db.expiring) \/ ~Running)

(* A delayed will is settled, by sending it or by the return of its client.*)
DelaysEnd == \A i \in Slots : (i \in Range(db.delayed)) ~> (i \notin Range(db.delayed) \/ ~Running)
=============================================================================
