------------------------------ MODULE Security ------------------------------
(***************************************************************************)
(* Who may connect and who may publish or receive: the password file, the  *)
(* ACL file, the plugins asked before them, and the reload of it all while *)
(* clients are connected (security.c, security_default.c, plugin.c).       *)
(*                                                                         *)
(* One set of security options (per_listener_settings is off).  Topics,    *)
(* user names and identifiers come from one small set; a filter is a       *)
(* topic, "#" or one of the patterns "%u" and "%c".                        *)
(***************************************************************************)
EXTENDS Integers, Sequences, FiniteSets, SequencesExt

CONSTANTS
    Clients,    \* client identifiers
    Logins,     \* [user, pw] with which clients connect, user may be Nobody
    Confs,      \* [anon, pwfile, pw, aclfile, acl]: whether there are files, and what they say
    Reloads,    \* the configurations among them that are put in place later
    Plugins,    \* sequences of libraries: see security__load_v4
    Topics,     \* topics that are published
    Dangerous   \* names that contain + or #

VARIABLES
    sec,        \* the options as they were loaded
    conf,       \* the files they were loaded from
    cl          \* [Clients -> context under this identifier]

vars == <<sec, conf, cl>>

Nobody == "nobody"      \* no user name
NoEntry == [user |-> Nobody, rules |-> <<>>, gen |-> -1]
Unknown == [on |-> "absent", user |-> Nobody, pw |-> 0, acl |-> NoEntry]

-----------------------------------------------------------------------------
(* Loading plugins: a library is [version, symbols, init, auth, acl], the  *)
(* last two being its verdicts on users, "ok", "no" or "defer".            *)

V2Symbols == {"init", "cleanup", "security_init", "security_cleanup", "acl_check",
              "unpwd_check", "psk_key_get"}
security__load_v2(lib) == V2Symbols \subseteq lib.symbols /\ lib.init
V3Symbols == V2Symbols
security__load_v3(lib) == V3Symbols \subseteq lib.symbols /\ lib.init
security__load_v4(lib) ==
    /\ V3Symbols \ {"unpwd_check", "psk_key_get"} \subseteq lib.symbols
    /\ "auth_start" \in lib.symbols => "auth_continue" \in lib.symbols
    /\ lib.init
plugin__load_v5(lib) == {"init", "cleanup"} \subseteq lib.symbols /\ lib.init

security__module_init_single(libs) ==
    \A i \in DOMAIN libs :
        LET lib == libs[i]
        IN  CASE lib.version = 2 -> security__load_v2(lib)
              [] lib.version = 3 -> security__load_v3(lib)
              [] lib.version = 4 -> security__load_v4(lib)
              [] lib.version = 5 -> plugin__load_v5(lib)
              [] OTHER -> FALSE

(* A function is in a list of callbacks once. *)
mosquitto_callback_register(list, f) == IF f \in Range(list) THEN list ELSE Append(list, f)
mosquitto_callback_unregister(list, f) == SelectSeq(list, LAMBDA g : g # f)

-----------------------------------------------------------------------------
(* Reading the files. *)

\* Mutant: denials are placed as they come.
AppendRule(rules, r) == Append(rules, r)

(* Denials go to the front. *)
Place(rules, r) == IF r.access = {} THEN <<r>> \o rules ELSE Append(rules, r)

add__acl(acls, user, r) ==
    IF \E i \in DOMAIN acls : acls[i].user = user
    THEN [i \in DOMAIN acls |->
            IF acls[i].user = user THEN [acls[i] EXCEPT !.rules = Place(@, r)] ELSE acls[i]]
    ELSE Append(acls, [user |-> user, rules |-> <<r>>])

add__acl_pattern(patterns, r) == Place(patterns, r)

(* A line is [kind, name, access]: "user" and "topic" or "pattern" lines,  *)
(* or "invalid".  The lines before an invalid one have been added.         *)
AclLine(p, line) ==
    LET rule == [filter |-> line.name, access |-> line.access]
    IN  IF ~p.ok THEN p
        ELSE CASE line.kind = "user"    -> [p EXCEPT !.user = line.name]
               [] line.kind = "topic"   -> [p EXCEPT !.acls = add__acl(@, p.user, rule)]
               [] line.kind = "pattern" -> [p EXCEPT !.patterns = add__acl_pattern(@, rule)]
               [] line.kind = "invalid" -> [p EXCEPT !.ok = FALSE]
aclfile__parse(lines) ==
    FoldLeft(AclLine, [user |-> Nobody, acls |-> <<>>, patterns |-> <<>>, ok |-> TRUE], lines)

(* A password file is a sequence of [user, pw, sound]; entries whose hash  *)
(* cannot be decoded are removed.                                          *)
unpwd__decode_passwords(entries) == SelectSeq(entries, LAMBDA e : e.sound)

-----------------------------------------------------------------------------
(* The checks. *)

mosquitto_unpwd_check_default(s, c) ==
    LET found == SelectSeq(s.unpwd, LAMBDA e : e.user = c.user)
    IN  IF c.user = Nobody THEN "defer"
        ELSE IF found # <<>> /\ Last(found).pw = c.pw THEN "ok" ELSE "no"

First(verdicts) == SelectSeq(verdicts, LAMBDA v : v # "defer")

Old(s) == SelectSeq(s.libs, LAMBDA l : l.version < 5)

(* Callbacks are asked in order until one decides.  The older plugins that *)
(* check passwords are all asked, and the last one counts.                 *)
mosquitto_unpwd_check(s, c) ==
    LET asked == [i \in DOMAIN s.basic |->
                    IF s.basic[i] = 0 THEN mosquitto_unpwd_check_default(s, c) ELSE s.libs[s.basic[i]].auth[c.user]]
        old   == SelectSeq(Old(s), LAMBDA l : l.version < 4 \/ "unpwd_check" \in l.symbols)
        last  == IF old = <<>> THEN "defer" ELSE Last(old).auth[c.user]
    IN  IF First(asked) # <<>> THEN Head(First(asked))
        ELSE IF asked = <<>> /\ old = <<>> THEN IF s.anon THEN "ok" ELSE "no"
        ELSE IF last = "defer" THEN IF c.user = Nobody /\ s.anon THEN "ok" ELSE "no"
        ELSE last

Dollar(t) == t \in {"$SYS", "$SYS/state", "$share"}
Covers(f, t) == f = t \/ (f = "#" /\ ~Dollar(t))

(* %c and %u stand for the names of the client. *)
Expand(f, id, user) == IF f = "%c" THEN id ELSE IF f = "%u" THEN user ELSE f

Decides(r, access) == r.access = {} \/ access \in r.access

mosquitto_acl_check_default(s, id, c, t, access) ==
    LET mine == SelectSeq(c.acl.rules, LAMBDA r : Covers(r.filter, t) /\ Decides(r, access))
        pats == SelectSeq(s.patterns, LAMBDA r :
                    /\ ~(r.filter = "%u" /\ c.user = Nobody)
                    /\ Covers(Expand(r.filter, id, c.user), t) /\ Decides(r, access))
        Verdict(rules) == IF rules # <<>> /\ Head(rules).access # {} THEN "ok" ELSE "no"
    IN  IF access \in {"subscribe", "unsubscribe"} THEN "ok"
        ELSE IF mine # <<>> THEN Verdict(mine)
        ELSE IF s.patterns # <<>> /\ {id, c.user} \cap Dangerous # {} THEN "no"
        ELSE Verdict(pats)

acl__check_dollar(t, access) ==
    CASE t = "$SYS"   -> access # "write"
      [] t = "$share" -> access \in {"subscribe", "unsubscribe"}
      [] OTHER        -> TRUE

(* An older plugin that denies special characters, and is not asked about  *)
(* what its version does not know.                                         *)
acl__check_single(lib, id, c, access) ==
    IF {id, c.user} \cap Dangerous # {} THEN "no"
    ELSE IF access = "unsubscribe" \/ (access = "subscribe" /\ lib.version = 2) THEN "ok"
    ELSE lib.acl[c.user]

mosquitto_acl_check(s, id, c, t, access) ==
    LET asked == [i \in DOMAIN s.check |->
                    IF s.check[i] = 0 THEN mosquitto_acl_check_default(s, id, c, t, access)
                    ELSE s.libs[s.check[i]].acl[c.user]]
        old   == [i \in DOMAIN Old(s) |-> acl__check_single(Old(s)[i], id, c, access)]
        all   == asked \o old
    IN  IF ~acl__check_dollar(t, access) THEN "no"
        ELSE IF all = <<>> THEN "ok"
        ELSE IF First(all) = <<>> THEN "no"
        ELSE Head(First(all))

-----------------------------------------------------------------------------
(* Loading the options, at the start and again on a reload. *)

Bare(libs) == [libs |-> libs, anon |-> FALSE, unpwd |-> <<>>, acls |-> <<>>, patterns |-> <<>>,
               basic |-> SelectSeq([i \in DOMAIN libs |-> i], LAMBDA i : libs[i].version = 5),
               check |-> SelectSeq([i \in DOMAIN libs |-> i], LAMBDA i : libs[i].version = 5),
               gen |-> 0, ok |-> TRUE]

(* A file that cannot be read ends it: what comes after is not loaded, and *)
(* the check it is for is not registered.                                  *)
mosquitto_security_init_default(s, k) ==
    LET pw   == IF k.pwfile = "none" THEN s
                ELSE [s EXCEPT !.unpwd = unpwd__decode_passwords(k.pw),
                               !.basic = mosquitto_callback_register(@, 0)]
        p    == aclfile__parse(k.acl)
        acl  == [pw EXCEPT !.acls = p.acls, !.patterns = p.patterns, !.ok = p.ok,
                           !.check = IF p.ok THEN mosquitto_callback_register(@, 0) ELSE @]
    IN  IF k.pwfile = "missing" THEN [s EXCEPT !.ok = FALSE]
        ELSE IF k.aclfile THEN acl ELSE [pw EXCEPT !.ok = TRUE]

mosquitto_security_cleanup_default(s) ==
    [s EXCEPT !.acls = <<>>, !.patterns = <<>>, !.unpwd = <<>>, !.gen = 1 - @,
              !.basic = mosquitto_callback_unregister(@, 0),
              !.check = mosquitto_callback_unregister(@, 0)]

acl__cleanup(c) == [c EXCEPT !.acl = NoEntry]

(* A user without an entry keeps the entry of before, if any. *)
acl__find_acls(s, c) ==
    LET i == SelectInSeq(s.acls, LAMBDA e : e.user = c.user)
    IN  IF s.acls = <<>> THEN [c EXCEPT !.acl = NoEntry]
        ELSE IF i = 0 THEN c
        ELSE [c EXCEPT !.acl = [user |-> c.user, rules |-> s.acls[i].rules, gen |-> s.gen]]

security__disconnect_auth(c) == [c EXCEPT !.on = IF @ = "online" THEN "offline" ELSE @]

\* Mutant: anonymous clients are not looked at again.
ApplyToUsers(s, c) ==
    IF c.on = "absent" THEN c
    ELSE IF c.user # Nobody /\ mosquitto_unpwd_check(s, c) # "ok" THEN security__disconnect_auth(c)
    ELSE IF s.acls = <<>> THEN c ELSE acl__find_acls(s, c)

mosquitto_security_apply_default(s, c) ==
    IF c.on = "absent" THEN c
    ELSE IF ~s.anon /\ c.user = Nobody THEN security__disconnect_auth(c)
    ELSE IF mosquitto_unpwd_check(s, c) # "ok" THEN security__disconnect_auth(c)
    ELSE IF s.acls = <<>> THEN c ELSE acl__find_acls(s, c)

(* SIGHUP: flag_reload in the main loop. *)
Reload(k) ==
    LET s == mosquitto_security_init_default(mosquitto_security_cleanup_default([sec EXCEPT !.anon = k.anon]), k)
    IN  /\ conf' = k
        /\ sec' = s
        /\ cl' = [id \in Clients |-> mosquitto_security_apply_default(s, acl__cleanup(cl[id]))]

Connect(id, l) ==
    LET c == [Unknown EXCEPT !.on = "online", !.user = l.user, !.pw = l.pw]
    IN  /\ mosquitto_unpwd_check(sec, c) = "ok"
        /\ cl' = [cl EXCEPT ![id] = acl__find_acls(sec, c)]
        /\ UNCHANGED <<sec, conf>>

(* The connection ends and the session stays, or goes with it. *)
Leave(id) ==
    /\ cl[id].on # "absent"
    /\ \E after \in {Unknown, [cl[id] EXCEPT !.on = "offline"]} : cl' = [cl EXCEPT ![id] = after]
    /\ UNCHANGED <<sec, conf>>

Init ==
    \E libs \in Plugins, k \in Confs :
        /\ security__module_init_single(libs)
        /\ sec = mosquitto_security_init_default([Bare(libs) EXCEPT !.anon = k.anon], k)
        /\ sec.ok
        /\ conf = k
        /\ cl = [id \in Clients |-> Unknown]

Next ==
    \/ \E k \in Reloads : Reload(k)
    \/ \E id \in Clients, l \in Logins : Connect(id, l)
    \/ \E id \in Clients : Leave(id)

Spec == Init /\ [][Next]_vars

-----------------------------------------------------------------------------
(* What the ACL file says of a client, without lists: a rule belongs to    *)
(* the user named last before it; what denies wins over what allows, the   *)
(* user's own rules over the patterns, and the default is no.              *)
UserOf(lines, i) ==
    LET before == {j \in 1..i : lines[j].kind = "user"}
    IN  IF before = {} THEN Nobody ELSE lines[CHOOSE j \in before : \A k \in before : k <= j].name
Saying(lines, kind, id, user, t, Says(_)) ==
    \E i \in DOMAIN lines :
        /\ lines[i].kind = kind /\ Says(lines[i].access)
        /\ kind = "topic" => UserOf(lines, i) = user
        /\ ~(lines[i].name = "%u" /\ user = Nobody)
        /\ Covers(IF kind = "topic" THEN lines[i].name ELSE Expand(lines[i].name, id, user), t)
Granted(lines, id, user, t, access) ==
    LET Denies(a) == a = {}
        Allows(a) == access \in a
        Says(kind, What(_)) == Saying(lines, kind, id, user, t, What)
        patterns == \E i \in DOMAIN lines : lines[i].kind = "pattern"
    IN  /\ ~Says("topic", Denies)
        /\ \/ Says("topic", Allows)
           \/ patterns /\ {id, user} \cap Dangerous = {} /\ ~Says("pattern", Denies) /\ Says("pattern", Allows)

(* With an ACL file and no plugins, a client has the rights the file gives *)
(* it and no others, after any number of reloads.                          *)
RightsExact ==
    sec.ok /\ sec.libs = <<>> /\ conf.aclfile =>
        \A id \in Clients, t \in Topics, access \in {"read", "write"} :
            cl[id].on = "online" /\ acl__check_dollar(t, access) =>
                (mosquitto_acl_check(sec, id, cl[id], t, access) = "ok"
                    <=> Granted(conf.acl, id, cl[id].user, t, access))

(* No context leads to an entry of an ACL list that has been freed.        *)
NoStaleEntry == \A id \in Clients : cl[id].acl.gen \in {-1, sec.gen}

(* Every client that is online would be let in if it came now: a reload    *)
(* disconnects those whose password or anonymity no longer passes.         *)
OnlineAreWelcome ==
    \A id \in Clients : cl[id].on = "online" => mosquitto_unpwd_check(sec, cl[id]) = "ok"
=============================================================================
