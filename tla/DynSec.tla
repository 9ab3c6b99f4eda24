------------------------------- MODULE DynSec -------------------------------
(***************************************************************************)
(* The dynamic security plugin (plugins/dynamic-security): clients, groups *)
(* and roles kept in hash tables that point at each other, changed by      *)
(* commands on a control topic, written to a JSON file after every change  *)
(* and read back at start.                                                 *)
(*                                                                         *)
(* A list of roles or groups is a function from names to priorities: its   *)
(* order (priority, then name) is computed where it is used.  Names are    *)
(* positive numbers ordered as strcmp() orders them.  The texts attached   *)
(* to an object, and memory exhaustion, are left out.                      *)
(*                                                                         *)
(* An object is freed while a list still points at it when the two sides   *)
(* of a relation disagree.  Reading such an entry is undefined behaviour:  *)
(* "wild" becomes TRUE and nothing is said of what follows.                *)
(***************************************************************************)
EXTENDS Integers, Sequences, FiniteSets, SequencesExt, Functions

CONSTANTS
    Absent,         \* stands for a list or a field the command does not have
    Users,          \* usernames a command may name
    Groups,         \* group names a command may name
    Roles,          \* role names a command may name
    Priorities,     \* priorities a command may give; -1 is the default
    AclTopics,      \* topics an ACL may name; "#" matches every topic
    Passwords,      \* passwords a command or a login may give
    ClientIds,      \* client ids a command or a login may give
    Acls,           \* ACLs an addRoleACL may give
    AclLists,       \* ACL arrays a createRole or modifyRole may give
    RoleLists,      \* role arrays a create or modify may give
    JoinLists,      \* group (or client) arrays a create or modify may give
    Files,          \* the configuration files the plugin may start from
    MayFail,        \* which of the changes may fail to be written
    MaxCommands     \* bound: commands that change something, per behaviour

VARIABLES
    conf,       \* local_clients, local_groups, local_roles, the anonymous
                \* group and the default access
    file,       \* what the configuration file holds
    online,     \* usernames with a session; None is an anonymous one
    reply,      \* how the last command was answered
    wild,       \* a freed object has been read
    unsaved,    \* history: conf was changed and not written
    commands    \* bound counter

vars == <<conf, file, online, reply, wild, unsaved, commands>>

None == 0
NoEntries == [x \in {} |-> 0]
AclTypes == {"send", "literal", "pattern"}

-----------------------------------------------------------------------------
(* The lists an object keeps. *)

Without(f, S) == Restrict(f, DOMAIN f \ S)
With(f, k, v) == IF k \in DOMAIN f THEN f ELSE (k :> v) @@ f

(* rolelist_cmp(), dynsec_grouplist__cmp(): priority first, then the name. *)
Ordered(list) ==
    SetToSortSeq(DOMAIN list,
                 LAMBDA a, b : list[a] > list[b] \/ (list[a] = list[b] /\ a < b))

\* Mutant: an ACL goes in front of those of its own priority.
InsertAclFirst(acls, a) ==
    LET higher == Len(SelectSeq(acls, LAMBDA b : b.priority > a.priority))
    IN  InsertAt(acls, higher + 1, a)

(* insert_acl_cmp(): behind every ACL of at least its priority. *)
InsertAcl(acls, a) ==
    LET higher == Len(SelectSeq(acls, LAMBDA b : b.priority >= a.priority))
    IN  InsertAt(acls, higher + 1, a)

LoadAcls(list) ==
    [k \in AclTypes |->
        FoldLeft(InsertAcl, <<>>, SelectSeq(list, LAMBDA a : a.type = k))]

client_add(cf, c, r, p) ==
    IF r \notin DOMAIN cf.roles \/ r \in DOMAIN cf.clients[c].roles THEN cf
    ELSE [cf EXCEPT !.clients[c].roles = With(@, r, p),
                    !.roles[r].clients = @ \cup {c}]

client_remove(cf, c, r) ==
    IF r \notin DOMAIN cf.clients[c].roles THEN cf
    ELSE [cf EXCEPT !.clients[c].roles = Without(@, {r}),
                    !.roles[r].clients = @ \ {c}]

remove_all_roles(cf, c) ==
    FoldSet(LAMBDA r, acc : client_remove(acc, c, r), cf, DOMAIN cf.clients[c].roles)

add_new_roles(cf, c, list) ==
    FoldSet(LAMBDA r, acc : client_add(acc, c, r, list[r]), cf, DOMAIN list)

group_add(cf, g, r, p) ==
    IF r \in DOMAIN cf.groups[g].roles THEN cf
    ELSE [cf EXCEPT !.groups[g].roles = With(@, r, p),
                    !.roles[r].groups = @ \cup {g}]

group_remove(cf, g, r) ==
    [cf EXCEPT !.groups[g].roles = Without(@, {r}),
               !.roles[r].groups = @ \ {g}]

(* dynsec_groups__add_client(), when the client and the group exist. *)
add_client(cf, c, g, p) ==
    IF c \in DOMAIN cf.groups[g].clients THEN cf
    ELSE [cf EXCEPT !.groups[g].clients = With(@, c, p),
                    !.clients[c].groups = With(@, g, p)]

\* Mutant: only the group forgets the client.
remove_client_one_side(cf, c, g) ==
    [cf EXCEPT !.groups[g].clients = Without(@, {c})]

remove_client(cf, c, g) ==
    [cf EXCEPT !.groups[g].clients = Without(@, {c}),
               !.clients[c].groups = Without(@, {g})]

(* dynsec__remove_client_from_all_groups() looks the client up by name. *)
remove_client_from_all_groups(cf, c) ==
    FoldSet(LAMBDA g, acc : remove_client(acc, c, g), cf, DOMAIN cf.clients[c].groups)

remove_all_clients_from_group(cf, g) ==
    FoldSet(LAMBDA c, acc : remove_client(acc, c, g), cf, DOMAIN cf.groups[g].clients)

(* dynsec_rolelist__load_from_json(): one unknown role refuses the list.   *)
(* The roles of an accepted list are not told who has them.                *)
RolesFound(cf, list) == list = Absent \/ DOMAIN list \subseteq DOMAIN cf.roles
Given(list, default) == IF list = Absent THEN default ELSE list

-----------------------------------------------------------------------------
(* Saving and loading. *)

(* dynsec__config_add_clients(): the groups are written with the groups. *)
SavedClient(client) == [client EXCEPT !.groups = NoEntries]

(* add_acls_to_json(): one array, each ACL with its type. *)
SavedAcls(role) == role.acls.send \o role.acls.literal \o role.acls.pattern

(* dynsec__config_save(): who is in a group is written with the group, who *)
(* has a role with the client or the group.                                *)
Snapshot(cf) ==
    [clients   |-> [c \in DOMAIN cf.clients |-> SavedClient(cf.clients[c])],
     groups    |-> cf.groups,
     roles     |-> [r \in DOMAIN cf.roles |-> SavedAcls(cf.roles[r])],
     anonymous |-> cf.anonymous,
     access    |-> cf.access]

LoadRoles(f) ==
    [r \in DOMAIN f.roles |->
        [acls    |-> LoadAcls(f.roles[r]),
         clients |-> {c \in DOMAIN f.clients : r \in DOMAIN f.clients[c].roles},
         groups  |-> {g \in DOMAIN f.groups : r \in DOMAIN f.groups[g].roles},
         freed   |-> {}]]

(* An entry for an unknown role is skipped. *)
LoadClients(f) ==
    [c \in DOMAIN f.clients |->
        [f.clients[c] EXCEPT
            !.roles  = Restrict(@, DOMAIN @ \cap DOMAIN f.roles),
            !.groups = [g \in {h \in DOMAIN f.groups : c \in DOMAIN f.groups[h].clients}
                            |-> f.groups[g].clients[c]]]]

LoadGroups(f) ==
    [g \in DOMAIN f.groups |->
        [roles   |-> Restrict(f.groups[g].roles,
                              DOMAIN f.groups[g].roles \cap DOMAIN f.roles),
         clients |-> Restrict(f.groups[g].clients,
                              DOMAIN f.groups[g].clients \cap DOMAIN f.clients)]]

(* dynsec__config_load(): roles, then clients, then groups. *)
Load(f) ==
    [clients   |-> LoadClients(f),
     groups    |-> LoadGroups(f),
     roles     |-> LoadRoles(f),
     anonymous |-> IF f.anonymous \in DOMAIN f.groups THEN f.anonymous ELSE None,
     access    |-> f.access]

(* Entries dynsec__config_save() follows to an object that is gone. *)
Dangling(cf) ==
    \/ \E c \in DOMAIN cf.clients : ~(DOMAIN cf.clients[c].roles \subseteq DOMAIN cf.roles)
    \/ \E g \in DOMAIN cf.groups :
        \/ ~(DOMAIN cf.groups[g].roles \subseteq DOMAIN cf.roles)
        \/ ~(DOMAIN cf.groups[g].clients \subseteq DOMAIN cf.clients)
    \/ cf.anonymous \notin DOMAIN cf.groups \cup {None}

(* Reading group g's list of clients. *)
ReadsFreed(g) == ~(DOMAIN conf.groups[g].clients \subseteq DOMAIN conf.clients)

Members(cf, S) == UNION {DOMAIN cf.groups[g].clients : g \in S}
                    \cup (IF cf.anonymous \in S THEN {None} ELSE {})

-----------------------------------------------------------------------------
(* How a command ends. *)

(* The change is made, written and reported; the kicked sessions end.      *)
(* "reads" is what else the command reads of a freed object.               *)
Done(new, kicked, reads) ==
    /\ commands < MaxCommands
    /\ commands' = commands + 1
    /\ conf' = new
    /\ wild' = (reads \/ Dangling(conf) \/ Dangling(new))
    /\ \E written \in {TRUE, commands' \notin MayFail} :
        /\ file' = IF written /\ ~wild' THEN Snapshot(new) ELSE file
        /\ unsaved' = ~written
    /\ online' = online \ kicked
    /\ reply' = "done"

(* The command is refused; "new" is what it had already changed. *)
Refused(new, kicked, reads) ==
    /\ new # conf => commands < MaxCommands
    /\ commands' = IF new = conf THEN commands ELSE commands + 1
    /\ conf' = new
    /\ wild' = reads
    /\ unsaved' = (unsaved \/ new # conf)
    /\ online' = online \ kicked
    /\ reply' = "refused"
    /\ UNCHANGED file

Refuse == Refused(conf, {}, FALSE)

(* A query is answered from the tables and changes nothing. *)
Answer(ok, reads) ==
    /\ reply' = IF ok THEN "done" ELSE "refused"
    /\ wild' = reads
    /\ UNCHANGED <<conf, file, online, unsaved, commands>>

Known(c) == c \in DOMAIN conf.clients
KnownGroup(g) == g \in DOMAIN conf.groups
KnownRole(r) == r \in DOMAIN conf.roles

-----------------------------------------------------------------------------
(* Clients. *)

(* A missing field, one of the wrong type, bad UTF-8, an unknown command. *)
Malformed == Refuse

(* The client is in the table before its groups are added.  When a group   *)
(* is unknown it is freed again, but client__free_item() takes it out of   *)
(* the table first, so the groups already joined keep their entry.         *)
CreateClient(c, id, pw, rl, gl) ==
    LET fresh == [roles |-> Given(rl, NoEntries), groups |-> NoEntries,
                  disabled |-> FALSE, id |-> id, pw |-> pw]
        bad   == {i \in DOMAIN gl : ~KnownGroup(gl[i].name)
                                      \/ \E j \in 1 .. i - 1 : gl[j].name = gl[i].name}
        upto  == IF bad = {} THEN Len(gl) ELSE Min(bad) - 1
        added == FoldLeft(LAMBDA cf, e : add_client(cf, c, e.name, e.priority),
                          [conf EXCEPT !.clients = (c :> fresh) @@ @],
                          SubSeq(gl, 1, upto))
        reads == \E i \in 1 .. upto : ReadsFreed(gl[i].name)
    IN  IF Known(c) \/ ~RolesFound(conf, rl) THEN Refuse
        ELSE IF bad # {}
        THEN Refused([added EXCEPT !.clients = conf.clients], {}, reads)
        ELSE Done(added, {}, reads)

DeleteClient(c) ==
    IF ~Known(c) THEN Refuse
    ELSE LET left == remove_all_roles(remove_client_from_all_groups(conf, c), c)
         IN  Done([left EXCEPT !.clients = Without(@, {c})], {c}, FALSE)

DisableClient(c) ==
    IF ~Known(c) THEN Refuse
    ELSE Done([conf EXCEPT !.clients[c].disabled = TRUE], {c}, FALSE)

EnableClient(c) ==
    IF ~Known(c) THEN Refuse
    ELSE Done([conf EXCEPT !.clients[c].disabled = FALSE], {}, FALSE)

SetClientId(c, id) ==
    IF ~Known(c) THEN Refuse
    ELSE Done([conf EXCEPT !.clients[c].id = id], {c}, FALSE)

SetClientPassword(c, pw) ==
    IF ~Known(c) \/ pw = None THEN Refuse
    ELSE Done([conf EXCEPT !.clients[c].pw = pw], {c}, FALSE)

(* The id and the password are already changed when the role list is       *)
(* refused, and that change is not written.  Unknown groups are skipped.   *)
ModifyClient(c, id, pw, rl, gl) ==
    LET named  == [conf EXCEPT !.clients[c].id = Given(id, @),
                               !.clients[c].pw = IF pw = None THEN @ ELSE pw]
        roled  == IF rl = Absent THEN named
                  ELSE add_new_roles(remove_all_roles(named, c), c, rl)
        joined == IF gl = Absent THEN roled
                  ELSE FoldLeft(LAMBDA cf, e : add_client(cf, c, e.name, e.priority),
                                remove_client_from_all_groups(roled, c),
                                SelectSeq(gl, LAMBDA e : KnownGroup(e.name)))
    IN  IF ~Known(c) THEN Refuse
        ELSE IF ~RolesFound(conf, rl) THEN Refused(named, {c}, FALSE)
        ELSE Done(joined, {c}, FALSE)

AddClientRole(c, r, p) ==
    IF ~Known(c) \/ ~KnownRole(r) \/ r \in DOMAIN conf.clients[c].roles
    THEN Refuse
    ELSE Done(client_add(conf, c, r, p), {c}, FALSE)

RemoveClientRole(c, r) ==
    IF ~Known(c) \/ ~KnownRole(r) THEN Refuse
    ELSE Done(client_remove(conf, c, r), {c}, FALSE)

GetClient(c) == Answer(Known(c), FALSE)

-----------------------------------------------------------------------------
(* Groups. *)

CreateGroup(g, rl) ==
    IF KnownGroup(g) \/ ~RolesFound(conf, rl) THEN Refuse
    ELSE Done([conf EXCEPT !.groups =
                  (g :> [roles |-> Given(rl, NoEntries), clients |-> NoEntries]) @@ @],
              {}, FALSE)

(* Undefined from here: a freed object is read before anything is written. *)
Undefined ==
    /\ wild' = TRUE
    /\ reply' = "refused"
    /\ UNCHANGED <<conf, file, online, unsaved, commands>>

(* A role that lists g without being one of g's roles keeps its entry. *)
DeleteGroup(g) ==
    LET mine   == DOMAIN conf.groups[g].roles
        left   == FoldSet(LAMBDA r, cf : group_remove(cf, g, r),
                          remove_all_clients_from_group(conf, g), mine)
        freed  == [left EXCEPT
                    !.groups = Without(@, {g}),
                    !.roles = [r \in DOMAIN @ |->
                        IF g \notin @[r].groups THEN @[r]
                        ELSE [@[r] EXCEPT !.groups = @ \ {g}, !.freed = @ \cup {g}]]]
    IN  IF ~KnownGroup(g) THEN Refuse
        ELSE IF ReadsFreed(g) \/ \E r \in mine : g \in conf.roles[r].freed
        THEN Undefined
        ELSE Done(freed, Members(conf, {g}), FALSE)

(* The client is disconnected whether or not it could be added. *)
AddGroupClient(c, g, p) ==
    IF ~Known(c) \/ ~KnownGroup(g) THEN Refused(conf, {c}, FALSE)
    ELSE IF c \in DOMAIN conf.groups[g].clients
    THEN Refused(conf, {c}, FALSE)
    ELSE Done(add_client(conf, c, g, p), {c}, FALSE)

RemoveGroupClient(c, g) ==
    IF ~Known(c) \/ ~KnownGroup(g) THEN Refused(conf, {c}, FALSE)
    ELSE Done(remove_client(conf, c, g), {c}, FALSE)

AddGroupRole(g, r, p) ==
    IF ~KnownGroup(g) \/ ~KnownRole(r) \/ r \in DOMAIN conf.groups[g].roles
    THEN Refuse
    ELSE Done(group_add(conf, g, r, p), Members(conf, {g}),
              g \in conf.roles[r].freed)

RemoveGroupRole(g, r) ==
    IF ~KnownGroup(g) \/ ~KnownRole(r) THEN Refuse
    ELSE Done(group_remove(conf, g, r), Members(conf, {g}),
              g \in conf.roles[r].freed)

(* The new role list replaces the old one on the group's side only, and    *)
(* only the clients the group has afterwards are disconnected.             *)
ModifyGroup(g, rl, cl) ==
    LET roled  == [conf EXCEPT !.groups[g].roles = Given(rl, @)]
        joined == IF cl = Absent THEN roled
                  ELSE FoldLeft(LAMBDA cf, e : add_client(cf, e.name, g, e.priority),
                                remove_all_clients_from_group(roled, g),
                                SelectSeq(cl, LAMBDA e : Known(e.name)))
    IN  IF ~KnownGroup(g) THEN Refuse
        ELSE IF ReadsFreed(g) THEN Undefined
        ELSE IF ~RolesFound(conf, rl)
        THEN Refused(conf, Members(conf, {g}), FALSE)
        ELSE Done(joined, Members(joined, {g}), FALSE)

SetAnonymousGroup(g) ==
    IF ~KnownGroup(g) THEN Refuse
    ELSE Done([conf EXCEPT !.anonymous = g], {None}, FALSE)

GetGroup(g) == Answer(KnownGroup(g), KnownGroup(g) /\ ReadsFreed(g))
GetAnonymousGroup == Answer(TRUE, FALSE)

-----------------------------------------------------------------------------
(* Roles. *)

CreateRole(r, acls) ==
    IF KnownRole(r) THEN Refuse
    ELSE Done([conf EXCEPT !.roles = (r :> [acls |-> LoadAcls(acls), clients |-> {},
                                            groups |-> {}, freed |-> {}]) @@ @],
              {}, FALSE)

\* Mutant: those who have the role through a group are forgotten.
DirectHolders(r) == conf.roles[r].clients

(* Everyone the role says it was given to. *)
Holders(r) == conf.roles[r].clients \cup Members(conf, conf.roles[r].groups)

DeleteRole(r) ==
    LET role == conf.roles[r]
        left == FoldSet(LAMBDA g, cf : group_remove(cf, g, r),
                        FoldSet(LAMBDA c, cf : client_remove(cf, c, r), conf, role.clients),
                        role.groups)
    IN  IF ~KnownRole(r) THEN Refuse
        ELSE Done([left EXCEPT !.roles = Without(@, {r})],
                  Holders(r), role.freed # {})

(* Nobody is disconnected. *)
ModifyRole(r, acls) ==
    IF ~KnownRole(r) THEN Refuse
    ELSE Done([conf EXCEPT !.roles[r].acls = LoadAcls(acls)], {}, FALSE)

HasAcl(r, k, t) == \E i \in DOMAIN conf.roles[r].acls[k] : conf.roles[r].acls[k][i].topic = t

AddRoleACL(r, a) ==
    IF ~KnownRole(r) \/ HasAcl(r, a.type, a.topic) THEN Refuse
    ELSE Done([conf EXCEPT !.roles[r].acls[a.type] = InsertAcl(@, a)],
              Holders(r), conf.roles[r].freed # {})

RemoveRoleACL(r, k, t) ==
    IF ~KnownRole(r) \/ ~HasAcl(r, k, t) THEN Refuse
    ELSE Done([conf EXCEPT !.roles[r].acls[k] = SelectSeq(@, LAMBDA a : a.topic # t)],
              Holders(r), conf.roles[r].freed # {})

GetRole(r) == Answer(KnownRole(r), FALSE)

SetDefaultACLAccess(b) ==
    Done([conf EXCEPT !.access = b], {}, FALSE)

GetDefaultACLAccess == Answer(TRUE, FALSE)

(* listClients, listGroups, listRoles with "verbose". *)
ListClients == Answer(TRUE, FALSE)
ListGroups == Answer(TRUE, \E g \in DOMAIN conf.groups : ReadsFreed(g))
ListRoles == Answer(TRUE, FALSE)

-----------------------------------------------------------------------------
(* Checks made for the sessions. *)

Matches(pattern, topic) == pattern = "#" \/ pattern = topic

(* acl_check_publish_c_send() and the identical check of what a client     *)
(* receives: the ACLs of a role that apply, the first of which decides.    *)
AppliesPublish(acls, topic) ==
    SelectSeq(acls.send, LAMBDA a : Matches(a.topic, topic))

(* acl_check_subscribe(), and the identical acl_check_unsubscribe(). *)
AppliesSubscribe(acls, topic) ==
    SelectSeq(acls.literal, LAMBDA a : a.topic = topic)
        \o SelectSeq(acls.pattern, LAMBDA a : Matches(a.topic, topic))

Applies(role, access, topic) ==
    IF access = "publish" THEN AppliesPublish(role.acls, topic)
    ELSE AppliesSubscribe(role.acls, topic)

ListApplies(cf, list, access, topic) ==
    FlattenSeq([i \in DOMAIN Ordered(list) |->
                    Applies(cf.roles[Ordered(list)[i]], access, topic)])

(* acl_check(): the client's roles, then those of its groups, then the     *)
(* default.  None is a client without a username.                          *)
acl_check(cf, c, access, topic) ==
    LET lists == IF c # None
                 THEN <<cf.clients[c].roles>>
                        \o [i \in DOMAIN Ordered(cf.clients[c].groups) |->
                                cf.groups[Ordered(cf.clients[c].groups)[i]].roles]
                 ELSE IF cf.anonymous # None THEN <<cf.groups[cf.anonymous].roles>>
                 ELSE <<>>
        hits  == FlattenSeq([i \in DOMAIN lists |-> ListApplies(cf, lists[i], access, topic)])
    IN  IF c # None /\ c \notin DOMAIN cf.clients THEN "defer"
        ELSE IF hits # <<>> THEN IF Head(hits).allow THEN "allow" ELSE "deny"
        ELSE IF cf.access THEN "allow" ELSE "defer"

(* dynsec_auth__basic_auth_callback() *)
basic_auth(c, id, pw) ==
    IF c = None \/ pw = None \/ ~Known(c) THEN "defer"
    ELSE IF conf.clients[c].disabled \/ conf.clients[c].id \notin {None, id} THEN "deny"
    ELSE IF conf.clients[c].pw = None THEN "defer"
    ELSE IF conf.clients[c].pw = pw THEN "allow" ELSE "deny"

(* A client the plugin has no opinion on may be let in by another check. *)
Login(c, id, pw) ==
    /\ basic_auth(c, id, pw) # "deny"
    /\ online' = online \cup {c}
    /\ UNCHANGED <<conf, file, reply, wild, unsaved, commands>>

(* The broker stops, or crashes, and starts again. *)
Restart ==
    /\ conf' = Load(file)
    /\ online' = {}
    /\ unsaved' = FALSE
    /\ reply' = "none"
    /\ UNCHANGED <<file, wild, commands>>

-----------------------------------------------------------------------------
Init ==
    /\ file \in Files
    /\ conf = Load(file)
    /\ online = {}
    /\ reply = "none"
    /\ wild = FALSE
    /\ unsaved = FALSE
    /\ commands = 0

OnClient ==
    \E c \in Users :
        \/ \E id \in ClientIds, pw \in Passwords, rl \in RoleLists, gl \in JoinLists :
            \/ gl # Absent /\ CreateClient(c, id, pw, rl, gl)
            \/ ModifyClient(c, id, pw, rl, gl)
        \/ DeleteClient(c) \/ DisableClient(c) \/ EnableClient(c) \/ GetClient(c)
        \/ \E id \in ClientIds : SetClientId(c, id)
        \/ \E pw \in Passwords : SetClientPassword(c, pw)
        \/ \E r \in Roles, p \in Priorities : AddClientRole(c, r, p)
        \/ \E r \in Roles : RemoveClientRole(c, r)

OnGroup ==
    \E g \in Groups :
        \/ \E rl \in RoleLists : CreateGroup(g, rl)
        \/ \E rl \in RoleLists, cl \in JoinLists : ModifyGroup(g, rl, cl)
        \/ DeleteGroup(g) \/ SetAnonymousGroup(g) \/ GetGroup(g)
        \/ \E c \in Users, p \in Priorities : AddGroupClient(c, g, p)
        \/ \E c \in Users : RemoveGroupClient(c, g)
        \/ \E r \in Roles, p \in Priorities : AddGroupRole(g, r, p)
        \/ \E r \in Roles : RemoveGroupRole(g, r)

OnRole ==
    \E r \in Roles :
        \/ \E acls \in AclLists : CreateRole(r, acls) \/ ModifyRole(r, acls)
        \/ DeleteRole(r) \/ GetRole(r)
        \/ \E a \in Acls : AddRoleACL(r, a)
        \/ \E k \in AclTypes, t \in AclTopics : RemoveRoleACL(r, k, t)

Queries ==
    \/ ListClients \/ ListGroups \/ ListRoles
    \/ GetAnonymousGroup \/ GetDefaultACLAccess

(* dynsec__handle_control() *)
Command ==
    \/ OnClient \/ OnGroup \/ OnRole \/ Queries \/ Malformed
    \/ \E b \in BOOLEAN : SetDefaultACLAccess(b)

Next ==
    /\ ~wild
    /\ \/ Command
       \/ \E c \in Users \cup {None}, id \in ClientIds, pw \in Passwords : Login(c, id, pw)
       \/ Restart

Spec == Init /\ [][Next]_vars

-----------------------------------------------------------------------------
(* A client is in a group's list exactly when the group is in the          *)
(* client's, with the same priority: dynsec_groups__add_client() and       *)
(* __remove_client() keep the two in step, and so do the deletes, the      *)
(* modifies (which empty and refill one side) and a load.                  *)
MembershipAgrees ==
    ~wild =>
        \A c \in DOMAIN conf.clients, g \in DOMAIN conf.groups :
            /\ g \in DOMAIN conf.clients[c].groups <=> c \in DOMAIN conf.groups[g].clients
            /\ g \in DOMAIN conf.clients[c].groups
                 => conf.clients[c].groups[g] = conf.groups[g].clients[c]

(* Every client a role lists exists and has the role, and every group a    *)
(* client lists exists: deleting a client, a group or a role follows these *)
(* entries without looking them up.                                        *)
ListedExist ==
    ~wild =>
        /\ \A r \in DOMAIN conf.roles : \A c \in conf.roles[r].clients :
            c \in DOMAIN conf.clients /\ r \in DOMAIN conf.clients[c].roles
        /\ \A c \in DOMAIN conf.clients :
            DOMAIN conf.clients[c].groups \subseteq DOMAIN conf.groups

(* Unless a change could not be written, a restart gives every client, and *)
(* the anonymous one, the rights it has now: dynsec__config_save() runs    *)
(* after the change, and the order of roles, groups and ACLs of equal      *)
(* priority survives the file.                                             *)
RestartKeepsRights ==
    ~wild /\ ~unsaved =>
        /\ DOMAIN Load(file).clients = DOMAIN conf.clients
        /\ \A c \in DOMAIN conf.clients \cup {None}, k \in {"publish", "subscribe"},
              t \in AclTopics :
            acl_check(Load(file), c, k, t) = acl_check(conf, c, k, t)

(* What a client logs in with, and every list its rights come from. *)
Account(cf, c) ==
    IF c = None
    THEN [own |-> None,
          via |-> IF cf.anonymous = None THEN NoEntries
                  ELSE (cf.anonymous :> cf.groups[cf.anonymous].roles)]
    ELSE [own |-> [cf.clients[c] EXCEPT !.disabled = FALSE],
          via |-> [g \in DOMAIN cf.clients[c].groups |-> cf.groups[g].roles]]

(* "Enforce any changes": a command that changes the account of a          *)
(* connected client, disables it or removes it, ends its sessions.         *)
(* modifyGroup is left out, since it does not disconnect the clients it    *)
(* takes out of the group.                                                 *)
ChangeIsEnforced ==
    [][\A c \in DOMAIN conf.clients \cup {None} :
         \/ c \notin online'
         \/ wild'
         \/ \E g \in Groups, rl \in RoleLists, cl \in JoinLists : ModifyGroup(g, rl, cl)
         \/ /\ c # None => /\ c \in DOMAIN conf'.clients
                           /\ conf'.clients[c].disabled => conf.clients[c].disabled
            /\ Account(conf', c) = Account(conf, c)]_vars
=============================================================================
