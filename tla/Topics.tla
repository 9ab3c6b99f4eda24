------------------------------- MODULE Topics -------------------------------
(***************************************************************************)
(* The subscription tree (subs.c), the tree of retained messages (retain.c)*)
(* and the list of subscriptions every client keeps (context->subs), with  *)
(* SUBSCRIBE, UNSUBSCRIBE, PUBLISH and the end of a session.               *)
(*                                                                         *)
(* A node of a tree is its path, the sequence of hash table keys that leads*)
(* to it.  The first token of a topic is looked up twice, once among the   *)
(* roots and once below the root, so it is twice in every path.            *)
(***************************************************************************)
EXTENDS Naturals, Sequences, FiniteSets, SequencesExt

CONSTANTS
    Clients, NoPayload, Denied, \* see Subscriptions
    Scenarios,      \* what clients do: [filters, options, topics, payloads, retain]
    Refused,        \* <<client, filter>>: access control refuses the subscription
    Mqtt5,          \* the clients that use version 5
    MaxSubs,        \* bound: subscriptions of a client
    MaxTurns        \* bound: messages a group has served since it changed

VARIABLES
    use,        \* the scenario
    tree,       \* db.subs: path -> [subs, shared]
    csubs,      \* context->subs of every client: [path, group] or NoSub
    retains,    \* db.retains: path -> message or NoMessage
    expired,    \* paths whose retained message has expired
    out,        \* messages handed out by the last step
    served,     \* history: what each member of a group got since it changed
    wild        \* a freed node has been used

vars == <<use, tree, csubs, retains, expired, out, served, wild>>

NoSub == [path |-> <<>>, group |-> ""]
NoMessage == [topic |-> <<>>, payload |-> NoPayload, qos |-> 0]
NoGroup == ""

-----------------------------------------------------------------------------
(* topic_tok.c: an empty token comes before the levels unless the first    *)
(* starts with $; of a shared subscription the first two levels go.        *)
sub__topic_tokenise(levels) ==
    IF levels[1] = "$share" THEN <<"">> \o SubSeq(levels, 3, Len(levels))
    ELSE IF levels[1] \in {"$SYS", "$x"} THEN levels
    ELSE <<"">> \o levels

PathOf(levels) == LET t == sub__topic_tokenise(levels) IN <<t[1]>> \o t

(* The levels a path stands for. *)
LevelsOf(path) == IF path[1] = "" THEN SubSeq(path, 3, Len(path)) ELSE Tail(path)

NodesTo(path) == {SubSeq(path, 1, n) : n \in 1..Len(path)}
Children(t, path) == {p \in DOMAIN t : Len(p) = Len(path) + 1 /\ IsPrefix(path, p)}
Bare == [subs |-> <<>>, shared |-> {}]

sub__add_hier_entry(t, path) ==
    [p \in DOMAIN t \cup NodesTo(path) |-> IF p \in DOMAIN t THEN t[p] ELSE Bare]

Has(list, c) == \E i \in DOMAIN list : list[i].c = c
Drop(list, c) == SelectSeq(list, LAMBDA l : l.c # c)

(* The list with the subscription of c; one that is there already keeps    *)
(* its place and its options.                                              *)
sub__add_leaf(list, c, o) ==
    IF Has(list, c)
    THEN [i \in DOMAIN list |-> IF list[i].c = c THEN [list[i] EXCEPT !.qos = o.qos, !.id = o.id] ELSE list[i]]
    ELSE Append(list, [c |-> c, qos |-> o.qos, id |-> o.id, nl |-> o.nl, rap |-> o.rap])

Members(node, group) ==
    IF \E s \in node.shared : s.name = group THEN (CHOOSE s \in node.shared : s.name = group).subs
    ELSE <<>>

(* The leaves of a group, or those of the node itself; a group without     *)
(* members is freed.                                                       *)
ListOf(node, group) == IF group = NoGroup THEN node.subs ELSE Members(node, group)

WithList(node, group, list) ==
    IF group = NoGroup THEN [node EXCEPT !.subs = list]
    ELSE [node EXCEPT !.shared = {s \in @ : s.name # group}
                                 \cup IF list = <<>> THEN {} ELSE {[name |-> group, subs |-> list]}]

(* context->subs: the first free place, or one more. *)
Remember(list, csub) ==
    IF \E i \in DOMAIN list : list[i] = NoSub
    THEN [list EXCEPT ![CHOOSE i \in DOMAIN list : list[i] = NoSub
                            /\ \A j \in 1..(i - 1) : list[j] # NoSub] = csub]
    ELSE Append(list, csub)

(* Nodes on the way to path that hold nothing are freed, from the bottom   *)
(* up to the first that is needed; a root stays.                           *)
Prune(t, path) ==
    LET At(n)    == SubSeq(path, 1, n)
        Empty(n) == At(n) \in DOMAIN t =>
                        t[At(n)] = Bare /\ Children(t, At(n)) \subseteq NodesTo(path)
        gone     == {At(n) : n \in {k \in 2..Len(path) : \A j \in k..Len(path) : Empty(j)}}
    IN  [p \in DOMAIN t \ gone |-> t[p]]

(* The first record of the client for this node; for a subscription that is*)
(* not shared, the group of the record is not looked at.                   *)
ForgetNormal(list, path) ==
    LET hits == {i \in DOMAIN list : list[i].path = path}
    IN  IF hits = {} THEN list
        ELSE [list EXCEPT ![CHOOSE i \in hits : \A j \in hits : i <= j] = NoSub]

ForgetShared(list, path, group) ==
    [i \in DOMAIN list |-> IF list[i] = [path |-> path, group |-> group] THEN NoSub ELSE list[i]]

-----------------------------------------------------------------------------
(* Retained messages. *)

retain__process(path, c, f, o) ==
    LET m == retains[path]
    IN  IF path \in expired \/ <<c, m.topic>> \in Denied THEN <<>>
        ELSE <<[c |-> c, levels |-> f.levels, group |-> f.group, topic |-> m.topic,
                payload |-> m.payload, qos |-> IF m.qos > o.qos THEN o.qos ELSE m.qos,
                retain |-> TRUE, id |-> o.id]>>

(* The nodes with a retained message that the tokens lead to from path. *)
Kept(path) == IF retains[path] # NoMessage THEN {path} ELSE {}

RECURSIVE retain__search(_, _, _)
retain__search(path, tokens, level) ==
    LET children == Children(retains, path)
        Below(b) ==
            IF Len(tokens) = 1 THEN Kept(b)
            ELSE retain__search(b, Tail(tokens), level + 1)
                 \cup IF tokens[2] = "#" /\ Len(tokens) = 2
                         /\ (Children(retains, b) # {} \/ level > 0)
                      THEN Kept(b) ELSE {}
    IN  IF tokens = <<"#">>
        THEN UNION {Kept(b) \cup retain__search(b, tokens, level + 1) : b \in children}
        ELSE UNION {Below(b) : b \in {x \in children : tokens[1] \in {"+", x[Len(x)]}}}

retain__queue(c, f, o) ==
    LET tokens == sub__topic_tokenise(f.levels)
        nodes  == IF <<tokens[1]>> \in DOMAIN retains
                  THEN retain__search(<<tokens[1]>>, tokens, 0) ELSE {}
    IN  FlattenSeq(LET s == SetToSeq(nodes) IN [i \in DOMAIN s |-> retain__process(s[i], c, f, o)])

(* A message without payload clears what is kept. *)
retain__store(topic, payload, qos) ==
    LET path == PathOf(topic)
        grown == [p \in DOMAIN retains \cup NodesTo(path) |->
                    IF p \in DOMAIN retains THEN retains[p] ELSE NoMessage]
    IN  [grown EXCEPT ![path] = IF payload = NoPayload THEN NoMessage
                                ELSE [topic |-> topic, payload |-> payload, qos |-> qos]]

-----------------------------------------------------------------------------
(* Each group starts counting again when its members change. *)
Turns(path, group, members) ==
    {s \in served : s.path # path \/ s.group # group}
    \cup IF group = NoGroup THEN {}
         ELSE {[path |-> path, group |-> group, c |-> members[i].c, n |-> 0] : i \in DOMAIN members}

(* sub__add() and retain__queue(), from handle__subscribe(). *)
handle__subscribe(c, f, o) ==
    LET path == PathOf(f.levels)
        t    == sub__add_hier_entry(tree, path)
        old  == ListOf(t[path], f.group)
        list == sub__add_leaf(old, c, o)
        new  == ~Has(old, c)
        replay == c \notin Mqtt5 \/ o.handling = "always" \/ (o.handling = "new" /\ new)
    IN  IF <<c, f>> \in Refused
        THEN out' = <<>> /\ UNCHANGED <<tree, csubs, retains, expired, served, wild>>
        ELSE /\ tree' = [t EXCEPT ![path] = WithList(@, f.group, list)]
             /\ csubs' = IF new THEN [csubs EXCEPT ![c] = Remember(@, [path |-> path, group |-> f.group])]
                         ELSE csubs
             /\ served' = IF new THEN Turns(path, f.group, list) ELSE served
             /\ out' = IF replay THEN retain__queue(c, f, o) ELSE <<>>
             /\ UNCHANGED <<retains, expired, wild>>

(* sub__remove(), from handle__unsubscribe(). *)
handle__unsubscribe(c, f) ==
    LET path == PathOf(f.levels)
        list == Drop(ListOf(tree[path], f.group), c)
    IN  /\ out' = <<>>
        /\ IF path \in DOMAIN tree /\ Has(ListOf(tree[path], f.group), c)
           THEN /\ tree' = Prune([tree EXCEPT ![path] = WithList(@, f.group, list)], path)
                /\ csubs' = [csubs EXCEPT ![c] = IF f.group = NoGroup THEN ForgetNormal(@, path)
                                                 ELSE ForgetShared(@, path, f.group)]
                /\ served' = Turns(path, f.group, list)
           ELSE tree' = Prune(tree, path) /\ UNCHANGED <<csubs, served>>
        /\ UNCHANGED <<retains, expired, wild>>

(* One record of the client after the other. *)
CleanOne(t, c, csub) ==
    IF csub = NoSub \/ csub.path \notin DOMAIN t THEN t
    ELSE Prune([t EXCEPT ![csub.path] = WithList(@, csub.group, Drop(ListOf(@, csub.group), c))], csub.path)

\* Mutant: the members of groups are passed over.
CleanNormalOnly(c) ==
    /\ tree' = FoldLeft(LAMBDA t, s : IF s.group = NoGroup THEN CleanOne(t, c, s) ELSE t, tree, csubs[c])
    /\ csubs' = [csubs EXCEPT ![c] = <<>>]
    /\ served' = {s \in served : ~\E x \in served : x.c = c /\ x.path = s.path /\ x.group = s.group}
    /\ out' = <<>>
    /\ UNCHANGED <<retains, expired, wild>>

sub__clean_session(c) ==
    /\ tree' = FoldLeft(LAMBDA t, s : CleanOne(t, c, s), tree, csubs[c])
    /\ wild' = \E i \in DOMAIN csubs[c] : csubs[c][i] # NoSub /\ csubs[c][i].path \notin DOMAIN tree
    /\ csubs' = [csubs EXCEPT ![c] = <<>>]
    /\ served' = LET left == {<<s.path, s.group>> : s \in {x \in served : x.c = c}}
                 IN  {[s EXCEPT !.n = IF <<s.path, s.group>> \in left THEN 0 ELSE @] :
                        s \in {x \in served : x.c # c}}
    /\ out' = <<>>
    /\ UNCHANGED <<retains, expired>>

-----------------------------------------------------------------------------
(* Publishing. *)

RECURSIVE sub__search(_, _)
\* Mutant: "#" is looked for only when there are levels left.
SearchWithoutParent(path, tokens) ==
    LET Level(key) ==
            LET b == Append(path, key)
            IN  IF tokens = <<>> \/ b \notin DOMAIN tree THEN <<>>
                ELSE sub__search(b, Tail(tokens)) \o (IF Len(tokens) = 1 THEN <<b>> ELSE <<>>)
        hash == Append(path, "#")
    IN  (IF tokens = <<>> THEN <<>> ELSE Level(tokens[1]) \o Level("+"))
        \o (IF tokens # <<>> /\ hash \in DOMAIN tree THEN <<hash>> ELSE <<>>)

sub__search(path, tokens) ==
    LET Level(key) ==
            LET b == Append(path, key)
            IN  IF tokens = <<>> \/ b \notin DOMAIN tree THEN <<>>
                ELSE sub__search(b, Tail(tokens)) \o (IF Len(tokens) = 1 THEN <<b>> ELSE <<>>)
        hash == Append(path, "#")
    IN  (IF tokens = <<>> THEN <<>> ELSE Level(tokens[1]) \o Level("+"))
        \o (IF hash \in DOMAIN tree /\ Children(tree, hash) = {} THEN <<hash>> ELSE <<>>)

subs__send(leaf, path, group, m, retain) ==
    IF <<leaf.c, m.topic>> \in Denied THEN <<>>
    ELSE <<[c |-> leaf.c, levels |-> LevelsOf(path), group |-> group, topic |-> m.topic,
            payload |-> m.payload, qos |-> IF m.qos > leaf.qos THEN leaf.qos ELSE m.qos,
            retain |-> retain /\ leaf.rap, id |-> leaf.id]>>

(* The first of every group, then all the others. *)
subs__process(path, c, m, retain) ==
    LET groups == SetToSeq(tree[path].shared)
        leaves == SelectSeq(tree[path].subs, LAMBDA l : ~(l.nl /\ l.c = c))
    IN  FlattenSeq([i \in DOMAIN groups |-> subs__send(groups[i].subs[1], path, groups[i].name, m, retain)])
        \o FlattenSeq([i \in DOMAIN leaves |-> subs__send(leaves[i], path, NoGroup, m, retain)])

\* Mutant: the first of a group stays the first.
NoRotation(node) == node

(* The one that was served goes to the end. *)
Rotate(node) ==
    [node EXCEPT !.shared = {[s EXCEPT !.subs = Append(Tail(@), Head(@))] : s \in @}]

sub__messages_queue(c, m, retain) ==
    LET tokens == sub__topic_tokenise(m.topic)
        nodes  == IF <<tokens[1]>> \in DOMAIN tree THEN sub__search(<<tokens[1]>>, tokens) ELSE <<>>
        hit    == Range(nodes)
        turn(s) == s.path \in hit /\ Members(tree[s.path], s.group)[1].c = s.c
    IN  /\ out' = FlattenSeq([i \in DOMAIN nodes |-> subs__process(nodes[i], c, m, retain)])
        /\ tree' = [p \in DOMAIN tree |-> IF p \in hit THEN Rotate(tree[p]) ELSE tree[p]]
        /\ served' = {[s EXCEPT !.n = IF turn(s) THEN @ + 1 ELSE @] : s \in served}
        /\ retains' = IF retain THEN retain__store(m.topic, m.payload, m.qos) ELSE retains
        /\ expired' = IF retain THEN expired \ {PathOf(m.topic)} ELSE expired
        /\ UNCHANGED <<csubs, wild>>

Expire ==
    /\ \E p \in {q \in DOMAIN retains \ expired : retains[q] # NoMessage} : expired' = expired \cup {p}
    /\ out' = <<>>
    /\ UNCHANGED <<tree, csubs, retains, served, wild>>

Init ==
    /\ use \in Scenarios
    /\ tree = [p \in {<<"">>, <<"$SYS">>} |-> Bare]
    /\ csubs = [c \in Clients |-> <<>>]
    /\ retains = [p \in {<<"">>, <<"$SYS">>} |-> NoMessage]
    /\ expired = {} /\ out = <<>> /\ served = {} /\ wild = FALSE

Next ==
    /\ ~wild
    /\ UNCHANGED use
    /\ \/ \E c \in Clients :
            \/ \E f \in use.filters[c] :
                \/ /\ Cardinality({i \in DOMAIN csubs[c] : csubs[c][i] # NoSub}) < MaxSubs
                   /\ \E o \in use.options : handle__subscribe(c, f, o)
                \/ handle__unsubscribe(c, f)
            \/ sub__clean_session(c)
            \/ /\ \A s \in served : s.n < MaxTurns
               /\ \E t \in use.topics, p \in use.payloads, r \in use.retain :
                    sub__messages_queue(c, [topic |-> t, payload |-> p, qos |-> 1], r)
       \/ Expire

Spec == Init /\ [][Next]_vars

-----------------------------------------------------------------------------
(* The subscriptions the tree holds. *)
TreeSubs ==
    UNION {LET levels == LevelsOf(p)
               Sub(l, g) == [c |-> l.c, levels |-> levels, group |-> g,
                             qos |-> l.qos, id |-> l.id, nl |-> l.nl, rap |-> l.rap]
           IN  {Sub(l, NoGroup) : l \in Range(tree[p].subs)}
               \cup UNION {{Sub(l, g.name) : l \in Range(g.subs)} : g \in tree[p].shared}
           : p \in DOMAIN tree}

Flat == INSTANCE Subscriptions WITH
    Filters <- [c \in Clients |-> UNION {u.filters[c] : u \in Scenarios}],
    Qos <- {1},
    TopicNames <- UNION {u.topics : u \in Scenarios},
    Options <- UNION {u.options : u \in Scenarios},
    Payloads <- UNION {u.payloads : u \in Scenarios},
    subs <- TreeSubs,
    retained <- {retains[p] : p \in {q \in DOMAIN retains \ expired : retains[q] # NoMessage}},
    out <- [m \in Range(out) |-> Cardinality({i \in DOMAIN out : out[i] = m})]

(* The trees implement the flat set of subscriptions: walking them         *)
(* (sub__search(), retain__search()) hands a message to each subscription  *)
(* that matches by MQTT's rule, once, and to no other, after any sequence  *)
(* of additions, removals and prunings of nodes.                           *)
TreeImplementsFlat == Flat!Spec

(* Nodes are freed when nothing needs them: every node but the roots leads *)
(* to a subscription (sub__remove_recurse(), tmp_remove_subs()).           *)
NoIdleNodes ==
    \A p \in DOMAIN tree : Len(p) > 1 =>
        \E q \in DOMAIN tree : IsPrefix(p, q) /\ tree[q] # Bare

(* A client's own list (context->subs) and the tree name the same          *)
(* subscriptions: what sub__add() put in one, it put in the other, and     *)
(* sub__remove() and sub__clean_session() took out of both.  The tree has  *)
(* no nodes but those that lead to them.                                   *)
RecordsAgree ==
    /\ NoIdleNodes
    /\ \A c \in Clients :
            {s \in Range(csubs[c]) : s # NoSub}
            = UNION {{[path |-> p, group |-> g] :
                        g \in {x \in {NoGroup} \cup {s.name : s \in tree[p].shared} : Has(ListOf(tree[p], x), c)}}
                     : p \in DOMAIN tree}

(* Members of a group take turns (subs__shared_process()): between two     *)
(* changes of the group none is served twice more than another.            *)
GroupsTakeTurns ==
    \A s, u \in served : s.path = u.path /\ s.group = u.group => s.n <= u.n + 1

(* The end of a session removes all its subscriptions from the tree        *)
(* (sub__clean_session()), so that no message is handed to a client that   *)
(* is gone.  The code does not keep to this (README, Deviations).          *)
CleanedIsGone ==
    [][\A c \in Clients : csubs[c] # <<>> /\ csubs'[c] = <<>> => ~\E s \in TreeSubs' : s.c = c]_vars
=============================================================================
