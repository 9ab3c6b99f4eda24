--------------------------- MODULE Subscriptions ---------------------------
(***************************************************************************)
(* What subscriptions and retained messages promise, without the trees the *)
(* broker keeps them in: a flat set of subscriptions, the last retained    *)
(* message of every topic, and for each step the messages handed out.  A   *)
(* topic or a filter is the sequence of its levels.                        *)
(***************************************************************************)
EXTENDS Naturals, Sequences, FiniteSets

CONSTANTS
    Clients,
    Filters,        \* Filters[c]: what client c may subscribe to, [levels, group]
    TopicNames,     \* the topics published to
    Options,        \* subscription options: [qos, id, nl, rap, handling]
    Qos,            \* the levels of service messages are published with
    Payloads,       \* contents of messages; NoPayload is the empty one
    NoPayload,
    Denied          \* <<client, topic>>: access control forbids reading

VARIABLES
    subs,       \* set of [c, levels, group, qos, id, nl, rap]
    retained,   \* set of [topic, payload, qos]
    out         \* bag of messages handed out by the last step

vars == <<subs, retained, out>>

NoGroup == ""       \* the group of a subscription that is not shared

Dollar(levels) == levels[1] \in {"$SYS", "$x"}

(* The matching rule of MQTT: + stands for one level, # for all that       *)
(* follow and for the parent level; a wildcard never matches a first level *)
(* that starts with $.                                                     *)
Matches(filter, topic) ==
    LET n    == Len(filter)
        hash == filter[n] = "#"
        k    == IF hash THEN n - 1 ELSE n
    IN  /\ Dollar(filter) = Dollar(topic)
        /\ IF hash THEN Len(topic) >= k ELSE Len(topic) = k
        /\ \A i \in 1..k : filter[i] \in {topic[i], "+"}

MinQos(a, b) == IF a < b THEN a ELSE b
Once(S) == [x \in S |-> 1]

Same(s, c, f) == s.c = c /\ s.levels = f.levels /\ s.group = f.group

(* The retained messages a new subscription brings. *)
Replay(c, f, o) ==
    {[c |-> c, levels |-> f.levels, group |-> f.group, topic |-> r.topic, payload |-> r.payload,
      qos |-> MinQos(r.qos, o.qos), retain |-> TRUE, id |-> o.id] :
        r \in {x \in retained : Matches(f.levels, x.topic) /\ <<c, x.topic>> \notin Denied}}

Init == subs = {} /\ retained = {} /\ out = Once({})

(* A second subscription to the same filter changes the QoS and identifier *)
(* only.  Retained messages are due or not, as the version and the options *)
(* of the subscription say.                                                *)
Subscribe(c, f, o) ==
    LET old == {s \in subs : Same(s, c, f)}
    IN  /\ UNCHANGED retained
        /\ out' \in {Once({}), Once(Replay(c, f, o))}
        /\ subs' = (subs \ old) \cup
            IF old = {}
            THEN {[c |-> c, levels |-> f.levels, group |-> f.group,
                   qos |-> o.qos, id |-> o.id, nl |-> o.nl, rap |-> o.rap]}
            ELSE {[s EXCEPT !.qos = o.qos, !.id = o.id] : s \in old}

Unsubscribe(c, f) ==
    /\ UNCHANGED retained
    /\ out' = Once({})
    /\ subs' = {s \in subs : ~Same(s, c, f)}

CleanSession(c) ==
    /\ UNCHANGED retained
    /\ out' = Once({})
    /\ subs' = {s \in subs : s.c # c}

(* Each matching subscription gets the message once, except the publisher's*)
(* own with no_local; of each group that matches, one member gets it.      *)
Receives(s, topic, payload, qos, retain) ==
    [c |-> s.c, levels |-> s.levels, group |-> s.group, topic |-> topic, payload |-> payload,
     qos |-> MinQos(qos, s.qos), retain |-> retain /\ s.rap, id |-> s.id]

Publish(c, topic, payload, qos, retain) ==
    LET match  == {s \in subs : Matches(s.levels, topic)}
        single == {s \in match : s.group = NoGroup /\ ~(s.nl /\ s.c = c)}
        groups == {<<s.levels, s.group>> : s \in {x \in match : x.group # NoGroup}}
    IN  /\ retained' =
            IF ~retain THEN retained
            ELSE {r \in retained : r.topic # topic} \cup
                 IF payload = NoPayload THEN {} ELSE {[topic |-> topic, payload |-> payload, qos |-> qos]}
        /\ \E pick \in [groups -> match] :
            /\ \A g \in groups : g = <<pick[g].levels, pick[g].group>>
            /\ out' = Once({Receives(s, topic, payload, qos, retain) :
                             s \in {x \in single \cup {pick[g] : g \in groups} :
                                        <<x.c, topic>> \notin Denied}})

(* Messages expire. *)
Expire ==
    /\ out' = Once({})
    /\ retained' \in SUBSET retained
    /\ UNCHANGED subs

Next ==
    \/ Expire
    \/ \E c \in Clients :
        \/ CleanSession(c)
        \/ \E f \in Filters[c] :
            \/ Unsubscribe(c, f)
            \/ \E o \in Options : Subscribe(c, f, o)
    \/ /\ UNCHANGED subs
       /\ \E c \in Clients, t \in TopicNames, p \in Payloads, q \in Qos, r \in BOOLEAN : Publish(c, t, p, q, r)

Spec == Init /\ [][Next]_vars
=============================================================================
