------------------------------ MODULE MCTopics ------------------------------
(* Two clients in four scenarios, chosen in the initial state: plain       *)
(* subscriptions with two sets of options, shared groups, retained messages*)
(* and topics that start with $; and in a fifth, where they do nothing, the*)
(* comparison of strings.                                                  *)
EXTENDS Topics

VARIABLES sub, topic

P(levels) == [levels |-> levels, group |-> NoGroup]
S(levels) == [levels |-> levels, group |-> "g"]

Full == [qos |-> 1, id |-> 0, nl |-> TRUE, rap |-> TRUE, handling |-> "always"]
Lean == [qos |-> 0, id |-> 5, nl |-> FALSE, rap |-> FALSE, handling |-> "new"]
Mute == [qos |-> 1, id |-> 0, nl |-> FALSE, rap |-> TRUE, handling |-> "never"]

Does(c1, c2, options, topics, retain) ==
    [filters |-> [c \in Clients |-> IF c = "c1" THEN c1 ELSE c2], options |-> options, topics |-> topics,
     payloads |-> IF retain THEN {"none", "p"} ELSE {"p"}, retain |-> {retain}]

Nobody == Does({}, {}, {}, {}, FALSE)

SomeScenarios ==
    {Does({P(<<"a">>), P(<<"a", "#">>), P(<<"+", "b">>)}, {P(<<"a", "b">>)}, {Full, Lean},
          {<<"a">>, <<"a", "b">>}, FALSE),
     Does({S(<<"a", "#">>), S(<<"a">>), P(<<"#">>)}, {S(<<"a", "#">>), P(<<"a">>)}, {Full},
          {<<"a">>, <<"b">>}, FALSE),
     Does({P(<<"a", "#">>), P(<<"+">>)}, {S(<<"#">>)}, {Lean, Mute}, {<<"a">>, <<"a", "b">>}, TRUE),
     Does({P(<<"$x", "#">>), P(<<"#">>)}, {}, {Full}, {<<"$x", "b">>, <<"b">>}, TRUE),
     Nobody}

(* One filter plainly and in a group: refutes CleanedIsGone. *)
MixedScenario == {Does({P(<<"a">>), S(<<"a">>)}, {}, {Full}, {<<"a">>}, FALSE)}
SomeRefused == {<<"c2", P(<<"a", "b">>)>>}
SomeDenied == {<<"c2", <<"a", "b">>>>}

Strings == INSTANCE TopicMatch WITH
    Chars <- {"a", "/", "+", "#", "$"}, MaxSub <- 5, MaxTopic <- 3, HierLimit <- 2

MCInit == Init /\ Strings!Init
MCNext ==
    \/ use # Nobody /\ Next /\ UNCHANGED <<sub, topic>>
    \/ use = Nobody /\ Strings!Next /\ UNCHANGED vars
MCSpec == MCInit /\ [][MCNext]_<<vars, sub, topic>>

(* mosquitto_topic_matches_sub() follows MQTT's rule (MatchExact of module *)
(* TopicMatch).                                                            *)
MatchExact == Strings!MatchExact
=============================================================================
