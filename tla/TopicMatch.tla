----------------------------- MODULE TopicMatch -----------------------------
(***************************************************************************)
(* The functions on topic strings: validity (lib/util_topic.c), splitting  *)
(* into levels (lib/mosquitto.c, src/topic_tok.c) and the character by     *)
(* character comparison mosquitto_topic_matches_sub(), against MQTT's rule *)
(* on sequences of levels.  A string is a sequence of characters; reading  *)
(* past its end gives the terminating zero.  Strings grow one character at *)
(* a time, so that every pair up to the bounds is compared.                *)
(***************************************************************************)
EXTENDS Naturals, Sequences, SequencesExt

CONSTANTS
    Chars,              \* characters of subscriptions; of topics, those but + and #
    MaxSub, MaxTopic,   \* bounds on the lengths
    HierLimit           \* TOPIC_HIERARCHY_LIMIT

VARIABLES sub, topic

End == "0"
At(s, i) == IF i \in DOMAIN s THEN s[i] ELSE End
Slashes(s) == {i \in DOMAIN s : s[i] = "/"}

mosquitto_pub_topic_check(s) ==
    Range(s) \cap {"+", "#"} = {} /\ Cardinality(Slashes(s)) <= HierLimit

mosquitto_sub_topic_check(s) ==
    /\ \A i \in DOMAIN s :
        /\ s[i] = "+" => At(s, i - 1) \in {End, "/"} /\ At(s, i + 1) \in {End, "/"}
        /\ s[i] = "#" => At(s, i - 1) \in {End, "/"} /\ At(s, i + 1) = End
    /\ Cardinality(Slashes(s)) <= HierLimit

(* The pieces between separators (strtok_hier()). *)
Levels(s) ==
    LET cuts == SetToSortSeq(Slashes(s) \cup {0, Len(s) + 1}, <)
    IN  [k \in 1..(Len(cuts) - 1) |-> SubSeq(s, cuts[k] + 1, cuts[k + 1] - 1)]

(* The library's splitting loop: start of the level, index of the next one.*)
RECURSIVE SplitFrom(_, _, _, _)
SplitFrom(s, i, start, levels) ==
    IF i > Len(s) + 1 THEN levels
    ELSE IF At(s, i) \in {"/", End}
         THEN SplitFrom(s, i + 1, i + 1, Append(levels, SubSeq(s, start, i - 1)))
         ELSE SplitFrom(s, i + 1, start, levels)

mosquitto_sub_topic_tokenise(s) == SplitFrom(s, 1, 1, <<>>)

-----------------------------------------------------------------------------
(* mosquitto_topic_matches_sub2(): from position i of the subscription and *)
(* position j of the topic; "invalid" is MOSQ_ERR_INVAL.                   *)
Wild == {"+", "#"}
Answer(b) == IF b THEN "match" ELSE "none"
Checked(t, j, answer) ==
    IF \E k \in j..Len(t) : t[k] \in Wild THEN "invalid" ELSE answer
NextSlash(t, j) ==
    IF \E k \in j..Len(t) : t[k] = "/"
    THEN CHOOSE k \in j..Len(t) : t[k] = "/" /\ \A l \in j..(k - 1) : t[l] # "/"
    ELSE Len(t) + 1
BadPlace(s, i) == i > 1 /\ s[i - 1] # "/"

RECURSIVE MatchFrom(_, _, _, _)
MatchFrom(s, i, t, j) ==
    LET differ == At(s, i) # At(t, j) \/ At(t, j) = End
        skip   == NextSlash(t, j)
        ended  == j = Len(t)
    IN  CASE i > Len(s) -> Checked(t, j, "none")
          [] i <= Len(s) /\ At(t, j) \in Wild -> "invalid"
          [] i <= Len(s) /\ At(t, j) \notin Wild /\ differ /\ s[i] = "+" ->
                IF BadPlace(s, i) \/ At(s, i + 1) \notin {End, "/"} THEN "invalid"
                ELSE IF \E k \in j..(skip - 1) : t[k] \in Wild THEN "invalid"
                ELSE IF skip > Len(t) /\ i = Len(s) THEN "match"
                ELSE MatchFrom(s, i + 1, t, skip)
          [] i <= Len(s) /\ At(t, j) \notin Wild /\ differ /\ s[i] = "#" ->
                IF BadPlace(s, i) \/ i < Len(s) THEN "invalid" ELSE Checked(t, j, "match")
          [] i <= Len(s) /\ At(t, j) \notin Wild /\ differ /\ s[i] \notin Wild ->
                IF j > Len(t) /\ i > 1 /\ s[i - 1] = "+" /\ s[i] = "/" /\ At(s, i + 1) = "#" THEN "match"
                ELSE IF \E k \in i..(Len(s) - 1) : s[k] = "#" THEN "invalid" ELSE "none"
          [] OTHER ->
                IF ended /\ At(s, i + 1) = "/" /\ At(s, i + 2) = "#" /\ At(s, i + 3) = End THEN "match"
                ELSE IF ended /\ i = Len(s) THEN "match"
                ELSE IF ended /\ At(s, i + 1) = "+" /\ i + 1 = Len(s)
                     THEN IF s[i] # "/" THEN "invalid" ELSE "match"
                ELSE MatchFrom(s, i + 1, t, j + 1)

\* Mutant: the last level may not be empty under +.
NoEmptyLast(s, t) ==
    IF s = <<>> \/ t = <<>> THEN "invalid"
    ELSE IF (s[1] = "$") # (t[1] = "$") THEN "none"
    ELSE IF Len(s) > 1 /\ s[Len(s)] = "+" /\ t[Len(t)] = "/" THEN "none"
    ELSE MatchFrom(s, 1, t, 1)

mosquitto_topic_matches_sub2(s, t) ==
    IF s = <<>> \/ t = <<>> THEN "invalid"
    ELSE IF (s[1] = "$") # (t[1] = "$") THEN "none"
    ELSE MatchFrom(s, 1, t, 1)

-----------------------------------------------------------------------------
Init == sub = <<>> /\ topic = <<>>
Next ==
    \/ Len(sub) < MaxSub /\ (\E c \in Chars : sub' = Append(sub, c)) /\ UNCHANGED topic
    \/ Len(topic) < MaxTopic /\ (\E c \in Chars \ Wild : topic' = Append(topic, c)) /\ UNCHANGED sub

(* The rule, on levels. *)
LevelsMatch(f, t) ==
    LET n == Len(f)
        hash == f[n] = <<"#">>
        k == IF hash THEN n - 1 ELSE n
    IN  /\ IF hash THEN Len(t) >= k ELSE Len(t) = k
        /\ \A i \in 1..k : f[i] \in {t[i], <<"+">>}

ValidFilter(s) ==
    LET f == Levels(s)
    IN  \A i \in DOMAIN f : Range(f[i]) \cap Wild # {} => Len(f[i]) = 1 /\ (f[i] = <<"#">> => i = Len(f))

(* mosquitto_topic_matches_sub() decides for every valid subscription and  *)
(* topic what MQTT's rule on levels says, and mosquitto_sub_topic_check()  *)
(* lets exactly the subscriptions through for which that rule is defined.  *)
MatchExact ==
    sub # <<>> =>
        /\ mosquitto_sub_topic_check(sub) = (ValidFilter(sub) /\ Len(Levels(sub)) <= HierLimit + 1)
        /\ mosquitto_sub_topic_check(sub) /\ topic # <<>> =>
            mosquitto_topic_matches_sub2(sub, topic)
            = Answer((sub[1] = "$") = (topic[1] = "$") /\ LevelsMatch(mosquitto_sub_topic_tokenise(sub), Levels(topic)))
=============================================================================
